---------------------------- MODULE Cube3DProofs ----------------------------
(***************************************************************************)
(* Theorems about Cube3D, for every shape, batch, pack and chunk: the       *)
(* caller's input is kept until the last launch, and a call that returns     *)
(* success has transformed every element of every cube once along each axis  *)
(* and left it at its natural place.                                         *)
(*                                                                         *)
(* The argument follows the order in which the axes lie in memory.  Every    *)
(* launch of every node is shown to take a buffer whose axes lie in one       *)
(* order to a buffer whose axes lie in another (Carries, Permutes); the       *)
(* orders a node passes through are listed in Held.                           *)
(***************************************************************************)
EXTENDS Cube3D, TLAPS, FiniteSetTheorems, SequenceTheorems

-----------------------------------------------------------------------------
(* Arithmetic of mixed radices.                                            *)

Pos == Nat \ {0}

LEMMA Products ==
  ASSUME NEW x \in Nat, NEW y \in Nat
  PROVE  x * y \in Nat /\ (x > 0 /\ y > 0 => x * y > 0)
OBVIOUS

\* A number is told by its quotient and remainder, and these by it.
LEMMA Digits ==
  ASSUME NEW q \in Nat, NEW d \in Pos, NEW x \in 0 .. d - 1
  PROVE  /\ q * d + x \in Nat
         /\ (q * d + x) \div d = q /\ (q * d + x) % d = x
BY DEF Pos

LEMMA Division ==
  ASSUME NEW a \in Nat, NEW d \in Pos
  PROVE  /\ a \div d \in Nat /\ a % d \in 0 .. d - 1
         /\ a = (a \div d) * d + (a % d)
BY DEF Pos

LEMMA DigitBound ==
  ASSUME NEW m \in Nat, NEW q \in 0 .. m - 1, NEW d \in Pos, NEW x \in 0 .. d - 1
  PROVE  q * d + x \in 0 .. m * d - 1
<1>1. (m - 1 - q) * d >= 0
  BY DEF Pos
<1>2. m * d = q * d + d + (m - 1 - q) * d
  BY DEF Pos
<1>3. q * d \in Nat /\ m * d \in Nat
  BY DEF Pos
<1> QED
  BY <1>1, <1>2, <1>3 DEF Pos

LEMMA QuotientBound ==
  ASSUME NEW m \in Nat, NEW d \in Pos, NEW a \in 0 .. m * d - 1
  PROVE  a \div d \in 0 .. m - 1
<1> DEFINE q == a \div d  x == a % d
<1>1. a \in Nat /\ q \in Nat /\ a = q * d + x /\ x \in 0 .. d - 1
  BY Division
<1> HIDE DEF q, x
<1>2. ASSUME q >= m
      PROVE  FALSE
  <2>1. (q - m) * d >= 0
    BY <1>1, <1>2 DEF Pos
  <2>2. q * d = m * d + (q - m) * d
    BY <1>1 DEF Pos
  <2>3. q * d \in Nat /\ m * d \in Nat
    BY <1>1 DEF Pos
  <2> QED
    BY <1>1, <2>1, <2>2, <2>3 DEF Pos
<1>3. q \in 0 .. m - 1
  BY <1>1, <1>2
<1> QED
  BY <1>3 DEF q

LEMMA SameDigits ==
  ASSUME NEW d \in Pos, NEW q \in Nat, NEW p \in Nat,
         NEW x \in 0 .. d - 1, NEW y \in 0 .. d - 1,
         q * d + x = p * d + y
  PROVE  q = p /\ x = y
BY Digits

\* Position of the digits x0, x1, x2 of item c in an array of extents d0, d1, d2.
Place3(d0, d1, d2, c, x0, x1, x2) == ((c * d0 + x0) * d1 + x1) * d2 + x2

LEMMA Place3Digits ==
  ASSUME NEW d0 \in Pos, NEW d1 \in Pos, NEW d2 \in Pos, NEW c \in Nat,
         NEW x0 \in 0 .. d0 - 1, NEW x1 \in 0 .. d1 - 1, NEW x2 \in 0 .. d2 - 1
  PROVE  LET a == Place3(d0, d1, d2, c, x0, x1, x2)
             s == d0 * d1 * d2
             i == (x0 * d1 + x1) * d2 + x2
         IN  /\ a \in Nat /\ s \in Pos /\ i \in 0 .. s - 1
             /\ a = c * s + i
             /\ a \div s = c /\ a % s = i
             /\ i \div (d1 * d2) = x0 /\ (i \div d2) % d1 = x1 /\ i % d2 = x2
<1> DEFINE a == Place3(d0, d1, d2, c, x0, x1, x2)
           s == d0 * d1 * d2
           i == (x0 * d1 + x1) * d2 + x2
<1>1. d0 * d1 \in Pos /\ d1 * d2 \in Pos /\ s \in Pos
  BY Products DEF Pos
<1>2. x0 * d1 + x1 \in 0 .. d0 * d1 - 1
  BY DigitBound DEF Pos
<1>3. i \in 0 .. s - 1
  <2> DEFINE m == d0 * d1  h == x0 * d1 + x1
  <2>1. m \in Nat /\ h \in 0 .. m - 1
    BY <1>1, <1>2 DEF Pos
  <2> HIDE DEF m, h
  <2>2. h * d2 + x2 \in 0 .. m * d2 - 1
    BY <2>1, DigitBound
  <2> QED
    BY <2>2 DEF m, h
<1>4. a = c * s + i
  <2>1. (c * d0 + x0) * d1 = c * (d0 * d1) + x0 * d1
    BY DEF Pos
  <2>2. ((c * d0 + x0) * d1 + x1) * d2 = (c * (d0 * d1)) * d2 + (x0 * d1 + x1) * d2
    BY <2>1 DEF Pos
  <2>3. (c * (d0 * d1)) * d2 = c * s
    BY DEF Pos
  <2> QED
    BY <2>2, <2>3 DEF Place3, Pos
<1>5. a \in Nat /\ a \div s = c /\ a % s = i
  <2> HIDE DEF a, s, i
  <2> QED
    BY <1>1, <1>3, <1>4, Digits
<1>6. i = x0 * (d1 * d2) + (x1 * d2 + x2) /\ x1 * d2 + x2 \in 0 .. d1 * d2 - 1
  <2>1. x1 * d2 + x2 \in 0 .. d1 * d2 - 1
    BY DigitBound DEF Pos
  <2>2. (x0 * d1 + x1) * d2 = x0 * (d1 * d2) + x1 * d2
    BY DEF Pos
  <2> QED
    BY <2>1, <2>2 DEF Pos
<1>7. i \div (d1 * d2) = x0
  <2> DEFINE e == d1 * d2  y == x1 * d2 + x2
  <2>1. e \in Pos /\ y \in 0 .. e - 1 /\ i = x0 * e + y /\ x0 \in Nat
    BY <1>1, <1>6
  <2> HIDE DEF e, y, i
  <2>2. i \div e = x0
    BY <2>1, Digits
  <2> QED
    BY <2>2 DEF e
<1>8. i \div d2 = x0 * d1 + x1 /\ i % d2 = x2
  <2>1. x0 * d1 + x1 \in Nat
    BY <1>2
  <2> QED
    BY <2>1, Digits
<1>9. (x0 * d1 + x1) % d1 = x1
  BY Digits
<1> QED
  BY <1>1, <1>3, <1>4, <1>5, <1>7, <1>8, <1>9

LEMMA InnerDigits ==
  ASSUME NEW d0 \in Pos, NEW d1 \in Pos, NEW d2 \in Pos,
         NEW x0 \in 0 .. d0 - 1, NEW x1 \in 0 .. d1 - 1, NEW x2 \in 0 .. d2 - 1
  PROVE  /\ ((x0 * d1 + x1) * d2 + x2) \div (d1 * d2) = x0
         /\ (((x0 * d1 + x1) * d2 + x2) \div d2) % d1 = x1
         /\ ((x0 * d1 + x1) * d2 + x2) % d2 = x2
<1>1. 0 \in Nat
  OBVIOUS
<1> QED
  BY <1>1, Place3Digits

LEMMA Place3Exists ==
  ASSUME NEW d0 \in Pos, NEW d1 \in Pos, NEW d2 \in Pos, NEW n \in Nat,
         NEW a \in 0 .. n * (d0 * d1 * d2) - 1
  PROVE  \E c \in 0 .. n - 1, x0 \in 0 .. d0 - 1, x1 \in 0 .. d1 - 1, x2 \in 0 .. d2 - 1 :
           a = Place3(d0, d1, d2, c, x0, x1, x2)
<1> DEFINE h == a \div d2  g == h \div d1
<1>1. h \in Nat /\ a % d2 \in 0 .. d2 - 1 /\ a = h * d2 + (a % d2)
  BY Division
<1>2. n * d0 \in Nat /\ n * d0 * d1 \in Nat
  BY Products DEF Pos
<1>3. n * (d0 * d1 * d2) = (n * d0 * d1) * d2
  BY DEF Pos
<1>4. h \in 0 .. (n * d0) * d1 - 1
  BY <1>2, <1>3, QuotientBound
<1> HIDE DEF h
<1>5. g \in Nat /\ h % d1 \in 0 .. d1 - 1 /\ h = g * d1 + (h % d1)
  BY <1>1, Division
<1>6. g \in 0 .. n * d0 - 1
  BY <1>2, <1>4, QuotientBound
<1> HIDE DEF g
<1>7. g \div d0 \in 0 .. n - 1
  BY <1>6, QuotientBound
<1>8. g % d0 \in 0 .. d0 - 1 /\ g = (g \div d0) * d0 + (g % d0)
  BY <1>5, Division
<1>9. a = Place3(d0, d1, d2, g \div d0, g % d0, h % d1, a % d2)
  BY <1>1, <1>5, <1>8 DEF Place3
<1> QED
  BY <1>1, <1>5, <1>7, <1>8, <1>9
\* Index k of row r in an array whose rows are interleaved by the given span.
Spread(span, len, r, k) == (r \div span) * (len * span) + k * span + (r % span)

LEMMA SpreadApart ==
  ASSUME NEW span \in Pos, NEW len \in Pos, NEW r \in Nat, NEW q \in Nat,
         NEW j \in 0 .. len - 1, NEW k \in 0 .. len - 1,
         Spread(span, len, r, j) = Spread(span, len, q, k)
  PROVE  r = q /\ j = k
<1> DEFINE rh == r \div span  rl == r % span  qh == q \div span  ql == q % span
<1>1. /\ rh \in Nat /\ rl \in 0 .. span - 1 /\ r = rh * span + rl
      /\ qh \in Nat /\ ql \in 0 .. span - 1 /\ q = qh * span + ql
  BY Division
<1>2. rh * (len * span) + j * span + rl = qh * (len * span) + k * span + ql
  BY DEF Spread
<1> HIDE DEF rh, rl, qh, ql
<1>3. rh * len + j \in Nat /\ qh * len + k \in Nat
  BY <1>1 DEF Pos
<1>4. (rh * len + j) * span + rl = (qh * len + k) * span + ql
  <2>1. /\ (rh * len + j) * span = rh * (len * span) + j * span
        /\ (qh * len + k) * span = qh * (len * span) + k * span
    BY <1>1 DEF Pos
  <2> QED
    BY <1>2, <2>1
<1>5. rh * len + j = qh * len + k /\ rl = ql
  BY <1>1, <1>3, <1>4, SameDigits
<1>6. rh = qh /\ j = k
  BY <1>1, <1>5, SameDigits
<1> QED
  BY <1>1, <1>5, <1>6

LEMMA SpreadPlace ==
  ASSUME NEW du \in Pos, NEW dv \in Pos, NEW len \in Pos, NEW c \in Nat,
         NEW xu \in 0 .. du - 1, NEW xv \in 0 .. dv - 1, NEW k \in 0 .. len - 1
  PROVE  LET r == (c * du + xu) * dv + xv
         IN  /\ Spread(du * dv, len, r, k) = Place3(len, du, dv, c, k, xu, xv)
             /\ Spread(dv, len, r, k) = Place3(du, len, dv, c, xu, k, xv)
             /\ Spread(1, len, r, k) = Place3(du, dv, len, c, xu, xv, k)
<1> DEFINE r == (c * du + xu) * dv + xv  h == c * du + xu  x == xu * dv + xv
<1>1. h \in Nat /\ du * dv \in Pos /\ r \in Nat /\ x \in 0 .. du * dv - 1
  BY Products, DigitBound DEF Pos
<1>2. r \div dv = h /\ r % dv = xv
  BY <1>1, Digits
<1>3. r = c * (du * dv) + x
  BY DEF Pos
<1>4. r \div (du * dv) = c /\ r % (du * dv) = x
  <2> DEFINE e == du * dv
  <2> HIDE DEF e, r, x
  <2>1. e \in Pos /\ x \in 0 .. e - 1 /\ r = c * e + x
    BY <1>1, <1>3 DEF e
  <2>2. r \div e = c /\ r % e = x
    BY <2>1, Digits
  <2> QED
    BY <2>2 DEF e
<1>5. r \div 1 = r /\ r % 1 = 0
  BY <1>1
<1>6. Spread(du * dv, len, r, k) = c * (len * (du * dv)) + k * (du * dv) + x
  <2> HIDE DEF r, x
  <2> QED
    BY <1>4 DEF Spread
<1>7. Spread(dv, len, r, k) = h * (len * dv) + k * dv + xv
  <2> HIDE DEF r, h
  <2> QED
    BY <1>2 DEF Spread
<1>8. Spread(1, len, r, k) = r * len + k
  <2> HIDE DEF r
  <2> QED
    BY <1>1, <1>5 DEF Spread, Pos
<1>9. c * (len * (du * dv)) + k * (du * dv) + x = Place3(len, du, dv, c, k, xu, xv)
  BY DEF Place3, Pos
<1>10. h * (len * dv) + k * dv + xv = Place3(du, len, dv, c, xu, k, xv)
  BY DEF Place3, Pos
<1>11. r * len + k = Place3(du, dv, len, c, xu, xv, k)
  BY DEF Place3, Pos
<1> QED
  BY <1>6, <1>7, <1>8, <1>9, <1>10, <1>11

-----------------------------------------------------------------------------
(* Cells in order: where the element with coordinates i of cube c lies when  *)
(* the axes are stored in order o, the last one contiguous.                  *)

Configured == cfg \in Configs

Orders == {<<0, 1, 2>>, <<0, 2, 1>>, <<1, 0, 2>>, <<1, 2, 0>>, <<2, 0, 1>>, <<2, 1, 0>>}
Cubes == 0 .. cfg.batch - 1
Index == {i \in [Axes -> Nat] : \A x \in Axes : i[x] \in 0 .. Extent(x) - 1}
AddrOf(o, c, i) ==
  Place3(Extent(o[1]), Extent(o[2]), Extent(o[3]), c, i[o[1]], i[o[2]], i[o[3]])
Cell(c, i, done) == [cube |-> c, at |-> i, done |-> done]
Holds(m, o, done) == \A c \in Cubes, i \in Index : m[AddrOf(o, c, i)] = Cell(c, i, done)

LEMMA Sizes ==
  ASSUME Configured
  PROVE  /\ cfg.batch \in Pos /\ cfg.pack \in Pos /\ cfg.perBlock \in Pos
         /\ cfg.chunk \in Pos /\ cfg.inPlace \in BOOLEAN
         /\ n0 \in Pos /\ n1 \in Pos /\ n2 \in Pos
         /\ cfg.n0 = n0 /\ cfg.n1 = n1 /\ cfg.n2 = n2
         /\ Extent(0) = n0 /\ Extent(1) = n1 /\ Extent(2) = n2
         /\ \A x \in Axes : Extent(x) \in Pos
<1>1. /\ cfg.batch \in Pos /\ cfg.pack \in Pos /\ cfg.perBlock \in Pos
      /\ cfg.chunk \in Pos /\ cfg.inPlace \in BOOLEAN
      /\ n0 \in Pos /\ n1 \in Pos /\ n2 \in Pos
  BY ConfigsType DEF Configured, Pos, n0, n1, n2
<1>2. Extent(0) = n0 /\ Extent(1) = n1 /\ Extent(2) = n2
  BY DEF Extent, n0, n1, n2
<1> QED
  BY <1>1, <1>2 DEF Axes, n0, n1, n2

LEMMA OrderAxes ==
  ASSUME NEW o \in Orders
  PROVE  /\ o[1] \in Axes /\ o[2] \in Axes /\ o[3] \in Axes
         /\ o[1] # o[2] /\ o[1] # o[3] /\ o[2] # o[3]
         /\ \A x \in Axes : x = o[1] \/ x = o[2] \/ x = o[3]
BY DEF Orders, Axes

LEMMA CubeSizes ==
  ASSUME Configured, NEW o \in Orders
  PROVE  /\ CubeSize = Extent(o[1]) * Extent(o[2]) * Extent(o[3])
         /\ CubeSize \in Pos /\ Total = cfg.batch * CubeSize /\ Total \in Pos
<1>1. CubeSize = n0 * n1 * n2 /\ CubeSize \in Pos
  BY Sizes, Products DEF CubeSize, Pos
<1>2. /\ n0 * n1 * n2 = n0 * n2 * n1 /\ n0 * n1 * n2 = n1 * n0 * n2
      /\ n0 * n1 * n2 = n1 * n2 * n0 /\ n0 * n1 * n2 = n2 * n0 * n1
      /\ n0 * n1 * n2 = n2 * n1 * n0
  BY Sizes DEF Pos
<1>3. CubeSize = Extent(o[1]) * Extent(o[2]) * Extent(o[3])
  BY <1>1, <1>2, Sizes DEF Orders
<1> QED
  BY <1>1, <1>3, Sizes, Products DEF Total, Pos

LEMMA AtAddress ==
  ASSUME Configured, NEW o \in Orders, NEW c \in Cubes, NEW i \in Index
  PROVE  /\ AddrOf(o, c, i) \in Address
         /\ AddrOf(o, c, i) \div CubeSize = c
         /\ AddrOf(o, c, i) % CubeSize
              = (i[o[1]] * Extent(o[2]) + i[o[2]]) * Extent(o[3]) + i[o[3]]
<1> DEFINE d0 == Extent(o[1])  d1 == Extent(o[2])  d2 == Extent(o[3])
           x0 == i[o[1]]  x1 == i[o[2]]  x2 == i[o[3]]
<1>1. d0 \in Pos /\ d1 \in Pos /\ d2 \in Pos /\ c \in Nat
  BY Sizes, OrderAxes DEF Cubes
<1>2. x0 \in 0 .. d0 - 1 /\ x1 \in 0 .. d1 - 1 /\ x2 \in 0 .. d2 - 1
  BY OrderAxes DEF Index
<1>3. CubeSize = d0 * d1 * d2 /\ CubeSize \in Pos /\ Total = cfg.batch * CubeSize
  BY CubeSizes
<1>4. AddrOf(o, c, i) = Place3(d0, d1, d2, c, x0, x1, x2)
  BY DEF AddrOf
<1> HIDE DEF d0, d1, d2, x0, x1, x2
<1>5. /\ AddrOf(o, c, i) = c * CubeSize + ((x0 * d1 + x1) * d2 + x2)
      /\ AddrOf(o, c, i) \div CubeSize = c
      /\ AddrOf(o, c, i) % CubeSize = (x0 * d1 + x1) * d2 + x2
      /\ (x0 * d1 + x1) * d2 + x2 \in 0 .. CubeSize - 1
  <2> DEFINE a == Place3(d0, d1, d2, c, x0, x1, x2)  s == d0 * d1 * d2
             j == (x0 * d1 + x1) * d2 + x2
  <2>1. a = c * s + j /\ a \div s = c /\ a % s = j /\ j \in 0 .. s - 1
    BY <1>1, <1>2, Place3Digits
  <2>2. s = CubeSize
    BY <1>3
  <2> HIDE DEF s, j, a
  <2>3. a = c * CubeSize + j /\ a \div CubeSize = c /\ a % CubeSize = j /\ j \in 0 .. CubeSize - 1
    BY <2>1, <2>2
  <2> QED
    BY <1>4, <2>3 DEF a, j
<1>6. AddrOf(o, c, i) \in 0 .. cfg.batch * CubeSize - 1
  <2>1. cfg.batch \in Nat /\ c \in 0 .. cfg.batch - 1
    BY Sizes DEF Cubes, Pos
  <2> QED
    BY <1>3, <1>5, <2>1, DigitBound
<1> QED
  BY <1>3, <1>5, <1>6 DEF Address, d1, d2, x0, x1, x2

LEMMA AtExists ==
  ASSUME Configured, NEW o \in Orders, NEW a \in Address
  PROVE  \E c \in Cubes, i \in Index : a = AddrOf(o, c, i)
<1> DEFINE d0 == Extent(o[1])  d1 == Extent(o[2])  d2 == Extent(o[3])
<1>1. d0 \in Pos /\ d1 \in Pos /\ d2 \in Pos /\ cfg.batch \in Nat
  BY Sizes, OrderAxes DEF Pos
<1>2. a \in 0 .. cfg.batch * (d0 * d1 * d2) - 1
  BY CubeSizes DEF Address
<1>3. PICK c \in 0 .. cfg.batch - 1, x0 \in 0 .. d0 - 1, x1 \in 0 .. d1 - 1,
           x2 \in 0 .. d2 - 1 : a = Place3(d0, d1, d2, c, x0, x1, x2)
  <2> HIDE DEF d0, d1, d2
  <2> QED
    BY <1>1, <1>2, Place3Exists
<1> DEFINE i == [x \in Axes |-> IF x = o[1] THEN x0 ELSE IF x = o[2] THEN x1 ELSE x2]
<1>4. i[o[1]] = x0 /\ i[o[2]] = x1 /\ i[o[3]] = x2
  BY OrderAxes
<1>5. i \in Index
  <2>1. \A x \in Axes : i[x] \in 0 .. Extent(x) - 1
    <3> SUFFICES ASSUME NEW x \in Axes PROVE i[x] \in 0 .. Extent(x) - 1
      OBVIOUS
    <3>1. x = o[1] \/ x = o[2] \/ x = o[3]
      BY OrderAxes
    <3> HIDE DEF i
    <3> QED
      BY <1>4, <3>1
  <2>2. i \in [Axes -> Nat]
    OBVIOUS
  <2> QED
    BY <2>1, <2>2 DEF Index
<1>6. a = AddrOf(o, c, i)
  BY <1>3, <1>4 DEF AddrOf
<1> QED
  BY <1>5, <1>6 DEF Cubes

LEMMA NaturalCell ==
  ASSUME Configured, NEW c \in Cubes, NEW i \in Index, NEW done
  PROVE  Natural(AddrOf(<<0, 1, 2>>, c, i), done) = Cell(c, i, done)
<1> DEFINE a == AddrOf(<<0, 1, 2>>, c, i)  j == (i[0] * n1 + i[1]) * n2 + i[2]
<1>1. i[0] \in 0 .. n0 - 1 /\ i[1] \in 0 .. n1 - 1 /\ i[2] \in 0 .. n2 - 1
  BY Sizes DEF Index, Axes
<1>2. a \div CubeSize = c /\ a % CubeSize = j
  <2>1. <<0, 1, 2>> \in Orders
    BY DEF Orders
  <2> QED
    BY <2>1, AtAddress, Sizes
<1>3. j \div (n1 * n2) = i[0] /\ (j \div n2) % n1 = i[1] /\ j % n2 = i[2]
  BY <1>1, Sizes, InnerDigits
<1> DEFINE k == a % CubeSize
           Read(x) == CASE x = 0 -> k \div (n1 * n2)
                        [] x = 1 -> (k \div n2) % n1
                        [] x = 2 -> k % n2
<1>4. Natural(a, done)
        = [cube |-> a \div CubeSize, at |-> [x \in Axes |-> Read(x)], done |-> done]
  BY DEF Natural
<1>5. k = j /\ Read(0) = k \div (n1 * n2) /\ Read(1) = (k \div n2) % n1 /\ Read(2) = k % n2
  BY <1>2
<1> HIDE DEF a, j, k, Read
<1>6. \A x \in Axes : Read(x) = i[x]
  BY <1>3, <1>5 DEF Axes
<1>7. [x \in Axes |-> Read(x)] = i
  BY <1>6 DEF Index
<1>8. Natural(a, done) = Cell(c, i, done)
  BY <1>2, <1>4, <1>7 DEF Cell
<1> QED
  BY <1>8 DEF a

LEMMA HoldsNatural ==
  ASSUME Configured, NEW m, NEW done
  PROVE  Holds(m, <<0, 1, 2>>, done) <=> \A a \in Address : m[a] = Natural(a, done)
<1>1. <<0, 1, 2>> \in Orders
  BY DEF Orders
<1> QED
  BY <1>1, AtExists, AtAddress, NaturalCell DEF Holds
-----------------------------------------------------------------------------
(* Transform launches.                                                     *)

RowsOf(s) == 0 .. NBatch(s) - 1
Places(s) == 0 .. Length(s) - 1
Over(s) == {s.axes[j] : j \in DOMAIN s.axes}
MovedTo(i, axes, k) ==
  LET to == Coordinate(axes, k)
  IN  [x \in Axes |-> IF x \in DOMAIN to THEN to[x] ELSE i[x]]

\* None of the axes of the launch has been transformed yet.
Fresh(s, done) == done \cap Over(s) = {}
After(s, done) == done \cup Over(s)

\* Row r is the line through element i of cube c, read in order o and stored
\* in order p.
RowAt(s, o, p, r, c, i) ==
  \A k \in Places(s) :
    /\ MovedTo(i, s.axes, k) \in Index
    /\ LoadAddress(s, r, k) = AddrOf(o, c, MovedTo(i, s.axes, k))
    /\ StoreAddress(s, r, k) = AddrOf(p, c, MovedTo(i, s.axes, k))

\* The launch reads whole lines of an array in order o and stores them in order
\* p: every element is on a row that some block works on, and no two stores meet.
Carries(s, o, p) ==
  /\ Launched(s) = RowsOf(s)
  /\ Length(s) \in Pos
  /\ \A c \in Cubes, i \in Index : \E r \in RowsOf(s), k \in Places(s) :
       RowAt(s, o, p, r, c, i) /\ MovedTo(i, s.axes, k) = i
  /\ \A r, q \in RowsOf(s), j, k \in Places(s) :
       StoreAddress(s, r, j) = StoreAddress(s, q, k) => r = q /\ j = k

LEMMA ShiftedCell ==
  ASSUME NEW c, NEW i, NEW done, NEW axes, NEW k
  PROVE  Shifted(Cell(c, i, done), axes, k) = Cell(c, MovedTo(i, axes, k), done)
BY DEF Shifted, Cell, MovedTo

LEMMA MovedTwice ==
  ASSUME NEW i, NEW axes, NEW j, NEW k, DOMAIN Coordinate(axes, j) = DOMAIN Coordinate(axes, k)
  PROVE  MovedTo(MovedTo(i, axes, j), axes, k) = MovedTo(i, axes, k)
BY DEF MovedTo

LEMMA CoordinateDomain ==
  ASSUME NEW axes, NEW j, NEW k
  PROVE  DOMAIN Coordinate(axes, j) = DOMAIN Coordinate(axes, k)
BY DEF Coordinate

LEMMA RowTransformed ==
  ASSUME NEW s, NEW o, NEW p, NEW done, NEW r, NEW c \in Cubes, NEW i,
         Length(s) \in Pos, RowAt(s, o, p, r, c, i),
         Holds(mem[s.src], o, done), Fresh(s, done)
  PROVE  \A k \in Places(s) :
           Transformed(s, r, k) = Cell(c, MovedTo(i, s.axes, k), After(s, done))
<1> DEFINE first == mem[s.src][LoadAddress(s, r, 0)]
           isLine == /\ first # Junk
                     /\ first.done \cap Over(s) = {}
                     /\ \A j \in 0 .. Length(s) - 1 :
                          mem[s.src][LoadAddress(s, r, j)] = Shifted(first, s.axes, j)
<1>1. \A j \in Places(s) :
        mem[s.src][LoadAddress(s, r, j)] = Cell(c, MovedTo(i, s.axes, j), done)
  BY DEF RowAt, Holds
<1>2. 0 \in Places(s)
  BY DEF Places, Pos
<1>3. first = Cell(c, MovedTo(i, s.axes, 0), done)
  BY <1>1, <1>2
<1>4. \A j : Shifted(first, s.axes, j) = Cell(c, MovedTo(i, s.axes, j), done)
  <2> TAKE j
  <2>1. Shifted(first, s.axes, j) = Cell(c, MovedTo(MovedTo(i, s.axes, 0), s.axes, j), done)
    BY <1>3, ShiftedCell
  <2> QED
    BY <2>1, MovedTwice, CoordinateDomain
<1>5. isLine
  <2>1. first # Junk
    <3>1. MovedTo(i, s.axes, 0) \in Index
      BY <1>2 DEF RowAt
    <3>2. DOMAIN MovedTo(i, s.axes, 0) = Axes /\ DOMAIN <<>> = {}
      BY <3>1 DEF Index
    <3>3. first.at # <<>>
      BY <1>3, <3>2 DEF Cell, Axes
    <3> QED
      BY <3>3 DEF Junk
  <2>2. first.done = done
    BY <1>3 DEF Cell
  <2>3. \A j \in 0 .. Length(s) - 1 :
          mem[s.src][LoadAddress(s, r, j)] = Shifted(first, s.axes, j)
    BY <1>1, <1>4 DEF Places
  <2> HIDE DEF first
  <2> QED
    BY <2>1, <2>2, <2>3 DEF Fresh
<1>6. SUFFICES ASSUME NEW k \in Places(s)
               PROVE  Transformed(s, r, k) = Cell(c, MovedTo(i, s.axes, k), After(s, done))
  OBVIOUS
<1>7. Transformed(s, r, k)
        = IF isLine THEN [Shifted(first, s.axes, k) EXCEPT !.done = @ \cup Over(s)] ELSE Junk
  BY Zenon DEF Transformed, Over
<1> HIDE DEF isLine, first
<1>8. Transformed(s, r, k) = [Cell(c, MovedTo(i, s.axes, k), done) EXCEPT !.done = @ \cup Over(s)]
  BY <1>4, <1>5, <1>7
<1> QED
  BY <1>8 DEF Cell, After

LEMMA CarriedOver ==
  ASSUME Configured, NEW s, NEW o \in Orders, NEW p \in Orders, NEW done,
         Carries(s, o, p), Holds(mem[s.src], o, done), Fresh(s, done)
  PROVE  Holds(Stored(s), p, After(s, done))
<1> SUFFICES ASSUME NEW c \in Cubes, NEW i \in Index
             PROVE  Stored(s)[AddrOf(p, c, i)] = Cell(c, i, After(s, done))
  BY DEF Holds
<1> DEFINE a == AddrOf(p, c, i)
           writes == {<<StoreAddress(s, r, k), r, k>> : r \in Launched(s), k \in 0 .. Length(s) - 1}
           here == {w \in writes : w[1] = a}
<1>1. PICK r \in RowsOf(s), k \in Places(s) :
        RowAt(s, o, p, r, c, i) /\ MovedTo(i, s.axes, k) = i
  BY DEF Carries
<1>2. StoreAddress(s, r, k) = a
  BY <1>1 DEF RowAt
<1>3. here = {<<a, r, k>>}
  <2>1. <<a, r, k>> \in here
    BY <1>1, <1>2 DEF Carries, Places
  <2>2. ASSUME NEW w \in here
        PROVE  w = <<a, r, k>>
    <3>1. PICK q \in RowsOf(s), j \in Places(s) : w = <<StoreAddress(s, q, j), q, j>>
      BY DEF Carries, Places
    <3>2. StoreAddress(s, q, j) = a
      BY <3>1
    <3>3. q = r /\ j = k
      BY <1>2, <3>2 DEF Carries
    <3> QED
      BY <3>1, <3>2, <3>3
  <2> HIDE DEF here
  <2> QED
    BY <2>1, <2>2
<1>4. Cardinality(here) = 1
  <2> HIDE DEF here
  <2> QED
    BY <1>3, FS_Singleton
<1>5. a \in Address
  BY AtAddress
<1>6. Stored(s)[a] = CASE here = {} -> mem[s.dst][a]
                       [] Cardinality(here) = 1 ->
                            LET w == CHOOSE w \in here : TRUE IN Transformed(s, w[2], w[3])
                       [] OTHER -> Junk
  BY <1>5 DEF Stored
<1> HIDE DEF here, a
<1>7. (CHOOSE w \in here : TRUE) = <<a, r, k>>
  BY <1>3
<1>8. Stored(s)[a] = Transformed(s, r, k)
  BY <1>3, <1>4, <1>6, <1>7
<1>9. Transformed(s, r, k) = Cell(c, MovedTo(i, s.axes, k), After(s, done))
  <2>1. Length(s) \in Pos /\ RowAt(s, o, p, r, c, i)
    BY <1>1 DEF Carries
  <2>2. \A j \in Places(s) :
          Transformed(s, r, j) = Cell(c, MovedTo(i, s.axes, j), After(s, done))
    BY <2>1, RowTransformed
  <2> QED
    BY <2>2
<1> QED
  BY <1>1, <1>8, <1>9 DEF a

\* The launch has a block for every row, unless its store is of the inner form.
LEMMA CeilBound ==
  ASSUME NEW x \in Nat, NEW d \in Pos, NEW q \in Nat, q * d < x
  PROVE  q \in 0 .. CeilDiv(x, d) - 1
<1>1. x + d - 1 \in Nat
  BY DEF Pos
<1>2. q + 1 <= (x + d - 1) \div d
  <2> DEFINE e == (x + d - 1) \div d  y == (x + d - 1) % d
  <2>1. e \in Nat /\ y \in 0 .. d - 1 /\ x + d - 1 = e * d + y
    BY <1>1, Division
  <2> HIDE DEF e, y
  <2>2. ASSUME e <= q PROVE FALSE
    <3>1. (q - e) * d >= 0
      BY <2>1, <2>2 DEF Pos
    <3>2. q * d = e * d + (q - e) * d /\ e * d \in Nat /\ q * d \in Nat
      BY <2>1 DEF Pos
    <3> QED
      BY <2>1, <3>1, <3>2 DEF Pos
  <2>3. q + 1 <= e
    BY <2>1, <2>2
  <2> QED
    BY <2>3 DEF e
<1> QED
  BY <1>1, <1>2 DEF CeilDiv, Pos

LEMMA EveryRow ==
  ASSUME Configured, cfg.perBlock <= cfg.pack, NEW s, s.store # "inner", NBatch(s) \in Nat
  PROVE  Launched(s) = RowsOf(s)
<1> DEFINE pids == 0 .. CeilDiv(NBatch(s), cfg.perBlock) - 1
           slots == 0 .. cfg.pack - 1
           Row(pid, slot) == pid * cfg.pack + slot
<1>1. Launched(s) = {r \in {Row(pid, slot) : pid \in {p \in pids : p * cfg.pack < NBatch(s)},
                                             slot \in slots} : r < NBatch(s)}
  BY DEF Launched
<1>2. cfg.pack \in Pos /\ cfg.perBlock \in Pos
  BY Sizes
<1>3. ASSUME NEW r \in RowsOf(s)
      PROVE  r \in Launched(s)
  <2> DEFINE p == r \div cfg.pack  x == r % cfg.pack
  <2>1. p \in Nat /\ x \in slots /\ r = p * cfg.pack + x /\ r < NBatch(s) /\ r \in Nat
    BY <1>2, Division DEF RowsOf
  <2> HIDE DEF p, x
  <2>2. p * cfg.pack < NBatch(s) /\ p * cfg.perBlock < NBatch(s)
    <3>1. p * cfg.pack = p * cfg.perBlock + p * (cfg.pack - cfg.perBlock)
      BY <1>2, <2>1 DEF Pos
    <3>2. p * (cfg.pack - cfg.perBlock) >= 0 /\ p * cfg.perBlock \in Nat /\ p * cfg.pack \in Nat
      BY <1>2, <2>1 DEF Pos
    <3> QED
      BY <1>2, <2>1, <3>1, <3>2 DEF Pos
  <2>3. p \in pids
    BY <1>2, <2>1, <2>2, CeilBound
  <2> HIDE DEF pids, slots
  <2> QED
    BY <1>1, <2>1, <2>2, <2>3
<1>4. ASSUME NEW r \in Launched(s)
      PROVE  r \in RowsOf(s)
  <2>1. PICK p \in pids, x \in slots : r = Row(p, x) /\ r < NBatch(s)
    BY <1>1
  <2>2. p \in Nat /\ x \in Nat
    OBVIOUS
  <2>3. p * cfg.pack + x \in Nat
    BY <1>2, <2>2 DEF Pos
  <2> QED
    BY <2>1, <2>3 DEF RowsOf
<1> QED
  BY <1>3, <1>4

\* Order u, v with axis a put in at place p, and how far apart that puts the
\* elements of a line along a.
Insert(u, v, a, p) ==
  CASE p = 1 -> <<a, u, v>> [] p = 2 -> <<u, a, v>> [] p = 3 -> <<u, v, a>>
SpanOf(u, v, p) ==
  CASE p = 1 -> Extent(u) * Extent(v) [] p = 2 -> Extent(v) [] p = 3 -> 1

LEMMA InsertOrder ==
  ASSUME NEW u, NEW v, NEW a, <<u, v, a>> \in Orders, NEW p \in 1 .. 3
  PROVE  Insert(u, v, a, p) \in Orders
<1>1. u \in Axes /\ v \in Axes /\ a \in Axes /\ u # v /\ u # a /\ v # a
  BY DEF Orders, Axes
<1> QED
  BY <1>1 DEF Insert, Orders, Axes

\* Row number of the line along the third axis through element i of cube c.
RowNumber(u, v, c, i) == (c * Extent(u) + i[u]) * Extent(v) + i[v]

LEMMA MovedLine ==
  ASSUME NEW a \in Axes, NEW i \in Index, NEW k \in 0 .. Extent(a) - 1, Configured
  PROVE  LET j == MovedTo(i, <<a>>, k)
         IN  /\ j \in Index /\ j[a] = k
             /\ \A x \in Axes \ {a} : j[x] = i[x]
             /\ k = i[a] => j = i
<1> DEFINE j == MovedTo(i, <<a>>, k)
<1>1. j = [x \in Axes |-> IF x = a THEN k ELSE i[x]]
  BY DEF MovedTo, Coordinate
<1>2. k \in Nat /\ \A x \in Axes : i[x] \in Nat /\ i[x] \in 0 .. Extent(x) - 1
  BY Sizes DEF Index, Pos
<1> HIDE DEF j
<1>3. j \in Index
  BY <1>1, <1>2 DEF Index
<1>4. j[a] = k /\ \A x \in Axes \ {a} : j[x] = i[x]
  BY <1>1
<1>5. k = i[a] => j = i
  BY <1>1 DEF Index
<1> QED
  BY <1>3, <1>4, <1>5 DEF j

LEMMA LineAt ==
  ASSUME Configured, NEW u, NEW v, NEW a, <<u, v, a>> \in Orders,
         NEW p \in 1 .. 3, NEW c \in Cubes, NEW i \in Index
  PROVE  Spread(SpanOf(u, v, p), Extent(a), RowNumber(u, v, c, i), i[a])
           = AddrOf(Insert(u, v, a, p), c, i)
<1> DEFINE du == Extent(u)  dv == Extent(v)  len == Extent(a)
           xu == i[u]  xv == i[v]  k == i[a]  r == (c * du + xu) * dv + xv
<1>1. u \in Axes /\ v \in Axes /\ a \in Axes /\ c \in Nat
  BY DEF Orders, Axes, Cubes
<1>2. /\ du \in Pos /\ dv \in Pos /\ len \in Pos
      /\ xu \in 0 .. du - 1 /\ xv \in 0 .. dv - 1 /\ k \in 0 .. len - 1
  BY <1>1, Sizes DEF Index
<1>3. /\ Spread(du * dv, len, r, k) = Place3(len, du, dv, c, k, xu, xv)
      /\ Spread(dv, len, r, k) = Place3(du, len, dv, c, xu, k, xv)
      /\ Spread(1, len, r, k) = Place3(du, dv, len, c, xu, xv, k)
  <2> HIDE DEF du, dv, len, xu, xv, k
  <2> QED
    BY <1>1, <1>2, SpreadPlace
<1>4. CASE p = 1
  <2>1. AddrOf(Insert(u, v, a, p), c, i) = Place3(len, du, dv, c, k, xu, xv)
    BY <1>4 DEF AddrOf, Insert
  <2> QED
    BY <1>3, <1>4, <2>1 DEF SpanOf, RowNumber
<1>5. CASE p = 2
  <2>1. AddrOf(Insert(u, v, a, p), c, i) = Place3(du, len, dv, c, xu, k, xv)
    BY <1>5 DEF AddrOf, Insert
  <2> QED
    BY <1>3, <1>5, <2>1 DEF SpanOf, RowNumber
<1>6. CASE p = 3
  <2>1. AddrOf(Insert(u, v, a, p), c, i) = Place3(du, dv, len, c, xu, xv, k)
    BY <1>6 DEF AddrOf, Insert
  <2> QED
    BY <1>3, <1>6, <2>1 DEF SpanOf, RowNumber
<1> QED
  BY <1>4, <1>5, <1>6

\* The rows along one axis, as many as there are lines.
LEMMA RowCounts ==
  ASSUME Configured, NEW u, NEW v, NEW a, <<u, v, a>> \in Orders, NEW s, s.axes = <<a>>
  PROVE  /\ Length(s) = Extent(a) /\ Length(s) \in Pos
         /\ NBatch(s) = cfg.batch * Extent(u) * Extent(v) /\ NBatch(s) \in Pos
         /\ \A c \in Cubes, i \in Index : RowNumber(u, v, c, i) \in RowsOf(s)
<1> DEFINE du == Extent(u)  dv == Extent(v)  len == Extent(a)  b == cfg.batch
<1>1. u \in Axes /\ v \in Axes /\ a \in Axes
  BY DEF Orders, Axes
<1>2. du \in Pos /\ dv \in Pos /\ len \in Pos /\ b \in Pos
  BY <1>1, Sizes
<1>3. Length(s) = len
  BY DEF Length
<1>4. Total = b * (du * dv * len)
  BY CubeSizes
<1> HIDE DEF du, dv, len, b
<1>5. b * du \in Pos /\ b * du * dv \in Pos
  BY <1>2, Products DEF Pos
<1>6. Total = (b * du * dv) * len
  BY <1>2, <1>4 DEF Pos
<1>7. NBatch(s) = b * du * dv
  <2> DEFINE m == b * du * dv
  <2>1. m \in Nat /\ 0 \in 0 .. len - 1 /\ Total = m * len + 0
    BY <1>2, <1>5, <1>6 DEF Pos
  <2> HIDE DEF m
  <2>2. Total \div len = m
    BY <1>2, <2>1, Digits
  <2> QED
    BY <1>3, <2>2 DEF NBatch, m
<1>8. ASSUME NEW c \in Cubes, NEW i \in Index
      PROVE  (c * du + i[u]) * dv + i[v] \in 0 .. b * du * dv - 1
  <2> DEFINE xu == i[u]  xv == i[v]
  <2>1. c \in 0 .. b - 1 /\ xu \in 0 .. du - 1 /\ xv \in 0 .. dv - 1
    BY <1>1 DEF Cubes, Index, b, du, dv
  <2> HIDE DEF xu, xv
  <2>2. c * du + xu \in 0 .. b * du - 1
    BY <1>2, <2>1, DigitBound DEF Pos
  <2>3. (c * du + xu) * dv + xv \in 0 .. (b * du) * dv - 1
    BY <1>2, <1>5, <2>1, <2>2, DigitBound DEF Pos
  <2> QED
    BY <2>3 DEF xu, xv
<1> QED
  BY <1>2, <1>3, <1>5, <1>7, <1>8 DEF RowsOf, RowNumber, du, dv, len, b

\* A leaf on lines of axis a: it reads them where order puts axis a at place lp
\* and stores them where the other order puts it at place sp.
LEMMA LinesCarry ==
  ASSUME Configured, NEW u, NEW v, NEW a, <<u, v, a>> \in Orders,
         NEW lp \in 1 .. 3, NEW sp \in 1 .. 3, NEW s, s.axes = <<a>>,
         Launched(s) = RowsOf(s),
         \/ s.load = "rows" /\ lp = 3
         \/ s.load = "strided" /\ s.span = SpanOf(u, v, lp),
         s.store \in {"strided", "outer"}, s.span = SpanOf(u, v, sp)
  PROVE  Carries(s, Insert(u, v, a, lp), Insert(u, v, a, sp))
<1> DEFINE o == Insert(u, v, a, lp)  p == Insert(u, v, a, sp)  len == Extent(a)
<1>1. a \in Axes /\ u \in Axes \ {a} /\ v \in Axes \ {a} /\ <<u, v, a>> \in Orders
  BY DEF Orders, Axes
<1>2. Length(s) = len /\ Length(s) \in Pos /\ NBatch(s) \in Pos
  BY RowCounts
<1>3. ASSUME NEW r \in Nat, NEW k \in Nat
      PROVE  /\ LoadAddress(s, r, k) = Spread(SpanOf(u, v, lp), len, r, k)
             /\ StoreAddress(s, r, k) = Spread(SpanOf(u, v, sp), len, r, k)
  <2>1. s.load = "rows" => LoadAddress(s, r, k) = r * len + k
    BY <1>2 DEF LoadAddress
  <2>2. Spread(1, len, r, k) = r * len + k
    <3>1. r \div 1 = r /\ r % 1 = 0
      OBVIOUS
    <3> QED
      BY <1>2, <3>1 DEF Spread, Pos
  <2>3. s.load = "strided" => LoadAddress(s, r, k) = StridedAddress(s, r, k)
    BY DEF LoadAddress
  <2>4. \/ StoreAddress(s, r, k) = StridedAddress(s, r, k)
        \/ StoreAddress(s, r, k) = OuterAddress(s, r, k)
    BY DEF StoreAddress
  <2>5. SpanOf(u, v, sp) \in Pos /\ SpanOf(u, v, lp) \in Pos
    BY <1>1, Sizes, Products DEF SpanOf, Pos
  <2>6. ASSUME NEW span \in Pos, s.span = span
        PROVE  /\ StridedAddress(s, r, k) = Spread(span, len, r, k)
               /\ OuterAddress(s, r, k) = Spread(span, len, r, k)
    <3> DEFINE h == r \div span  l == r % span
    <3>1. h \in Nat /\ l \in Nat
      BY Division
    <3>2. /\ StridedAddress(s, r, k) = h * (len * span) + l + k * span
          /\ OuterAddress(s, r, k) = h * (len * span) + k * span + l
          /\ Spread(span, len, r, k) = h * (len * span) + k * span + l
      BY <1>2, <2>6 DEF StridedAddress, OuterAddress, Spread
    <3> HIDE DEF h, l
    <3>3. h * (len * span) \in Nat /\ k * span \in Nat
      BY <1>2, <3>1 DEF Pos
    <3> QED
      BY <3>1, <3>2, <3>3
  <2>7. lp = 3 => SpanOf(u, v, lp) = 1
    BY DEF SpanOf
  <2> HIDE DEF len
  <2> QED
    BY <2>1, <2>2, <2>3, <2>4, <2>5, <2>6, <2>7
<1>4. ASSUME NEW c \in Cubes, NEW i \in Index
      PROVE  RowAt(s, o, p, RowNumber(u, v, c, i), c, i)
  <2> DEFINE r == RowNumber(u, v, c, i)
  <2> SUFFICES ASSUME NEW k \in Places(s)
               PROVE  LET j == MovedTo(i, s.axes, k)
                      IN  /\ j \in Index
                          /\ LoadAddress(s, r, k) = AddrOf(o, c, j)
                          /\ StoreAddress(s, r, k) = AddrOf(p, c, j)
    BY DEF RowAt
  <2> DEFINE j == MovedTo(i, <<a>>, k)
  <2>1. k \in 0 .. Extent(a) - 1 /\ k \in Nat
    BY <1>2 DEF Places, Pos
  <2>2. j \in Index /\ j[a] = k /\ j[u] = i[u] /\ j[v] = i[v]
    BY <1>1, <2>1, MovedLine
  <2> HIDE DEF j
  <2>3. RowNumber(u, v, c, j) = r
    BY <2>2 DEF RowNumber
  <2>4. r \in Nat
    BY RowCounts DEF RowsOf
  <2>5. /\ Spread(SpanOf(u, v, lp), Extent(a), r, k) = AddrOf(o, c, j)
        /\ Spread(SpanOf(u, v, sp), Extent(a), r, k) = AddrOf(p, c, j)
    BY <2>2, <2>3, LineAt
  <2>6. LoadAddress(s, r, k) = AddrOf(o, c, j) /\ StoreAddress(s, r, k) = AddrOf(p, c, j)
    BY <1>3, <2>1, <2>4, <2>5
  <2> QED
    BY <2>2, <2>6 DEF j
<1>5. ASSUME NEW c \in Cubes, NEW i \in Index
      PROVE  \E r \in RowsOf(s), k \in Places(s) :
               RowAt(s, o, p, r, c, i) /\ MovedTo(i, s.axes, k) = i
  <2>1. RowNumber(u, v, c, i) \in RowsOf(s)
    BY RowCounts
  <2>2. i[a] \in 0 .. Extent(a) - 1
    BY <1>1 DEF Index
  <2>3. i[a] \in Places(s) /\ MovedTo(i, s.axes, i[a]) = i
    BY <1>1, <1>2, <2>2, MovedLine DEF Places
  <2> QED
    BY <1>4, <2>1, <2>3
<1>6. ASSUME NEW r \in RowsOf(s), NEW q \in RowsOf(s), NEW j \in Places(s), NEW k \in Places(s),
             StoreAddress(s, r, j) = StoreAddress(s, q, k)
      PROVE  r = q /\ j = k
  <2>1. r \in Nat /\ q \in Nat /\ j \in 0 .. len - 1 /\ k \in 0 .. len - 1 /\ len \in Pos
        /\ j \in Nat /\ k \in Nat
    BY <1>2 DEF RowsOf, Places
  <2>2. SpanOf(u, v, sp) \in Pos
    BY <1>1, Sizes, Products DEF SpanOf, Pos
  <2>3. Spread(SpanOf(u, v, sp), len, r, j) = Spread(SpanOf(u, v, sp), len, q, k)
    BY <1>3, <1>6, <2>1
  <2> HIDE DEF len
  <2> QED
    BY <2>1, <2>2, <2>3, SpreadApart
<1> QED
  BY <1>2, <1>5, <1>6 DEF Carries

\* The inner form, for one cube whose rows fill the blocks.
LEMMA InnerRows ==
  ASSUME Configured, cfg.perBlock <= cfg.pack, cfg.batch = 1, n0 % cfg.pack = 0,
         NEW s, s.axes = << 1 >>, s.store = "inner", s.span = n2
  PROVE  Launched(s) = RowsOf(s)
<1> DEFINE pids == 0 .. CeilDiv(NBatch(s), cfg.perBlock) - 1
           slots == 0 .. cfg.pack - 1
           Row(pid, slot) == (pid \div n2) * cfg.pack * n2 + (pid % n2) + slot * n2
           pack == cfg.pack  g == n0 \div pack
<1>1. Launched(s) = {r \in {Row(pid, slot) : pid \in {p \in pids : p * cfg.pack < NBatch(s)},
                                             slot \in slots} : r < NBatch(s)}
  BY DEF Launched
<1>2. pack \in Pos /\ cfg.perBlock \in Pos /\ n0 \in Pos /\ n2 \in Pos
  BY Sizes
<1>3. NBatch(s) = n0 * n2 /\ n0 * n2 \in Pos
  <2>1. <<0, 2, 1>> \in Orders
    BY DEF Orders
  <2>2. NBatch(s) = 1 * Extent(0) * Extent(2)
    BY <2>1, RowCounts
  <2> QED
    BY <1>2, <2>2, Sizes, Products DEF Pos
<1>4. g \in Nat /\ n0 = g * pack
  <2>1. g \in Nat /\ n0 = g * pack + (n0 % pack)
    BY <1>2, Division DEF Pos
  <2> HIDE DEF g
  <2> QED
    BY <1>2, <2>1 DEF Pos
<1> HIDE DEF g
<1>5. ASSUME NEW r \in RowsOf(s)
      PROVE  r \in Launched(s)
  <2> DEFINE xu == r \div n2  xv == r % n2  q == xu \div pack  slot == xu % pack
             pid == q * n2 + xv
  <2>1. r \in 0 .. n0 * n2 - 1 /\ r \in Nat
    BY <1>3 DEF RowsOf
  <2>2. xu \in Nat /\ xv \in 0 .. n2 - 1 /\ r = xu * n2 + xv /\ xu \in 0 .. n0 - 1
    BY <1>2, <2>1, Division, QuotientBound DEF Pos
  <2> HIDE DEF xu, xv
  <2>3. q \in Nat /\ slot \in slots /\ xu = q * pack + slot /\ q \in 0 .. g - 1
    BY <1>2, <1>4, <2>2, Division, QuotientBound
  <2> HIDE DEF q, slot
  <2>4. pid \in 0 .. g * n2 - 1 /\ pid \div n2 = q /\ pid % n2 = xv
    <3>1. pid \in 0 .. g * n2 - 1
      BY <1>2, <1>4, <2>2, <2>3, DigitBound
    <3>2. q \in Nat
      BY <2>3
    <3>3. pid \div n2 = q /\ pid % n2 = xv
      BY <1>2, <2>2, <3>2, Digits
    <3> QED
      BY <3>1, <3>3
  <2> HIDE DEF pid
  <2>5. r = Row(pid, slot)
    <3>1. (q * pack + slot) * n2 = q * pack * n2 + slot * n2
      BY <1>2, <2>3 DEF Pos
    <3>2. q * pack * n2 \in Nat /\ slot * n2 \in Nat
      BY <1>2, <2>3 DEF Pos
    <3> QED
      BY <2>2, <2>3, <2>4, <3>1, <3>2
  <2>6. pid * pack < NBatch(s) /\ pid * cfg.perBlock < NBatch(s)
    <3>1. pid * pack + 0 \in 0 .. (g * n2) * pack - 1
      <4>1. g * n2 \in Nat /\ 0 \in 0 .. pack - 1
        BY <1>2, <1>4 DEF Pos
      <4> QED
        BY <1>2, <2>4, <4>1, DigitBound
    <3>2. (g * n2) * pack = NBatch(s)
      BY <1>2, <1>3, <1>4 DEF Pos
    <3>3. pid \in Nat /\ pid * pack \in Nat
      BY <2>4, <1>2 DEF Pos
    <3>4. pid * pack < NBatch(s)
      BY <1>3, <3>1, <3>2, <3>3 DEF Pos
    <3>5. pid * pack = pid * cfg.perBlock + pid * (pack - cfg.perBlock)
      BY <1>2, <3>3 DEF Pos
    <3>6. pid * (pack - cfg.perBlock) >= 0 /\ pid * cfg.perBlock \in Nat
      BY <1>2, <3>3 DEF Pos
    <3> QED
      BY <1>2, <1>3, <3>3, <3>4, <3>5, <3>6 DEF Pos
  <2>7. pid \in pids /\ pid \in Nat
    BY <1>2, <1>3, <1>4, <2>4, <2>6, CeilBound DEF Pos
  <2>8. pid \in {x \in pids : x * cfg.pack < NBatch(s)} /\ r < NBatch(s)
    BY <1>3, <2>1, <2>6, <2>7 DEF Pos
  <2> HIDE DEF pids, slots, Row
  <2> QED
    BY <1>1, <2>3, <2>5, <2>8
<1>6. ASSUME NEW r \in Launched(s)
      PROVE  r \in RowsOf(s)
  <2>1. PICK p \in pids, x \in slots : r = Row(p, x) /\ r < NBatch(s)
    BY <1>1
  <2>2. p \in Nat /\ x \in Nat
    OBVIOUS
  <2>3. p \div n2 \in Nat /\ p % n2 \in Nat
    BY <1>2, <2>2, Division
  <2>4. (p \div n2) * cfg.pack * n2 \in Nat /\ x * n2 \in Nat
    BY <1>2, <2>2, <2>3 DEF Pos
  <2> HIDE DEF pids, slots
  <2> QED
    BY <1>3, <2>1, <2>3, <2>4 DEF RowsOf, Pos
<1> QED
  BY <1>5, <1>6

LEMMA InnerCarries ==
  ASSUME Configured, cfg.perBlock <= cfg.pack, cfg.batch = 1, n0 % cfg.pack = 0,
         NEW s, s.axes = << 1 >>, s.load = "rows", s.store = "inner", s.span = n2
  PROVE  Carries(s, <<0, 2, 1>>, <<1, 2, 0>>)
<1> DEFINE o == <<0, 2, 1>>  p == <<1, 2, 0>>
<1>1. o \in Orders /\ Insert(0, 2, 1, 3) = o
  BY DEF Orders, Insert
<1>2. Length(s) = n1 /\ NBatch(s) = n0 * n2 /\ Length(s) \in Pos /\ NBatch(s) \in Pos
  <2>1. /\ Length(s) = Extent(1) /\ Length(s) \in Pos /\ NBatch(s) \in Pos
        /\ NBatch(s) = 1 * Extent(0) * Extent(2)
    BY <1>1, RowCounts
  <2> QED
    BY <2>1, Sizes DEF Pos
<1>3. NBatch(s) \div n2 = n0
  <2>1. n0 * n2 + 0 = NBatch(s) /\ 0 \in 0 .. n2 - 1 /\ n0 \in Nat
    BY <1>2, Sizes DEF Pos
  <2> QED
    BY <2>1, Sizes, Digits
<1>4. ASSUME NEW r \in Nat, NEW k \in Nat
      PROVE  /\ LoadAddress(s, r, k) = Spread(1, n1, r, k)
             /\ StoreAddress(s, r, k) = (k * n2 + (r % n2)) * n0 + (r \div n2)
  <2>1. LoadAddress(s, r, k) = r * n1 + k
    BY <1>2 DEF LoadAddress
  <2>2. Spread(1, n1, r, k) = r * n1 + k
    <3>1. r \div 1 = r /\ r % 1 = 0
      OBVIOUS
    <3> QED
      BY <3>1, Sizes DEF Spread, Pos
  <2>3. StoreAddress(s, r, k) = k * (n0 * n2) + (r % n2) * n0 + (r \div n2)
    BY <1>2, <1>3 DEF StoreAddress, InnerAddress
  <2> DEFINE x == r % n2  y == r \div n2
  <2>4. x \in Nat /\ y \in Nat
    <3>1. n2 \in Pos
      BY Sizes
    <3>2. x \in 0 .. n2 - 1 /\ y \in Nat
      BY <3>1, Division
    <3> QED
      BY <3>1, <3>2 DEF Pos
  <2> HIDE DEF x, y
  <2>5. k * (n0 * n2) + x * n0 + y = (k * n2 + x) * n0 + y
    BY <2>4, Sizes DEF Pos
  <2> QED
    BY <2>1, <2>2, <2>3, <2>5 DEF x, y
<1>5. ASSUME NEW c \in Cubes, NEW i \in Index
      PROVE  RowAt(s, o, p, RowNumber(0, 2, c, i), c, i)
  <2> DEFINE r == RowNumber(0, 2, c, i)
  <2> SUFFICES ASSUME NEW k \in Places(s)
               PROVE  LET j == MovedTo(i, s.axes, k)
                      IN  /\ j \in Index
                          /\ LoadAddress(s, r, k) = AddrOf(o, c, j)
                          /\ StoreAddress(s, r, k) = AddrOf(p, c, j)
    BY DEF RowAt
  <2> DEFINE j == MovedTo(i, <<1>>, k)
  <2>1. k \in 0 .. Extent(1) - 1 /\ k \in Nat
    BY <1>2, Sizes DEF Places, Pos
  <2>2. j \in Index /\ j[1] = k /\ j[0] = i[0] /\ j[2] = i[2]
    BY <2>1, MovedLine DEF Axes
  <2> HIDE DEF j
  <2>3. RowNumber(0, 2, c, j) = r /\ SpanOf(0, 2, 3) = 1 /\ Extent(1) = n1
    BY <2>2, Sizes DEF RowNumber, SpanOf
  <2>4. r \in Nat
    BY <1>1, RowCounts DEF RowsOf
  <2>5. Spread(1, n1, r, k) = AddrOf(o, c, j)
    BY <1>1, <2>2, <2>3, LineAt
  <2>6. LoadAddress(s, r, k) = AddrOf(o, c, j)
    BY <1>4, <2>1, <2>4, <2>5
  <2>7. StoreAddress(s, r, k) = AddrOf(p, c, j)
    <3> DEFINE xu == i[0]  xv == i[2]
    <3>1. c = 0 /\ xu \in 0 .. n0 - 1 /\ xv \in 0 .. n2 - 1
      BY Sizes DEF Cubes, Index, Axes
    <3>2. r = (c * n0 + xu) * n2 + xv
      BY Sizes DEF RowNumber
    <3>3. AddrOf(p, c, j) = ((c * n1 + k) * n2 + xv) * n0 + xu
      BY <2>2, Sizes DEF AddrOf, Place3
    <3> HIDE DEF xu, xv, r
    <3>4. r = xu * n2 + xv
      BY <3>1, <3>2, Sizes DEF Pos
    <3>5. r \div n2 = xu /\ r % n2 = xv
      BY <3>1, <3>4, Sizes, Digits
    <3>6. AddrOf(p, c, j) = (k * n2 + xv) * n0 + xu
      BY <2>1, <3>1, <3>3, Sizes DEF Pos
    <3> QED
      BY <1>4, <2>1, <2>4, <3>5, <3>6
  <2> QED
    BY <2>2, <2>6, <2>7 DEF j
<1>6. ASSUME NEW c \in Cubes, NEW i \in Index
      PROVE  \E r \in RowsOf(s), k \in Places(s) :
               RowAt(s, o, p, r, c, i) /\ MovedTo(i, s.axes, k) = i
  <2>1. RowNumber(0, 2, c, i) \in RowsOf(s)
    BY <1>1, RowCounts
  <2>2. i[1] \in 0 .. Extent(1) - 1
    BY DEF Index, Axes
  <2>3. i[1] \in Places(s) /\ MovedTo(i, s.axes, i[1]) = i
    BY <1>2, <2>2, MovedLine, Sizes DEF Places, Axes
  <2> QED
    BY <1>5, <2>1, <2>3
<1>7. ASSUME NEW r \in RowsOf(s), NEW q \in RowsOf(s), NEW j \in Places(s), NEW k \in Places(s),
             StoreAddress(s, r, j) = StoreAddress(s, q, k)
      PROVE  r = q /\ j = k
  <2> DEFINE rh == r \div n2  rl == r % n2  qh == q \div n2  ql == q % n2
  <2>1. r \in 0 .. n0 * n2 - 1 /\ q \in 0 .. n0 * n2 - 1 /\ j \in Nat /\ k \in Nat
        /\ r \in Nat /\ q \in Nat /\ n0 \in Nat
    BY <1>2, Sizes DEF RowsOf, Places, Pos
  <2>2. /\ rh \in 0 .. n0 - 1 /\ rl \in 0 .. n2 - 1 /\ r = rh * n2 + rl
        /\ qh \in 0 .. n0 - 1 /\ ql \in 0 .. n2 - 1 /\ q = qh * n2 + ql
    BY <2>1, Sizes, Division, QuotientBound
  <2>3. (j * n2 + rl) * n0 + rh = (k * n2 + ql) * n0 + qh
    BY <1>4, <1>7, <2>1
  <2> HIDE DEF rh, rl, qh, ql
  <2>4. j * n2 + rl \in Nat /\ k * n2 + ql \in Nat
    BY <2>1, <2>2, Sizes DEF Pos
  <2>5. j * n2 + rl = k * n2 + ql /\ rh = qh
    BY <2>2, <2>3, <2>4, Sizes, SameDigits
  <2>6. j = k /\ rl = ql
    BY <2>1, <2>2, <2>5, Sizes, SameDigits
  <2> QED
    BY <2>2, <2>5, <2>6
<1>8. Launched(s) = RowsOf(s)
  BY InnerRows
<1> QED
  BY <1>2, <1>6, <1>7, <1>8 DEF Carries

\* Planes of two axes, the second one contiguous.
LEMMA MovedPlane ==
  ASSUME Configured, NEW a \in Axes, NEW b \in Axes \ {a}, NEW i \in Index,
         NEW k \in 0 .. Extent(a) * Extent(b) - 1
  PROVE  LET j == MovedTo(i, <<a, b>>, k)
         IN  /\ j \in Index /\ j[a] = k \div Extent(b) /\ j[b] = k % Extent(b)
             /\ \A x \in Axes \ {a, b} : j[x] = i[x]
             /\ k = i[a] * Extent(b) + i[b] => j = i
<1> DEFINE j == MovedTo(i, <<a, b>>, k)  h == k \div Extent(b)  l == k % Extent(b)
<1>1. Extent(a) \in Pos /\ Extent(b) \in Pos /\ Extent(a) \in Nat
  BY Sizes DEF Pos
<1>2. h \in 0 .. Extent(a) - 1 /\ l \in 0 .. Extent(b) - 1
  <2>1. h \in 0 .. Extent(a) - 1
    BY <1>1, QuotientBound
  <2>2. k \in Nat
    OBVIOUS
  <2>3. l \in 0 .. Extent(b) - 1
    BY <1>1, <2>2, Division
  <2> QED
    BY <2>1, <2>3
<1>3. j = [x \in Axes |-> IF x = a THEN h ELSE IF x = b THEN l ELSE i[x]]
  BY DEF MovedTo, Coordinate
<1>4. \A x \in Axes : i[x] \in Nat /\ i[x] \in 0 .. Extent(x) - 1
  BY DEF Index
<1> HIDE DEF j, h, l
<1>5. h \in Nat /\ l \in Nat
  BY <1>1, <1>2 DEF Pos
<1>6. j \in Index
  BY <1>2, <1>3, <1>4, <1>5 DEF Index
<1>7. j[a] = h /\ j[b] = l /\ \A x \in Axes \ {a, b} : j[x] = i[x]
  BY <1>3
<1>8. ASSUME k = i[a] * Extent(b) + i[b]
      PROVE  j = i
  <2>1. i[a] \in Nat /\ i[b] \in 0 .. Extent(b) - 1
    BY <1>4
  <2>2. h = i[a] /\ l = i[b]
    BY <1>1, <1>8, <2>1, Digits DEF h, l
  <2> QED
    BY <1>3, <2>2 DEF Index
<1> QED
  BY <1>6, <1>7, <1>8 DEF j, h, l

LEMMA PlaneCounts ==
  ASSUME Configured, NEW a, NEW b, NEW u, <<u, a, b>> \in Orders, NEW s, s.axes = <<a, b>>
  PROVE  /\ Length(s) = Extent(a) * Extent(b) /\ Length(s) \in Pos
         /\ NBatch(s) = cfg.batch * Extent(u) /\ NBatch(s) \in Pos
         /\ \A c \in Cubes, i \in Index :
              /\ c * Extent(u) + i[u] \in RowsOf(s)
              /\ i[a] * Extent(b) + i[b] \in Places(s)
<1> DEFINE du == Extent(u)  da == Extent(a)  db == Extent(b)  n == cfg.batch
<1>1. u \in Axes /\ a \in Axes /\ b \in Axes
  BY DEF Orders, Axes
<1>2. du \in Pos /\ da \in Pos /\ db \in Pos /\ n \in Pos
  BY <1>1, Sizes
<1>3. Length(s) = da * db
  BY DEF Length
<1>4. Total = n * (du * da * db)
  BY CubeSizes
<1> HIDE DEF du, da, db, n
<1>5. da * db \in Pos /\ n * du \in Pos
  BY <1>2, Products DEF Pos
<1>6. NBatch(s) = n * du
  <2> DEFINE m == n * du  len == da * db
  <2>1. m \in Nat /\ 0 \in 0 .. len - 1 /\ Total = m * len + 0 /\ len \in Pos
    BY <1>2, <1>4, <1>5 DEF Pos
  <2> HIDE DEF m, len
  <2>2. Total \div len = m
    BY <2>1, Digits
  <2> QED
    BY <1>3, <2>2 DEF NBatch, m, len
<1>7. ASSUME NEW c \in Cubes, NEW i \in Index
      PROVE  /\ c * du + i[u] \in 0 .. n * du - 1
             /\ i[a] * db + i[b] \in 0 .. da * db - 1
  <2> DEFINE xu == i[u]  xa == i[a]  xb == i[b]
  <2>1. /\ c \in 0 .. n - 1 /\ xu \in 0 .. du - 1
        /\ xa \in 0 .. da - 1 /\ xb \in 0 .. db - 1
    BY <1>1 DEF Cubes, Index, n, du, da, db
  <2>2. n \in Nat /\ da \in Nat
    BY <1>2 DEF Pos
  <2> HIDE DEF xu, xa, xb
  <2>3. c * du + xu \in 0 .. n * du - 1 /\ xa * db + xb \in 0 .. da * db - 1
    BY <1>2, <2>1, <2>2, DigitBound
  <2> QED
    BY <2>3 DEF xu, xa, xb
<1> QED
  BY <1>3, <1>5, <1>6, <1>7 DEF RowsOf, Places, du, da, db, n

LEMMA SquareCarries ==
  ASSUME Configured, NEW s, s.axes = <<1, 2>>, s.load = "rows", s.store = "strided",
         s.span = 1, Launched(s) = RowsOf(s)
  PROVE  Carries(s, <<0, 1, 2>>, <<0, 1, 2>>)
<1> DEFINE o == <<0, 1, 2>>  len == n1 * n2
<1>1. o \in Orders
  BY DEF Orders
<1>2. /\ Length(s) = len /\ len \in Pos /\ Extent(0) = n0 /\ Extent(1) = n1 /\ Extent(2) = n2
      /\ \A c \in Cubes, i \in Index :
           c * n0 + i[0] \in RowsOf(s) /\ i[1] * n2 + i[2] \in Places(s)
  BY <1>1, PlaneCounts, Sizes
<1>3. ASSUME NEW r \in Nat, NEW k \in Nat
      PROVE  LoadAddress(s, r, k) = r * len + k /\ StoreAddress(s, r, k) = r * len + k
  <2>1. r \div 1 = r /\ r % 1 = 0
    OBVIOUS
  <2>2. LoadAddress(s, r, k) = r * len + k
    BY <1>2 DEF LoadAddress
  <2>3. StoreAddress(s, r, k) = r * (len * 1) + 0 + k * 1
    BY <1>2, <2>1 DEF StoreAddress, StridedAddress
  <2>4. len \in Nat
    BY <1>2 DEF Pos
  <2> HIDE DEF len
  <2> QED
    BY <2>2, <2>3, <2>4
<1>4. ASSUME NEW c \in Cubes, NEW i \in Index
      PROVE  RowAt(s, o, o, c * n0 + i[0], c, i)
  <2> DEFINE r == c * n0 + i[0]
  <2> SUFFICES ASSUME NEW k \in Places(s)
               PROVE  LET j == MovedTo(i, s.axes, k)
                      IN  /\ j \in Index
                          /\ LoadAddress(s, r, k) = AddrOf(o, c, j)
                          /\ StoreAddress(s, r, k) = AddrOf(o, c, j)
    BY DEF RowAt
  <2> DEFINE j == MovedTo(i, <<1, 2>>, k)  x1 == k \div n2  x2 == k % n2
  <2>1. k \in 0 .. n1 * n2 - 1 /\ k \in Nat
    BY <1>2 DEF Places
  <2>2. j \in Index /\ j[1] = x1 /\ j[2] = x2 /\ j[0] = i[0]
    BY <1>2, <2>1, MovedPlane DEF Axes
  <2> HIDE DEF j
  <2>3. AddrOf(o, c, j) = (r * n1 + x1) * n2 + x2
    BY <1>2, <2>2 DEF AddrOf, Place3
  <2>4. r \in Nat
    BY <1>2 DEF RowsOf
  <2>5. x1 \in Nat /\ x2 \in Nat /\ k = x1 * n2 + x2 /\ n1 \in Nat /\ n2 \in Nat
    <3>1. n2 \in Pos /\ n1 \in Pos
      BY Sizes
    <3>2. x1 \in Nat /\ x2 \in 0 .. n2 - 1 /\ k = x1 * n2 + x2
      BY <2>1, <3>1, Division
    <3> QED
      BY <3>1, <3>2 DEF Pos
  <2> HIDE DEF r, x1, x2
  <2>6. (r * n1 + x1) * n2 + x2 = r * len + k
    BY <2>4, <2>5
  <2>7. LoadAddress(s, r, k) = AddrOf(o, c, j) /\ StoreAddress(s, r, k) = AddrOf(o, c, j)
    BY <1>3, <2>1, <2>3, <2>4, <2>6
  <2> QED
    BY <2>2, <2>7 DEF j, r
<1>5. ASSUME NEW c \in Cubes, NEW i \in Index
      PROVE  \E r \in RowsOf(s), k \in Places(s) :
               RowAt(s, o, o, r, c, i) /\ MovedTo(i, s.axes, k) = i
  <2> DEFINE k == i[1] * n2 + i[2]
  <2>1. c * n0 + i[0] \in RowsOf(s) /\ k \in Places(s)
    BY <1>2
  <2>2. k \in 0 .. Extent(1) * Extent(2) - 1
    BY <1>2, <2>1 DEF Places
  <2>3. MovedTo(i, s.axes, k) = i
    BY <1>2, <2>2, MovedPlane DEF Axes
  <2> HIDE DEF k
  <2> QED
    BY <1>4, <2>1, <2>3
<1>6. ASSUME NEW r \in RowsOf(s), NEW q \in RowsOf(s), NEW j \in Places(s), NEW k \in Places(s),
             StoreAddress(s, r, j) = StoreAddress(s, q, k)
      PROVE  r = q /\ j = k
  <2>1. r \in Nat /\ q \in Nat /\ j \in 0 .. len - 1 /\ k \in 0 .. len - 1 /\ len \in Pos
        /\ j \in Nat /\ k \in Nat
    BY <1>2 DEF RowsOf, Places
  <2>2. r * len + j = q * len + k
    BY <1>3, <1>6, <2>1
  <2> HIDE DEF len
  <2> QED
    BY <2>1, <2>2, SameDigits
<1> QED
  BY <1>2, <1>5, <1>6 DEF Carries

LEMMA RectCarries ==
  ASSUME Configured, NEW s, s.axes = <<0, 2>>, s.load = "rect", s.store = "outer",
         s.span = n1, Launched(s) = RowsOf(s)
  PROVE  Carries(s, <<0, 1, 2>>, <<0, 2, 1>>)
<1> DEFINE o == <<0, 1, 2>>  p == <<0, 2, 1>>  len == n0 * n2
<1>1. /\ Length(s) = len /\ len \in Pos /\ Extent(0) = n0 /\ Extent(1) = n1 /\ Extent(2) = n2
      /\ \A c \in Cubes, i \in Index :
           c * n1 + i[1] \in RowsOf(s) /\ i[0] * n2 + i[2] \in Places(s)
  <2>1. <<1, 0, 2>> \in Orders
    BY DEF Orders
  <2> QED
    BY <2>1, PlaneCounts, Sizes
<1>2. n0 \in Pos /\ n1 \in Pos /\ n2 \in Pos
  BY Sizes
<1>3. ASSUME NEW r \in Nat, NEW k \in Nat
      PROVE  /\ LoadAddress(s, r, k) = RectAddress(r, k)
             /\ StoreAddress(s, r, k) = Spread(n1, len, r, k)
  BY <1>1 DEF LoadAddress, StoreAddress, OuterAddress, Spread
<1>4. ASSUME NEW c \in Cubes, NEW i \in Index
      PROVE  RowAt(s, o, p, c * n1 + i[1], c, i)
  <2> DEFINE r == c * n1 + i[1]
  <2> SUFFICES ASSUME NEW k \in Places(s)
               PROVE  LET j == MovedTo(i, s.axes, k)
                      IN  /\ j \in Index
                          /\ LoadAddress(s, r, k) = AddrOf(o, c, j)
                          /\ StoreAddress(s, r, k) = AddrOf(p, c, j)
    BY DEF RowAt
  <2> DEFINE j == MovedTo(i, <<0, 2>>, k)  x0 == k \div n2  x2 == k % n2  x1 == i[1]
  <2>1. k \in 0 .. n0 * n2 - 1 /\ k \in Nat
    BY <1>1 DEF Places
  <2>2. j \in Index /\ j[0] = x0 /\ j[2] = x2 /\ j[1] = x1
    BY <1>1, <2>1, MovedPlane DEF Axes
  <2> HIDE DEF j
  <2>3. /\ AddrOf(o, c, j) = ((c * n0 + x0) * n1 + x1) * n2 + x2
        /\ AddrOf(p, c, j) = ((c * n0 + x0) * n2 + x2) * n1 + x1
    BY <1>1, <2>2 DEF AddrOf, Place3
  <2>4. c \in Nat /\ x1 \in 0 .. n1 - 1
    BY <1>1 DEF Cubes, Index, Axes
  <2>5. x0 \in Nat /\ x2 \in 0 .. n2 - 1 /\ k = x0 * n2 + x2
    BY <1>2, <2>1, Division
  <2> HIDE DEF x0, x1, x2
  <2>6. r \div n1 = c /\ r % n1 = x1 /\ r \in Nat
    BY <1>2, <2>4, Digits DEF x1
  <2> HIDE DEF r
  <2>7. LoadAddress(s, r, k) = AddrOf(o, c, j)
    <3>1. RectAddress(r, k) = (((r \div n1) * n0 + x0) * n1 + (r % n1)) * n2 + x2
      BY DEF RectAddress, x0, x2
    <3> QED
      BY <1>3, <2>1, <2>3, <2>6, <3>1
  <2>8. StoreAddress(s, r, k) = AddrOf(p, c, j)
    <3>1. Spread(n1, len, r, k) = c * ((n0 * n2) * n1) + k * n1 + x1
      BY <2>6 DEF Spread
    <3>2. c * ((n0 * n2) * n1) + (x0 * n2 + x2) * n1 + x1 = ((c * n0 + x0) * n2 + x2) * n1 + x1
      BY <1>2, <2>4, <2>5 DEF Pos
    <3>3. StoreAddress(s, r, k) = Spread(n1, len, r, k)
      BY <1>3, <2>1, <2>6
    <3> HIDE DEF len
    <3> QED
      BY <2>3, <2>5, <3>1, <3>2, <3>3
  <2> QED
    BY <2>2, <2>7, <2>8 DEF j, r
<1>5. ASSUME NEW c \in Cubes, NEW i \in Index
      PROVE  \E r \in RowsOf(s), k \in Places(s) :
               RowAt(s, o, p, r, c, i) /\ MovedTo(i, s.axes, k) = i
  <2> DEFINE k == i[0] * n2 + i[2]
  <2>1. c * n1 + i[1] \in RowsOf(s) /\ k \in Places(s)
    BY <1>1
  <2>2. k \in 0 .. Extent(0) * Extent(2) - 1
    BY <1>1, <2>1 DEF Places
  <2>3. MovedTo(i, s.axes, k) = i
    BY <1>1, <2>2, MovedPlane DEF Axes
  <2> HIDE DEF k
  <2> QED
    BY <1>4, <2>1, <2>3
<1>6. ASSUME NEW r \in RowsOf(s), NEW q \in RowsOf(s), NEW j \in Places(s), NEW k \in Places(s),
             StoreAddress(s, r, j) = StoreAddress(s, q, k)
      PROVE  r = q /\ j = k
  <2>1. r \in Nat /\ q \in Nat /\ j \in 0 .. len - 1 /\ k \in 0 .. len - 1 /\ len \in Pos
        /\ j \in Nat /\ k \in Nat
    BY <1>1 DEF RowsOf, Places
  <2>2. Spread(n1, len, r, j) = Spread(n1, len, q, k)
    BY <1>3, <1>6, <2>1
  <2> HIDE DEF len
  <2> QED
    BY <1>2, <2>1, <2>2, SpreadApart
<1> QED
  BY <1>1, <1>5, <1>6 DEF Carries
-----------------------------------------------------------------------------
(* Transposes.                                                             *)

\* A transpose of an array in order o by the given axis order leaves order p.
Reordered(o, order) == <<o[order[1] + 1], o[order[2] + 1], o[order[3] + 1]>>
Permutes(s, o, p) ==
  \A c \in Cubes, i \in Index :
    c * CubeSize + TransposeSource(s, AddrOf(p, c, i) % CubeSize) = AddrOf(o, c, i)

LEMMA TransposePermutes ==
  ASSUME Configured, NEW o \in Orders, NEW t \in Orders, NEW s,
         s.order = t, s.dims = <<Extent(o[1]), Extent(o[2]), Extent(o[3])>>
  PROVE  Reordered(o, t) \in Orders /\ Permutes(s, o, Reordered(o, t))
<1> DEFINE p == Reordered(o, t)
           d == [x \in Axes |-> s.dims[x + 1]]
           e == [x \in Axes |-> s.order[x + 1]]
           Y(z, x0, x1, x2) == CASE z = e[0] -> x0 [] z = e[1] -> x1 [] z = e[2] -> x2
<1>1. p \in Orders
  <2>1. p = <<p[1], p[2], p[3]>>
    BY DEF Reordered
  <2>2. o[1] \in Axes /\ o[2] \in Axes /\ o[3] \in Axes /\ o[1] # o[2] /\ o[1] # o[3] /\ o[2] # o[3]
    BY OrderAxes
  <2>3. /\ p[1] \in Axes /\ p[2] \in Axes /\ p[3] \in Axes
        /\ p[1] # p[2] /\ p[1] # p[3] /\ p[2] # p[3]
    BY <2>2 DEF Orders, Reordered
  <2> HIDE DEF p
  <2> QED
    BY <2>1, <2>3 DEF Orders, Axes
<1>2. /\ e[0] = t[1] /\ e[1] = t[2] /\ e[2] = t[3]
      /\ d[0] = Extent(o[1]) /\ d[1] = Extent(o[2]) /\ d[2] = Extent(o[3])
  BY DEF Axes
<1>3. \A x \in Axes : d[x] = Extent(o[x + 1])
  BY <1>2 DEF Axes
<1>4. /\ t[1] \in Axes /\ t[2] \in Axes /\ t[3] \in Axes
      /\ t[1] # t[2] /\ t[1] # t[3] /\ t[2] # t[3]
      /\ \A x \in Axes : x = t[1] \/ x = t[2] \/ x = t[3]
  BY OrderAxes
<1>5. p[1] = o[t[1] + 1] /\ p[2] = o[t[2] + 1] /\ p[3] = o[t[3] + 1]
  BY DEF Reordered
<1> HIDE DEF p
<1>6. ASSUME NEW c \in Cubes, NEW i \in Index
      PROVE  c * CubeSize + TransposeSource(s, AddrOf(p, c, i) % CubeSize) = AddrOf(o, c, i)
  <2> DEFINE a == AddrOf(p, c, i) % CubeSize
             x0 == a \div (d[e[1]] * d[e[2]])  x1 == (a \div d[e[2]]) % d[e[1]]  x2 == a % d[e[2]]
             y == [z \in Axes |-> CASE z = e[0] -> x0 [] z = e[1] -> x1 [] z = e[2] -> x2]
  <2>1. TransposeSource(s, a) = y[0] * (d[1] * d[2]) + y[1] * d[2] + y[2]
    BY DEF TransposeSource
  <2>2. d[e[1]] = Extent(p[2]) /\ d[e[2]] = Extent(p[3])
    BY <1>2, <1>3, <1>4, <1>5
  <2>3. x0 = i[p[1]] /\ x1 = i[p[2]] /\ x2 = i[p[3]]
    <3> DEFINE e1 == Extent(p[2])  e2 == Extent(p[3])
               z0 == i[p[1]]  z1 == i[p[2]]  z2 == i[p[3]]
    <3>1. a = (z0 * e1 + z1) * e2 + z2
      BY <1>1, AtAddress
    <3>2. /\ Extent(p[1]) \in Pos /\ e1 \in Pos /\ e2 \in Pos
          /\ z0 \in 0 .. Extent(p[1]) - 1 /\ z1 \in 0 .. e1 - 1 /\ z2 \in 0 .. e2 - 1
      BY <1>1, OrderAxes, Sizes DEF Index
    <3>3. x0 = a \div (e1 * e2) /\ x1 = (a \div e2) % e1 /\ x2 = a % e2
      BY <2>2
    <3> HIDE DEF a, e1, e2, z0, z1, z2, x0, x1, x2
    <3>4. a \div (e1 * e2) = z0 /\ (a \div e2) % e1 = z1 /\ a % e2 = z2
      BY <3>1, <3>2, InnerDigits
    <3> QED
      BY <3>3, <3>4 DEF z0, z1, z2
  <2> HIDE DEF x0, x1, x2, d, a
  <2>4. \A z \in Axes : y[z] = i[o[z + 1]]
    <3> SUFFICES ASSUME NEW z \in Axes PROVE y[z] = i[o[z + 1]]
      OBVIOUS
    <3>1. y[z] = CASE z = e[0] -> x0 [] z = e[1] -> x1 [] z = e[2] -> x2
      OBVIOUS
    <3> HIDE DEF y, e
    <3> QED
      BY <1>2, <1>4, <1>5, <2>3, <3>1
  <2> HIDE DEF y
  <2>5. y[0] = i[o[1]] /\ y[1] = i[o[2]] /\ y[2] = i[o[3]]
    <3>1. 0 \in Axes /\ 1 \in Axes /\ 2 \in Axes /\ 0 + 1 = 1 /\ 1 + 1 = 2 /\ 2 + 1 = 3
      BY DEF Axes
    <3>2. y[0] = i[o[0 + 1]] /\ y[1] = i[o[1 + 1]] /\ y[2] = i[o[2 + 1]]
      BY <2>4, <3>1
    <3> QED
      BY <3>1, <3>2
  <2>6. TransposeSource(s, a)
          = i[o[1]] * (Extent(o[2]) * Extent(o[3])) + i[o[2]] * Extent(o[3]) + i[o[3]]
    BY <1>2, <2>1, <2>5
  <2> DEFINE e1 == Extent(o[2])  e2 == Extent(o[3])
             z0 == i[o[1]]  z1 == i[o[2]]  z2 == i[o[3]]
  <2>7. e1 \in Nat /\ e2 \in Nat /\ z0 \in Nat /\ z1 \in Nat /\ z2 \in Nat /\ Extent(o[1]) \in Pos
        /\ e1 \in Pos /\ e2 \in Pos /\ z0 \in 0 .. Extent(o[1]) - 1
        /\ z1 \in 0 .. e1 - 1 /\ z2 \in 0 .. e2 - 1 /\ c \in Nat
    BY OrderAxes, Sizes DEF Index, Pos, Cubes
  <2>8. AddrOf(o, c, i) = Place3(Extent(o[1]), e1, e2, c, z0, z1, z2)
    BY DEF AddrOf
  <2>9. CubeSize = Extent(o[1]) * e1 * e2
    BY CubeSizes
  <2> DEFINE e0 == Extent(o[1])
  <2> HIDE DEF e0, e1, e2, z0, z1, z2
  <2>10. Place3(e0, e1, e2, c, z0, z1, z2) = c * (e0 * e1 * e2) + ((z0 * e1 + z1) * e2 + z2)
    <3>1. e0 \in Pos /\ z0 \in 0 .. e0 - 1
      BY <2>7 DEF e0
    <3> QED
      BY <2>7, <3>1, Place3Digits
  <2>11. z0 * (e1 * e2) + z1 * e2 + z2 = (z0 * e1 + z1) * e2 + z2
    BY <2>7
  <2>12. TransposeSource(s, a) = z0 * (e1 * e2) + z1 * e2 + z2
    BY <2>6 DEF z0, z1, z2, e1, e2
  <2>13. AddrOf(o, c, i) = c * CubeSize + TransposeSource(s, a)
    BY <2>8, <2>9, <2>10, <2>11, <2>12 DEF e0
  <2> QED
    BY <2>13 DEF a
<1> QED
  BY <1>1, <1>6 DEF Permutes, p
-----------------------------------------------------------------------------
(* The programs of the hybrid nodes, one launch after the other.           *)

LEMMA Joined ==
  ASSUME NEW S, NEW s \in Seq(S), NEW t \in Seq(S), NEW u \in Seq(S), NEW all \in Seq(S),
         Len(all) = Len(s) + Len(t) + Len(u),
         \A i \in 1 .. Len(s) : all[i] = s[i],
         \A i \in 1 .. Len(t) : all[Len(s) + i] = t[i],
         \A i \in 1 .. Len(u) : all[Len(s) + Len(t) + i] = u[i]
  PROVE  s \o t \o u = all
<1>1. Len(s) \in Nat /\ Len(t) \in Nat /\ Len(u) \in Nat
  OBVIOUS
<1>2. /\ s \o t \in Seq(S) /\ Len(s \o t) = Len(s) + Len(t)
      /\ \A i \in 1 .. Len(s) + Len(t) :
           (s \o t)[i] = IF i <= Len(s) THEN s[i] ELSE t[i - Len(s)]
  BY ConcatProperties
<1> DEFINE st == s \o t
<1> HIDE DEF st
<1>3. st \in Seq(S) /\ Len(st) = Len(s) + Len(t)
  BY <1>2 DEF st
<1>4. /\ st \o u \in Seq(S) /\ Len(st \o u) = Len(st) + Len(u)
      /\ \A i \in 1 .. Len(st) + Len(u) :
           (st \o u)[i] = IF i <= Len(st) THEN st[i] ELSE u[i - Len(st)]
  BY <1>3, ConcatProperties
<1>5. \A i \in 1 .. Len(st) : st[i] = all[i]
  <2> SUFFICES ASSUME NEW i \in 1 .. Len(st)
               PROVE  st[i] = all[i]
    OBVIOUS
  <2>1. CASE i <= Len(s)
    BY <1>1, <1>2, <1>3, <2>1 DEF st
  <2>2. CASE i > Len(s)
    <3>1. i - Len(s) \in 1 .. Len(t) /\ i = Len(s) + (i - Len(s))
      BY <1>1, <1>3, <2>2
    <3>2. st[i] = t[i - Len(s)]
      BY <1>1, <1>2, <1>3, <2>2 DEF st
    <3> QED
      BY <3>1, <3>2
  <2> QED
    BY <1>1, <2>1, <2>2
<1>6. \A i \in 1 .. Len(st \o u) : (st \o u)[i] = all[i]
  <2> SUFFICES ASSUME NEW i \in 1 .. Len(st \o u)
               PROVE  (st \o u)[i] = all[i]
    OBVIOUS
  <2>1. CASE i <= Len(st)
    BY <1>1, <1>3, <1>4, <1>5, <2>1
  <2>2. CASE i > Len(st)
    <3>1. /\ i - Len(st) \in 1 .. Len(u)
          /\ i = Len(s) + Len(t) + (i - Len(st))
      BY <1>1, <1>3, <1>4, <2>2
    <3>2. (st \o u)[i] = u[i - Len(st)]
      BY <1>1, <1>3, <1>4, <2>2
    <3> QED
      BY <3>1, <3>2
  <2> QED
    BY <1>1, <1>3, <2>1, <2>2
<1>7. st \o u = all
  BY <1>3, <1>4, <1>6, SeqEqual
<1> QED
  BY <1>7 DEF st

LEMMA Joined112 ==
  ASSUME NEW a, NEW b, NEW c, NEW d
  PROVE  <<a>> \o <<b>> \o <<c, d>> = <<a, b, c, d>>
<1> DEFINE S == {a, b, c, d}  s == <<a>>  t == <<b>>  u == <<c, d>>  all == <<a, b, c, d>>
<1>1. /\ s \in Seq(S) /\ t \in Seq(S) /\ u \in Seq(S) /\ all \in Seq(S)
      /\ Len(s) = 1 /\ Len(t) = 1 /\ Len(u) = 2 /\ Len(all) = 4
      /\ \A i \in 1 .. 1 : all[i] = s[i]
      /\ \A i \in 1 .. 1 : all[1 + i] = t[i]
      /\ \A i \in 1 .. 2 : all[1 + 1 + i] = u[i]
  OBVIOUS
<1> HIDE DEF s, t, u, all, S
<1>2. /\ Len(all) = Len(s) + Len(t) + Len(u)
      /\ \A i \in 1 .. Len(s) : all[i] = s[i]
      /\ \A i \in 1 .. Len(t) : all[Len(s) + i] = t[i]
      /\ \A i \in 1 .. Len(u) : all[Len(s) + Len(t) + i] = u[i]
  BY <1>1
<1>3. s \o t \o u = all
  BY <1>1, <1>2, Joined
<1> QED
  BY <1>3 DEF s, t, u, all

LEMMA Joined121 ==
  ASSUME NEW a, NEW b, NEW c, NEW d
  PROVE  <<a>> \o <<b, c>> \o <<d>> = <<a, b, c, d>>
<1> DEFINE S == {a, b, c, d}  s == <<a>>  t == <<b, c>>  u == <<d>>  all == <<a, b, c, d>>
<1>1. /\ s \in Seq(S) /\ t \in Seq(S) /\ u \in Seq(S) /\ all \in Seq(S)
      /\ Len(s) = 1 /\ Len(t) = 2 /\ Len(u) = 1 /\ Len(all) = 4
      /\ \A i \in 1 .. 1 : all[i] = s[i]
      /\ \A i \in 1 .. 2 : all[1 + i] = t[i]
      /\ \A i \in 1 .. 1 : all[1 + 2 + i] = u[i]
  OBVIOUS
<1> HIDE DEF s, t, u, all, S
<1>2. /\ Len(all) = Len(s) + Len(t) + Len(u)
      /\ \A i \in 1 .. Len(s) : all[i] = s[i]
      /\ \A i \in 1 .. Len(t) : all[Len(s) + i] = t[i]
      /\ \A i \in 1 .. Len(u) : all[Len(s) + Len(t) + i] = u[i]
  BY <1>1
<1>3. s \o t \o u = all
  BY <1>1, <1>2, Joined
<1> QED
  BY <1>3 DEF s, t, u, all

LEMMA Joined122 ==
  ASSUME NEW a, NEW b, NEW c, NEW d, NEW e
  PROVE  <<a>> \o <<b, c>> \o <<d, e>> = <<a, b, c, d, e>>
<1> DEFINE S == {a, b, c, d, e}  s == <<a>>  t == <<b, c>>  u == <<d, e>>  all == <<a, b, c, d, e>>
<1>1. /\ s \in Seq(S) /\ t \in Seq(S) /\ u \in Seq(S) /\ all \in Seq(S)
      /\ Len(s) = 1 /\ Len(t) = 2 /\ Len(u) = 2 /\ Len(all) = 5
      /\ \A i \in 1 .. 1 : all[i] = s[i]
      /\ \A i \in 1 .. 2 : all[1 + i] = t[i]
      /\ \A i \in 1 .. 2 : all[1 + 2 + i] = u[i]
  OBVIOUS
<1> HIDE DEF s, t, u, all, S
<1>2. /\ Len(all) = Len(s) + Len(t) + Len(u)
      /\ \A i \in 1 .. Len(s) : all[i] = s[i]
      /\ \A i \in 1 .. Len(t) : all[Len(s) + i] = t[i]
      /\ \A i \in 1 .. Len(u) : all[Len(s) + Len(t) + i] = u[i]
  BY <1>1
<1>3. s \o t \o u = all
  BY <1>1, <1>2, Joined
<1> QED
  BY <1>3 DEF s, t, u, all

LEMMA Joined221 ==
  ASSUME NEW a, NEW b, NEW c, NEW d, NEW e
  PROVE  <<a, b>> \o <<c, d>> \o <<e>> = <<a, b, c, d, e>>
<1> DEFINE S == {a, b, c, d, e}  s == <<a, b>>  t == <<c, d>>  u == <<e>>  all == <<a, b, c, d, e>>
<1>1. /\ s \in Seq(S) /\ t \in Seq(S) /\ u \in Seq(S) /\ all \in Seq(S)
      /\ Len(s) = 2 /\ Len(t) = 2 /\ Len(u) = 1 /\ Len(all) = 5
      /\ \A i \in 1 .. 2 : all[i] = s[i]
      /\ \A i \in 1 .. 2 : all[2 + i] = t[i]
      /\ \A i \in 1 .. 1 : all[2 + 2 + i] = u[i]
  OBVIOUS
<1> HIDE DEF s, t, u, all, S
<1>2. /\ Len(all) = Len(s) + Len(t) + Len(u)
      /\ \A i \in 1 .. Len(s) : all[i] = s[i]
      /\ \A i \in 1 .. Len(t) : all[Len(s) + i] = t[i]
      /\ \A i \in 1 .. Len(u) : all[Len(s) + Len(t) + i] = u[i]
  BY <1>1
<1>3. s \o t \o u = all
  BY <1>1, <1>2, Joined
<1> QED
  BY <1>3 DEF s, t, u, all

LEMMA HybridPrograms ==
  /\ Hybrid(FALSE, TRUE, FALSE) =
       <<PermutedStore("outer", 2, n1, "in", "t1"),
         Rows(1, "t1", "t2"),
         Transpose(<<2, 1, 0>>, <<n0, n2, n1>>, "t2", "t1"),
         PermutedStore("outer", 0, n1 * n2, "t1", Out)>>
  /\ Hybrid(FALSE, TRUE, TRUE) =
       <<PermutedStore("outer", 2, n1, "in", "t1"),
         Rows(1, "t1", "t2"),
         Transpose(<<2, 1, 0>>, <<n0, n2, n1>>, "t2", "t1"),
         Rows(0, "t1", "t2"),
         Transpose(<<2, 0, 1>>, <<n1, n2, n0>>, "t2", Out)>>
  /\ Hybrid(TRUE, TRUE, FALSE) =
       <<Rows(2, "in", "t1"),
         Transpose(<<0, 2, 1>>, <<n0, n1, n2>>, "t1", "t2"),
         Rows(1, "t2", "t1"),
         Transpose(<<2, 1, 0>>, <<n0, n2, n1>>, "t1", "t2"),
         PermutedStore("outer", 0, n1 * n2, "t2", Out)>>
  /\ Hybrid(TRUE, TRUE, TRUE) =
       <<Rows(2, "in", "t1"),
         Transpose(<<0, 2, 1>>, <<n0, n1, n2>>, "t1", "t2"),
         Rows(1, "t2", "t1"),
         Transpose(<<2, 1, 0>>, <<n0, n2, n1>>, "t1", "t2"),
         Rows(0, "t2", "t1"),
         Transpose(<<2, 0, 1>>, <<n1, n2, n0>>, "t1", Out)>>
  /\ Hybrid(FALSE, FALSE, TRUE) =
       <<PermutedStore("outer", 2, n1, "in", "t1"),
         PermutedStore("inner", 1, n2, "t1", "t2"),
         Rows(0, "t2", "t1"),
         Transpose(<<2, 0, 1>>, <<n1, n2, n0>>, "t1", Out)>>
<1>1. Hybrid(FALSE, TRUE, FALSE) =
       <<PermutedStore("outer", 2, n1, "in", "t1"),
         Rows(1, "t1", "t2"),
         Transpose(<<2, 1, 0>>, <<n0, n2, n1>>, "t2", "t1"),
         PermutedStore("outer", 0, n1 * n2, "t1", Out)>>
  <2> DEFINE a == PermutedStore("outer", 2, n1, "in", "t1")
             b == Rows(1, "t1", "t2")
             c == Transpose(<<2, 1, 0>>, <<n0, n2, n1>>, "t2", "t1")
             d == PermutedStore("outer", 0, n1 * n2, "t1", Out)
  <2>1. Hybrid(FALSE, TRUE, FALSE) = <<a>> \o <<b, c>> \o <<d>>
    BY DEF Hybrid
  <2> HIDE DEF a, b, c, d
  <2>2. Hybrid(FALSE, TRUE, FALSE) = <<a, b, c, d>>
    BY <2>1, Joined121
  <2> QED
    BY <2>2 DEF a, b, c, d
<1>2. Hybrid(FALSE, TRUE, TRUE) =
       <<PermutedStore("outer", 2, n1, "in", "t1"),
         Rows(1, "t1", "t2"),
         Transpose(<<2, 1, 0>>, <<n0, n2, n1>>, "t2", "t1"),
         Rows(0, "t1", "t2"),
         Transpose(<<2, 0, 1>>, <<n1, n2, n0>>, "t2", Out)>>
  <2> DEFINE a == PermutedStore("outer", 2, n1, "in", "t1")
             b == Rows(1, "t1", "t2")
             c == Transpose(<<2, 1, 0>>, <<n0, n2, n1>>, "t2", "t1")
             d == Rows(0, "t1", "t2")
             e == Transpose(<<2, 0, 1>>, <<n1, n2, n0>>, "t2", Out)
  <2>1. Hybrid(FALSE, TRUE, TRUE) = <<a>> \o <<b, c>> \o <<d, e>>
    BY DEF Hybrid
  <2> HIDE DEF a, b, c, d, e
  <2>2. Hybrid(FALSE, TRUE, TRUE) = <<a, b, c, d, e>>
    BY <2>1, Joined122
  <2> QED
    BY <2>2 DEF a, b, c, d, e
<1>3. Hybrid(TRUE, TRUE, FALSE) =
       <<Rows(2, "in", "t1"),
         Transpose(<<0, 2, 1>>, <<n0, n1, n2>>, "t1", "t2"),
         Rows(1, "t2", "t1"),
         Transpose(<<2, 1, 0>>, <<n0, n2, n1>>, "t1", "t2"),
         PermutedStore("outer", 0, n1 * n2, "t2", Out)>>
  <2> DEFINE a == Rows(2, "in", "t1")
             b == Transpose(<<0, 2, 1>>, <<n0, n1, n2>>, "t1", "t2")
             c == Rows(1, "t2", "t1")
             d == Transpose(<<2, 1, 0>>, <<n0, n2, n1>>, "t1", "t2")
             e == PermutedStore("outer", 0, n1 * n2, "t2", Out)
  <2>1. Hybrid(TRUE, TRUE, FALSE) = <<a, b>> \o <<c, d>> \o <<e>>
    BY DEF Hybrid
  <2> HIDE DEF a, b, c, d, e
  <2>2. Hybrid(TRUE, TRUE, FALSE) = <<a, b, c, d, e>>
    BY <2>1, Joined221
  <2> QED
    BY <2>2 DEF a, b, c, d, e
<1>4. Hybrid(TRUE, TRUE, TRUE) =
       <<Rows(2, "in", "t1"),
         Transpose(<<0, 2, 1>>, <<n0, n1, n2>>, "t1", "t2"),
         Rows(1, "t2", "t1"),
         Transpose(<<2, 1, 0>>, <<n0, n2, n1>>, "t1", "t2"),
         Rows(0, "t2", "t1"),
         Transpose(<<2, 0, 1>>, <<n1, n2, n0>>, "t1", Out)>>
  <2> DEFINE a == Rows(2, "in", "t1")
             b == Transpose(<<0, 2, 1>>, <<n0, n1, n2>>, "t1", "t2")
             c == Rows(1, "t2", "t1")
             d == Transpose(<<2, 1, 0>>, <<n0, n2, n1>>, "t1", "t2")
             e == Rows(0, "t2", "t1")
             g == Transpose(<<2, 0, 1>>, <<n1, n2, n0>>, "t1", Out)
  <2>1. Hybrid(TRUE, TRUE, TRUE) = <<a, b>> \o <<c, d>> \o <<e, g>>
    BY DEF Hybrid
  <2> HIDE DEF a, b, c, d, e, g
  <2>2. <<a, b>> \o <<c, d>> \o <<e, g>> = <<a, b, c, d, e, g>>
    <3> DEFINE S == {a, b, c, d, e, g}  s == <<a, b>>  t == <<c, d>>  u == <<e, g>>
               all == <<a, b, c, d, e, g>>
    <3>1. /\ s \in Seq(S) /\ t \in Seq(S) /\ u \in Seq(S) /\ all \in Seq(S)
          /\ Len(s) = 2 /\ Len(t) = 2 /\ Len(u) = 2 /\ Len(all) = 6
          /\ \A i \in 1 .. 2 : all[i] = s[i]
          /\ \A i \in 1 .. 2 : all[2 + i] = t[i]
          /\ \A i \in 1 .. 2 : all[2 + 2 + i] = u[i]
      OBVIOUS
    <3> HIDE DEF s, t, u, all, S
    <3>2. /\ Len(all) = Len(s) + Len(t) + Len(u)
          /\ \A i \in 1 .. Len(s) : all[i] = s[i]
          /\ \A i \in 1 .. Len(t) : all[Len(s) + i] = t[i]
          /\ \A i \in 1 .. Len(u) : all[Len(s) + Len(t) + i] = u[i]
      BY <3>1
    <3>3. s \o t \o u = all
      BY <3>1, <3>2, Joined
    <3> QED
      BY <3>3 DEF s, t, u, all
  <2> QED
    BY <2>1, <2>2 DEF a, b, c, d, e, g
<1>5. Hybrid(FALSE, FALSE, TRUE) =
       <<PermutedStore("outer", 2, n1, "in", "t1"),
         PermutedStore("inner", 1, n2, "t1", "t2"),
         Rows(0, "t2", "t1"),
         Transpose(<<2, 0, 1>>, <<n1, n2, n0>>, "t1", Out)>>
  <2> DEFINE a == PermutedStore("outer", 2, n1, "in", "t1")
             b == PermutedStore("inner", 1, n2, "t1", "t2")
             c == Rows(0, "t2", "t1")
             d == Transpose(<<2, 0, 1>>, <<n1, n2, n0>>, "t1", Out)
  <2>1. Hybrid(FALSE, FALSE, TRUE) = <<a>> \o <<b>> \o <<c, d>>
    BY DEF Hybrid
  <2> HIDE DEF a, b, c, d
  <2>2. Hybrid(FALSE, FALSE, TRUE) = <<a, b, c, d>>
    BY <2>1, Joined112
  <2> QED
    BY <2>2 DEF a, b, c, d
<1> QED
  BY <1>1, <1>2, <1>3, <1>4, <1>5, Zenon
-----------------------------------------------------------------------------
(* Moves: a launch takes a buffer laid out in one way to another buffer laid  *)
(* out in another.                                                           *)

Buffers == {"in", "t1", "t2", "out"}
Lay(b, o, d) == [buf |-> b, order |-> o, done |-> d]

Moves(s, h, k) ==
  /\ s.src = h.buf /\ s.dst = k.buf /\ h.buf # k.buf
  /\ \/ /\ s.op = "fft" /\ Carries(s, h.order, k.order)
        /\ Fresh(s, h.done) /\ k.done = After(s, h.done)
     \/ s.op = "perm" /\ Permutes(s, h.order, k.order) /\ k.done = h.done

\* A leaf on lines in place, or that stores its rows with the line's axis
\* elsewhere.
LEMMA LinesMove ==
  ASSUME Configured, cfg.perBlock <= cfg.pack,
         NEW u, NEW v, NEW a, <<u, v, a>> \in Orders, NEW p \in 1 .. 3,
         NEW span, span = SpanOf(u, v, p), NEW src, NEW dst, src # dst,
         NEW done, a \notin done
  PROVE  Moves(Lines(a, span, src, dst), Lay(src, Insert(u, v, a, p), done),
               Lay(dst, Insert(u, v, a, p), done \cup {a}))
<1> DEFINE s == Lines(a, span, src, dst)
<1>1. /\ s.op = "fft" /\ s.axes = <<a>> /\ s.load = "strided" /\ s.store = "strided"
      /\ s.span = span /\ s.src = src /\ s.dst = dst
  BY DEF Lines
<1> HIDE DEF s
<1>2. Over(s) = {a}
  BY <1>1 DEF Over
<1>3. Launched(s) = RowsOf(s)
  <2>1. NBatch(s) \in Nat
    BY <1>1, RowCounts DEF Pos
  <2> QED
    BY <1>1, <2>1, EveryRow
<1>4. Carries(s, Insert(u, v, a, p), Insert(u, v, a, p))
  BY <1>1, <1>3, LinesCarry
<1>5. Fresh(s, done) /\ After(s, done) = done \cup {a}
  BY <1>2 DEF Fresh, After
<1> QED
  BY <1>1, <1>4, <1>5 DEF Moves, Lay, s

LEMMA StoreMoves ==
  ASSUME Configured, cfg.perBlock <= cfg.pack,
         NEW u, NEW v, NEW a, <<u, v, a>> \in Orders, NEW p \in 1 .. 3,
         NEW span, span = SpanOf(u, v, p), NEW src, NEW dst, src # dst,
         NEW done, a \notin done
  PROVE  Moves(PermutedStore("outer", a, span, src, dst), Lay(src, <<u, v, a>>, done),
               Lay(dst, Insert(u, v, a, p), done \cup {a}))
<1> DEFINE s == PermutedStore("outer", a, span, src, dst)
<1>1. /\ s.op = "fft" /\ s.axes = <<a>> /\ s.load = "rows" /\ s.store = "outer"
      /\ s.span = span /\ s.src = src /\ s.dst = dst
  BY DEF PermutedStore
<1> HIDE DEF s
<1>2. Over(s) = {a}
  BY <1>1 DEF Over
<1>3. Launched(s) = RowsOf(s)
  <2>1. NBatch(s) \in Nat
    BY <1>1, RowCounts DEF Pos
  <2> QED
    BY <1>1, <2>1, EveryRow
<1>4. Carries(s, <<u, v, a>>, Insert(u, v, a, p))
  <2>1. Insert(u, v, a, 3) = <<u, v, a>> /\ 3 \in 1 .. 3
    BY DEF Insert
  <2>2. Carries(s, Insert(u, v, a, 3), Insert(u, v, a, p))
    BY <1>1, <1>3, <2>1, LinesCarry
  <2> QED
    BY <2>1, <2>2
<1>5. Fresh(s, done) /\ After(s, done) = done \cup {a}
  BY <1>2 DEF Fresh, After
<1> QED
  BY <1>1, <1>4, <1>5 DEF Moves, Lay, s

LEMMA TransposeMoves ==
  ASSUME Configured, NEW o \in Orders, NEW t \in Orders, NEW dims,
         dims = <<Extent(o[1]), Extent(o[2]), Extent(o[3])>>,
         NEW src, NEW dst, src # dst, NEW done
  PROVE  Moves(Transpose(t, dims, src, dst), Lay(src, o, done), Lay(dst, Reordered(o, t), done))
<1> DEFINE s == Transpose(t, dims, src, dst)
<1>1. /\ s.op = "perm" /\ s.order = t /\ s.dims = dims /\ s.src = src /\ s.dst = dst
  BY DEF Transpose
<1> HIDE DEF s
<1>2. Permutes(s, o, Reordered(o, t))
  BY <1>1, TransposePermutes
<1> QED
  BY <1>1, <1>2 DEF Moves, Lay, s

LEMMA RowsMove ==
  ASSUME Configured, cfg.perBlock <= cfg.pack,
         NEW u, NEW v, NEW a, <<u, v, a>> \in Orders,
         NEW src, NEW dst, src # dst, NEW done, a \notin done
  PROVE  Moves(Rows(a, src, dst), Lay(src, <<u, v, a>>, done),
               Lay(dst, <<u, v, a>>, done \cup {a}))
<1>1. Insert(u, v, a, 3) = <<u, v, a>> /\ 1 = SpanOf(u, v, 3) /\ 3 \in 1 .. 3
  BY DEF Insert, SpanOf
<1>2. Moves(Lines(a, 1, src, dst), Lay(src, Insert(u, v, a, 3), done),
            Lay(dst, Insert(u, v, a, 3), done \cup {a}))
  BY <1>1, LinesMove
<1> QED
  BY <1>1, <1>2 DEF Rows

LEMMA InnerMoves ==
  ASSUME Configured, cfg.perBlock <= cfg.pack, cfg.batch = 1, n0 % cfg.pack = 0,
         NEW src, NEW dst, src # dst, NEW done, 1 \notin done
  PROVE  Moves(PermutedStore("inner", 1, n2, src, dst), Lay(src, <<0, 2, 1>>, done),
               Lay(dst, <<1, 2, 0>>, done \cup {1}))
<1> DEFINE s == PermutedStore("inner", 1, n2, src, dst)
<1>1. /\ s.op = "fft" /\ s.axes = <<1>> /\ s.load = "rows" /\ s.store = "inner"
      /\ s.span = n2 /\ s.src = src /\ s.dst = dst
  BY DEF PermutedStore
<1> HIDE DEF s
<1>2. Over(s) = {1}
  BY <1>1 DEF Over
<1>3. Carries(s, <<0, 2, 1>>, <<1, 2, 0>>)
  BY <1>1, InnerCarries
<1>4. Fresh(s, done) /\ After(s, done) = done \cup {1}
  BY <1>2 DEF Fresh, After
<1> QED
  BY <1>1, <1>3, <1>4 DEF Moves, Lay, s

LEMMA PlaneMoves ==
  ASSUME Configured, cfg.perBlock <= cfg.pack, NEW src, NEW dst, src # dst
  PROVE  /\ Moves(SquarePlane(src, dst), Lay(src, <<0, 1, 2>>, {}),
                  Lay(dst, <<0, 1, 2>>, {1, 2}))
         /\ Moves(RectPlane(src, dst), Lay(src, <<0, 1, 2>>, {}),
                  Lay(dst, <<0, 2, 1>>, {0, 2}))
<1>1. Moves(SquarePlane(src, dst), Lay(src, <<0, 1, 2>>, {}), Lay(dst, <<0, 1, 2>>, {1, 2}))
  <2> DEFINE s == SquarePlane(src, dst)
  <2>1. /\ s.op = "fft" /\ s.axes = <<1, 2>> /\ s.load = "rows" /\ s.store = "strided"
        /\ s.span = 1 /\ s.src = src /\ s.dst = dst
    BY DEF SquarePlane
  <2> HIDE DEF s
  <2>2. Over(s) = {1, 2}
    BY <2>1 DEF Over
  <2>3. <<0, 1, 2>> \in Orders
    BY DEF Orders
  <2>4. NBatch(s) \in Nat
    BY <2>1, <2>3, PlaneCounts DEF Pos
  <2>5. Carries(s, <<0, 1, 2>>, <<0, 1, 2>>)
    BY <2>1, <2>4, EveryRow, SquareCarries
  <2>6. Fresh(s, {}) /\ After(s, {}) = {1, 2}
    BY <2>2 DEF Fresh, After
  <2> QED
    BY <2>1, <2>5, <2>6 DEF Moves, Lay, s
<1>2. Moves(RectPlane(src, dst), Lay(src, <<0, 1, 2>>, {}), Lay(dst, <<0, 2, 1>>, {0, 2}))
  <2> DEFINE s == RectPlane(src, dst)
  <2>1. /\ s.op = "fft" /\ s.axes = <<0, 2>> /\ s.load = "rect" /\ s.store = "outer"
        /\ s.span = n1 /\ s.src = src /\ s.dst = dst
    BY DEF RectPlane, n1
  <2> HIDE DEF s
  <2>2. Over(s) = {0, 2}
    BY <2>1 DEF Over
  <2>3. <<1, 0, 2>> \in Orders
    BY DEF Orders
  <2>4. NBatch(s) \in Nat
    BY <2>1, <2>3, PlaneCounts DEF Pos
  <2>5. Carries(s, <<0, 1, 2>>, <<0, 2, 1>>)
    BY <2>1, <2>4, EveryRow, RectCarries
  <2>6. Fresh(s, {}) /\ After(s, {}) = {0, 2}
    BY <2>2 DEF Fresh, After
  <2> QED
    BY <2>1, <2>5, <2>6 DEF Moves, Lay, s
<1> QED
  BY <1>1, <1>2

\* The launches of the nodes.
LEMMA RowLaunches ==
  ASSUME Configured, cfg.perBlock <= cfg.pack, NEW src, NEW dst, src # dst
  PROVE  /\ Moves(Rows(2, src, dst), Lay(src, <<0, 1, 2>>, {}),
                  Lay(dst, <<0, 1, 2>>, {2}))
         /\ Moves(Rows(2, src, dst), Lay(src, <<0, 1, 2>>, {0, 1}),
                  Lay(dst, <<0, 1, 2>>, Axes))
         /\ Moves(Rows(1, src, dst), Lay(src, <<0, 2, 1>>, {2}),
                  Lay(dst, <<0, 2, 1>>, {1, 2}))
         /\ Moves(Rows(1, src, dst), Lay(src, <<0, 2, 1>>, {0}),
                  Lay(dst, <<0, 2, 1>>, {0, 1}))
         /\ Moves(Rows(1, src, dst), Lay(src, <<0, 2, 1>>, {0, 2}),
                  Lay(dst, <<0, 2, 1>>, Axes))
         /\ Moves(Rows(0, src, dst), Lay(src, <<1, 2, 0>>, {}),
                  Lay(dst, <<1, 2, 0>>, {0}))
         /\ Moves(Rows(0, src, dst), Lay(src, <<1, 2, 0>>, {1, 2}),
                  Lay(dst, <<1, 2, 0>>, Axes))
         /\ Moves(Lines(1, n2, src, dst), Lay(src, <<0, 1, 2>>, {2}),
                  Lay(dst, <<0, 1, 2>>, {1, 2}))
         /\ Moves(Lines(0, n1 * n2, src, dst), Lay(src, <<0, 1, 2>>, {1, 2}),
                  Lay(dst, <<0, 1, 2>>, Axes))
         /\ Moves(PermutedStore("outer", 2, n1, src, dst), Lay(src, <<0, 1, 2>>, {}),
                  Lay(dst, <<0, 2, 1>>, {2}))
         /\ Moves(PermutedStore("outer", 2, n0 * n1, src, dst), Lay(src, <<0, 1, 2>>, {}),
                  Lay(dst, <<2, 0, 1>>, {2}))
         /\ Moves(PermutedStore("outer", 1, n0 * n2, src, dst), Lay(src, <<2, 0, 1>>, {2}),
                  Lay(dst, <<1, 2, 0>>, {1, 2}))
         /\ Moves(PermutedStore("outer", 0, n1 * n2, src, dst), Lay(src, <<1, 2, 0>>, {1, 2}),
                  Lay(dst, <<0, 1, 2>>, Axes))
<1>1. Moves(Rows(2, src, dst), Lay(src, <<0, 1, 2>>, {}),
           Lay(dst, <<0, 1, 2>>, {2}))
  <2>1. <<0, 1, 2>> \in Orders /\ 2 \notin {} /\ {} \cup {2} = {2}
    BY DEF Orders, Axes
  <2>2. Moves(Rows(2, src, dst), Lay(src, <<0, 1, 2>>, {}), Lay(dst, <<0, 1, 2>>, {} \cup {2}))
    BY <2>1, RowsMove
  <2> QED
    BY <2>1, <2>2
<1>2. Moves(Rows(2, src, dst), Lay(src, <<0, 1, 2>>, {0, 1}),
           Lay(dst, <<0, 1, 2>>, Axes))
  <2>1. <<0, 1, 2>> \in Orders /\ 2 \notin {0, 1} /\ {0, 1} \cup {2} = Axes
    BY DEF Orders, Axes
  <2>2. Moves(Rows(2, src, dst), Lay(src, <<0, 1, 2>>, {0, 1}), Lay(dst, <<0, 1, 2>>, {0, 1} \cup {2}))
    BY <2>1, RowsMove
  <2> QED
    BY <2>1, <2>2
<1>3. Moves(Rows(1, src, dst), Lay(src, <<0, 2, 1>>, {2}),
           Lay(dst, <<0, 2, 1>>, {1, 2}))
  <2>1. <<0, 2, 1>> \in Orders /\ 1 \notin {2} /\ {2} \cup {1} = {1, 2}
    BY DEF Orders, Axes
  <2>2. Moves(Rows(1, src, dst), Lay(src, <<0, 2, 1>>, {2}), Lay(dst, <<0, 2, 1>>, {2} \cup {1}))
    BY <2>1, RowsMove
  <2> QED
    BY <2>1, <2>2
<1>4. Moves(Rows(1, src, dst), Lay(src, <<0, 2, 1>>, {0}),
           Lay(dst, <<0, 2, 1>>, {0, 1}))
  <2>1. <<0, 2, 1>> \in Orders /\ 1 \notin {0} /\ {0} \cup {1} = {0, 1}
    BY DEF Orders, Axes
  <2>2. Moves(Rows(1, src, dst), Lay(src, <<0, 2, 1>>, {0}), Lay(dst, <<0, 2, 1>>, {0} \cup {1}))
    BY <2>1, RowsMove
  <2> QED
    BY <2>1, <2>2
<1>5. Moves(Rows(1, src, dst), Lay(src, <<0, 2, 1>>, {0, 2}),
           Lay(dst, <<0, 2, 1>>, Axes))
  <2>1. <<0, 2, 1>> \in Orders /\ 1 \notin {0, 2} /\ {0, 2} \cup {1} = Axes
    BY DEF Orders, Axes
  <2>2. Moves(Rows(1, src, dst), Lay(src, <<0, 2, 1>>, {0, 2}), Lay(dst, <<0, 2, 1>>, {0, 2} \cup {1}))
    BY <2>1, RowsMove
  <2> QED
    BY <2>1, <2>2
<1>6. Moves(Rows(0, src, dst), Lay(src, <<1, 2, 0>>, {}),
           Lay(dst, <<1, 2, 0>>, {0}))
  <2>1. <<1, 2, 0>> \in Orders /\ 0 \notin {} /\ {} \cup {0} = {0}
    BY DEF Orders, Axes
  <2>2. Moves(Rows(0, src, dst), Lay(src, <<1, 2, 0>>, {}), Lay(dst, <<1, 2, 0>>, {} \cup {0}))
    BY <2>1, RowsMove
  <2> QED
    BY <2>1, <2>2
<1>7. Moves(Rows(0, src, dst), Lay(src, <<1, 2, 0>>, {1, 2}),
           Lay(dst, <<1, 2, 0>>, Axes))
  <2>1. <<1, 2, 0>> \in Orders /\ 0 \notin {1, 2} /\ {1, 2} \cup {0} = Axes
    BY DEF Orders, Axes
  <2>2. Moves(Rows(0, src, dst), Lay(src, <<1, 2, 0>>, {1, 2}), Lay(dst, <<1, 2, 0>>, {1, 2} \cup {0}))
    BY <2>1, RowsMove
  <2> QED
    BY <2>1, <2>2
<1>8. Moves(Lines(1, n2, src, dst), Lay(src, <<0, 1, 2>>, {2}),
           Lay(dst, <<0, 1, 2>>, {1, 2}))
  <2>1. <<0, 2, 1>> \in Orders /\ 2 \in 1 .. 3 /\ 1 \notin {2} /\ {2} \cup {1} = {1, 2}
    BY DEF Orders, Axes
  <2>2. Insert(0, 2, 1, 2) = <<0, 1, 2>> /\ n2 = SpanOf(0, 2, 2)
    BY Sizes DEF Insert, SpanOf, Pos
  <2>3. Moves(Lines(1, n2, src, dst), Lay(src, Insert(0, 2, 1, 2), {2}),
              Lay(dst, Insert(0, 2, 1, 2), {2} \cup {1}))
    BY <2>1, <2>2, LinesMove
  <2> QED
    BY <2>1, <2>2, <2>3
<1>9. Moves(Lines(0, n1 * n2, src, dst), Lay(src, <<0, 1, 2>>, {1, 2}),
           Lay(dst, <<0, 1, 2>>, Axes))
  <2>1. <<1, 2, 0>> \in Orders /\ 1 \in 1 .. 3 /\ 0 \notin {1, 2} /\ {1, 2} \cup {0} = Axes
    BY DEF Orders, Axes
  <2>2. Insert(1, 2, 0, 1) = <<0, 1, 2>> /\ n1 * n2 = SpanOf(1, 2, 1)
    BY Sizes DEF Insert, SpanOf, Pos
  <2>3. Moves(Lines(0, n1 * n2, src, dst), Lay(src, Insert(1, 2, 0, 1), {1, 2}),
              Lay(dst, Insert(1, 2, 0, 1), {1, 2} \cup {0}))
    BY <2>1, <2>2, LinesMove
  <2> QED
    BY <2>1, <2>2, <2>3
<1>10. Moves(PermutedStore("outer", 2, n1, src, dst), Lay(src, <<0, 1, 2>>, {}),
           Lay(dst, <<0, 2, 1>>, {2}))
  <2>1. <<0, 1, 2>> \in Orders /\ 2 \in 1 .. 3 /\ 2 \notin {} /\ {} \cup {2} = {2}
    BY DEF Orders, Axes
  <2>2. Insert(0, 1, 2, 2) = <<0, 2, 1>> /\ n1 = SpanOf(0, 1, 2)
    BY Sizes DEF Insert, SpanOf, Pos
  <2>3. Moves(PermutedStore("outer", 2, n1, src, dst), Lay(src, <<0, 1, 2>>, {}),
              Lay(dst, Insert(0, 1, 2, 2), {} \cup {2}))
    BY <2>1, <2>2, StoreMoves
  <2> QED
    BY <2>1, <2>2, <2>3
<1>11. Moves(PermutedStore("outer", 2, n0 * n1, src, dst), Lay(src, <<0, 1, 2>>, {}),
           Lay(dst, <<2, 0, 1>>, {2}))
  <2>1. <<0, 1, 2>> \in Orders /\ 1 \in 1 .. 3 /\ 2 \notin {} /\ {} \cup {2} = {2}
    BY DEF Orders, Axes
  <2>2. Insert(0, 1, 2, 1) = <<2, 0, 1>> /\ n0 * n1 = SpanOf(0, 1, 1)
    BY Sizes DEF Insert, SpanOf, Pos
  <2>3. Moves(PermutedStore("outer", 2, n0 * n1, src, dst), Lay(src, <<0, 1, 2>>, {}),
              Lay(dst, Insert(0, 1, 2, 1), {} \cup {2}))
    BY <2>1, <2>2, StoreMoves
  <2> QED
    BY <2>1, <2>2, <2>3
<1>12. Moves(PermutedStore("outer", 1, n0 * n2, src, dst), Lay(src, <<2, 0, 1>>, {2}),
           Lay(dst, <<1, 2, 0>>, {1, 2}))
  <2>1. <<2, 0, 1>> \in Orders /\ 1 \in 1 .. 3 /\ 1 \notin {2} /\ {2} \cup {1} = {1, 2}
    BY DEF Orders, Axes
  <2>2. Insert(2, 0, 1, 1) = <<1, 2, 0>> /\ n0 * n2 = SpanOf(2, 0, 1)
    BY Sizes DEF Insert, SpanOf, Pos
  <2>3. Moves(PermutedStore("outer", 1, n0 * n2, src, dst), Lay(src, <<2, 0, 1>>, {2}),
              Lay(dst, Insert(2, 0, 1, 1), {2} \cup {1}))
    BY <2>1, <2>2, StoreMoves
  <2> QED
    BY <2>1, <2>2, <2>3
<1>13. Moves(PermutedStore("outer", 0, n1 * n2, src, dst), Lay(src, <<1, 2, 0>>, {1, 2}),
           Lay(dst, <<0, 1, 2>>, Axes))
  <2>1. <<1, 2, 0>> \in Orders /\ 1 \in 1 .. 3 /\ 0 \notin {1, 2} /\ {1, 2} \cup {0} = Axes
    BY DEF Orders, Axes
  <2>2. Insert(1, 2, 0, 1) = <<0, 1, 2>> /\ n1 * n2 = SpanOf(1, 2, 1)
    BY Sizes DEF Insert, SpanOf, Pos
  <2>3. Moves(PermutedStore("outer", 0, n1 * n2, src, dst), Lay(src, <<1, 2, 0>>, {1, 2}),
              Lay(dst, Insert(1, 2, 0, 1), {1, 2} \cup {0}))
    BY <2>1, <2>2, StoreMoves
  <2> QED
    BY <2>1, <2>2, <2>3
<1> QED
  BY <1>1, <1>2, <1>3, <1>4, <1>5, <1>6, <1>7, <1>8, <1>9, <1>10, <1>11, <1>12, <1>13

LEMMA TransposeLaunches ==
  ASSUME Configured, NEW src, NEW dst, src # dst, NEW done
  PROVE  /\ Moves(Transpose(<<0, 2, 1>>, <<n0, n1, n2>>, src, dst), Lay(src, <<0, 1, 2>>, done),
                  Lay(dst, <<0, 2, 1>>, done))
         /\ Moves(Transpose(<<0, 2, 1>>, <<n0, n2, n1>>, src, dst), Lay(src, <<0, 2, 1>>, done),
                  Lay(dst, <<0, 1, 2>>, done))
         /\ Moves(Transpose(<<2, 1, 0>>, <<n0, n2, n1>>, src, dst), Lay(src, <<0, 2, 1>>, done),
                  Lay(dst, <<1, 2, 0>>, done))
         /\ Moves(Transpose(<<2, 1, 0>>, <<n1, n2, n0>>, src, dst), Lay(src, <<1, 2, 0>>, done),
                  Lay(dst, <<0, 2, 1>>, done))
         /\ Moves(Transpose(<<2, 0, 1>>, <<n1, n2, n0>>, src, dst), Lay(src, <<1, 2, 0>>, done),
                  Lay(dst, <<0, 1, 2>>, done))
         /\ Moves(Transpose(<<1, 2, 0>>, <<n0, n1, n2>>, src, dst), Lay(src, <<0, 1, 2>>, done),
                  Lay(dst, <<1, 2, 0>>, done))
<1>1. Moves(Transpose(<<0, 2, 1>>, <<n0, n1, n2>>, src, dst), Lay(src, <<0, 1, 2>>, done),
           Lay(dst, <<0, 2, 1>>, done))
  <2> DEFINE o == <<0, 1, 2>>  t == <<0, 2, 1>>  dims == <<n0, n1, n2>>
  <2>1. /\ o \in Orders /\ t \in Orders /\ Reordered(o, t) = <<0, 2, 1>>
        /\ dims = <<Extent(o[1]), Extent(o[2]), Extent(o[3])>>
    BY Sizes DEF Orders, Reordered
  <2> HIDE DEF o, t, dims
  <2>2. Moves(Transpose(t, dims, src, dst), Lay(src, o, done), Lay(dst, Reordered(o, t), done))
    BY <2>1, TransposeMoves
  <2> QED
    BY <2>1, <2>2 DEF o, t, dims
<1>2. Moves(Transpose(<<0, 2, 1>>, <<n0, n2, n1>>, src, dst), Lay(src, <<0, 2, 1>>, done),
           Lay(dst, <<0, 1, 2>>, done))
  <2> DEFINE o == <<0, 2, 1>>  t == <<0, 2, 1>>  dims == <<n0, n2, n1>>
  <2>1. /\ o \in Orders /\ t \in Orders /\ Reordered(o, t) = <<0, 1, 2>>
        /\ dims = <<Extent(o[1]), Extent(o[2]), Extent(o[3])>>
    BY Sizes DEF Orders, Reordered
  <2> HIDE DEF o, t, dims
  <2>2. Moves(Transpose(t, dims, src, dst), Lay(src, o, done), Lay(dst, Reordered(o, t), done))
    BY <2>1, TransposeMoves
  <2> QED
    BY <2>1, <2>2 DEF o, t, dims
<1>3. Moves(Transpose(<<2, 1, 0>>, <<n0, n2, n1>>, src, dst), Lay(src, <<0, 2, 1>>, done),
           Lay(dst, <<1, 2, 0>>, done))
  <2> DEFINE o == <<0, 2, 1>>  t == <<2, 1, 0>>  dims == <<n0, n2, n1>>
  <2>1. /\ o \in Orders /\ t \in Orders /\ Reordered(o, t) = <<1, 2, 0>>
        /\ dims = <<Extent(o[1]), Extent(o[2]), Extent(o[3])>>
    BY Sizes DEF Orders, Reordered
  <2> HIDE DEF o, t, dims
  <2>2. Moves(Transpose(t, dims, src, dst), Lay(src, o, done), Lay(dst, Reordered(o, t), done))
    BY <2>1, TransposeMoves
  <2> QED
    BY <2>1, <2>2 DEF o, t, dims
<1>4. Moves(Transpose(<<2, 1, 0>>, <<n1, n2, n0>>, src, dst), Lay(src, <<1, 2, 0>>, done),
           Lay(dst, <<0, 2, 1>>, done))
  <2> DEFINE o == <<1, 2, 0>>  t == <<2, 1, 0>>  dims == <<n1, n2, n0>>
  <2>1. /\ o \in Orders /\ t \in Orders /\ Reordered(o, t) = <<0, 2, 1>>
        /\ dims = <<Extent(o[1]), Extent(o[2]), Extent(o[3])>>
    BY Sizes DEF Orders, Reordered
  <2> HIDE DEF o, t, dims
  <2>2. Moves(Transpose(t, dims, src, dst), Lay(src, o, done), Lay(dst, Reordered(o, t), done))
    BY <2>1, TransposeMoves
  <2> QED
    BY <2>1, <2>2 DEF o, t, dims
<1>5. Moves(Transpose(<<2, 0, 1>>, <<n1, n2, n0>>, src, dst), Lay(src, <<1, 2, 0>>, done),
           Lay(dst, <<0, 1, 2>>, done))
  <2> DEFINE o == <<1, 2, 0>>  t == <<2, 0, 1>>  dims == <<n1, n2, n0>>
  <2>1. /\ o \in Orders /\ t \in Orders /\ Reordered(o, t) = <<0, 1, 2>>
        /\ dims = <<Extent(o[1]), Extent(o[2]), Extent(o[3])>>
    BY Sizes DEF Orders, Reordered
  <2> HIDE DEF o, t, dims
  <2>2. Moves(Transpose(t, dims, src, dst), Lay(src, o, done), Lay(dst, Reordered(o, t), done))
    BY <2>1, TransposeMoves
  <2> QED
    BY <2>1, <2>2 DEF o, t, dims
<1>6. Moves(Transpose(<<1, 2, 0>>, <<n0, n1, n2>>, src, dst), Lay(src, <<0, 1, 2>>, done),
           Lay(dst, <<1, 2, 0>>, done))
  <2> DEFINE o == <<0, 1, 2>>  t == <<1, 2, 0>>  dims == <<n0, n1, n2>>
  <2>1. /\ o \in Orders /\ t \in Orders /\ Reordered(o, t) = <<1, 2, 0>>
        /\ dims = <<Extent(o[1]), Extent(o[2]), Extent(o[3])>>
    BY Sizes DEF Orders, Reordered
  <2> HIDE DEF o, t, dims
  <2>2. Moves(Transpose(t, dims, src, dst), Lay(src, o, done), Lay(dst, Reordered(o, t), done))
    BY <2>1, TransposeMoves
  <2> QED
    BY <2>1, <2>2 DEF o, t, dims
<1> QED
  BY <1>1, <1>2, <1>3, <1>4, <1>5, <1>6
-----------------------------------------------------------------------------
(* Routes: the layouts a node's launches take its data through.            *)

Start == Lay("in", <<0, 1, 2>>, {})
End == Lay(Out, <<0, 1, 2>>, Axes)

\* Where the data lies before each launch, and after the last.  The launches of
\* a node write to temporaries until the last one writes the caller's output.
Held ==
  CASE cfg.kind \in {"rtrt", "hybrid_first_last"} ->
           <<Start,
             Lay("t1", <<0, 1, 2>>, {2}),
             Lay("t2", <<0, 2, 1>>, {2}),
             Lay("t1", <<0, 2, 1>>, {1, 2}),
             Lay("t2", <<1, 2, 0>>, {1, 2}),
             Lay("t1", <<1, 2, 0>>, Axes),
             End>>
    [] cfg.kind = "rtrt_inverse" ->
           <<Start,
             Lay("t1", <<1, 2, 0>>, {}),
             Lay("t2", <<1, 2, 0>>, {0}),
             Lay("t1", <<0, 2, 1>>, {0}),
             Lay("t2", <<0, 2, 1>>, {0, 1}),
             Lay("t1", <<0, 1, 2>>, {0, 1}),
             End>>
    [] cfg.kind \in {"final_store", "hybrid_first"} ->
           <<Start,
             Lay("t1", <<0, 1, 2>>, {2}),
             Lay("t2", <<0, 2, 1>>, {2}),
             Lay("t1", <<0, 2, 1>>, {1, 2}),
             Lay("t2", <<1, 2, 0>>, {1, 2}),
             End>>
    [] cfg.kind = "pair_store" ->
           <<Start,
             Lay("t1", <<2, 0, 1>>, {2}),
             Lay("t2", <<1, 2, 0>>, {1, 2}),
             End>>
    [] cfg.kind = "chain" ->
           <<Start,
             Lay("t1", <<0, 2, 1>>, {2}),
             Lay("t2", <<1, 2, 0>>, {1, 2}),
             End>>
    [] cfg.kind = "chain_last" ->
           <<Start,
             Lay("t1", <<0, 2, 1>>, {2}),
             Lay("t2", <<1, 2, 0>>, {1, 2}),
             Lay("t1", <<1, 2, 0>>, Axes),
             End>>
    [] cfg.kind = "hybrid" ->
           <<Start,
             Lay("t1", <<0, 2, 1>>, {2}),
             Lay("t2", <<0, 2, 1>>, {1, 2}),
             Lay("t1", <<1, 2, 0>>, {1, 2}),
             End>>
    [] cfg.kind = "hybrid_last" ->
           <<Start,
             Lay("t1", <<0, 2, 1>>, {2}),
             Lay("t2", <<0, 2, 1>>, {1, 2}),
             Lay("t1", <<1, 2, 0>>, {1, 2}),
             Lay("t2", <<1, 2, 0>>, Axes),
             End>>
    [] cfg.kind = "strided" ->
           <<Start,
             Lay("t1", <<0, 1, 2>>, {2}),
             Lay("t2", <<0, 1, 2>>, {1, 2}),
             End>>
    [] cfg.kind = "fused_plane" ->
           <<Start,
             Lay("t1", <<0, 1, 2>>, {1, 2}),
             End>>
    [] cfg.kind = "prime_plane" ->
           <<Start,
             Lay("t1", <<0, 2, 1>>, {0, 2}),
             Lay("t2", <<0, 2, 1>>, Axes),
             End>>

Layouts == [buf : Buffers, order : Orders, done : SUBSET Axes]

Route(launches, lays) ==
  /\ Len(launches) \in 1 .. 6 /\ Len(lays) = Len(launches) + 1
  /\ lays[1] = Start /\ lays[Len(launches) + 1] = End
  /\ \A n \in 1 .. Len(launches) :
       /\ Moves(launches[n], lays[n], lays[n + 1])
       /\ lays[n] \in Layouts /\ lays[n + 1] \in Layouts

LEMMA Route2 ==
  ASSUME NEW s1, NEW s2,
         NEW h1 \in Layouts, NEW h2 \in Layouts, NEW h3 \in Layouts,
         h1 = Start, h3 = End,
         Moves(s1, h1, h2), Moves(s2, h2, h3)
  PROVE  Route(<<s1, s2>>, <<h1, h2, h3>>)
<1> DEFINE P == <<s1, s2>>  H == <<h1, h2, h3>>
<1>1. Len(P) = 2 /\ Len(H) = 3 /\ H[1] = Start /\ H[3] = End
  OBVIOUS
<1>2. ASSUME NEW n \in 1 .. 2
      PROVE  Moves(P[n], H[n], H[n + 1]) /\ H[n] \in Layouts /\ H[n + 1] \in Layouts
  <2>1. n = 1 \/ n = 2
    OBVIOUS
  <2>2. CASE n = 1
    <3>1. P[n] = s1 /\ H[n] = h1 /\ H[n + 1] = h2
      BY <2>2
    <3> HIDE DEF P, H
    <3> QED
      BY <3>1
  <2>3. CASE n = 2
    <3>1. P[n] = s2 /\ H[n] = h2 /\ H[n + 1] = h3
      BY <2>3
    <3> HIDE DEF P, H
    <3> QED
      BY <3>1
  <2> HIDE DEF P, H
  <2> QED
    BY <2>1, <2>2, <2>3
<1> HIDE DEF P, H
<1>3. Route(P, H)
  BY <1>1, <1>2 DEF Route
<1> QED
  BY <1>3 DEF P, H

LEMMA Route3 ==
  ASSUME NEW s1, NEW s2, NEW s3,
         NEW h1 \in Layouts, NEW h2 \in Layouts, NEW h3 \in Layouts,
         NEW h4 \in Layouts,
         h1 = Start, h4 = End,
         Moves(s1, h1, h2), Moves(s2, h2, h3), Moves(s3, h3, h4)
  PROVE  Route(<<s1, s2, s3>>, <<h1, h2, h3, h4>>)
<1> DEFINE P == <<s1, s2, s3>>  H == <<h1, h2, h3, h4>>
<1>1. Len(P) = 3 /\ Len(H) = 4 /\ H[1] = Start /\ H[4] = End
  OBVIOUS
<1>2. ASSUME NEW n \in 1 .. 3
      PROVE  Moves(P[n], H[n], H[n + 1]) /\ H[n] \in Layouts /\ H[n + 1] \in Layouts
  <2>1. n = 1 \/ n = 2 \/ n = 3
    OBVIOUS
  <2>2. CASE n = 1
    <3>1. P[n] = s1 /\ H[n] = h1 /\ H[n + 1] = h2
      BY <2>2
    <3> HIDE DEF P, H
    <3> QED
      BY <3>1
  <2>3. CASE n = 2
    <3>1. P[n] = s2 /\ H[n] = h2 /\ H[n + 1] = h3
      BY <2>3
    <3> HIDE DEF P, H
    <3> QED
      BY <3>1
  <2>4. CASE n = 3
    <3>1. P[n] = s3 /\ H[n] = h3 /\ H[n + 1] = h4
      BY <2>4
    <3> HIDE DEF P, H
    <3> QED
      BY <3>1
  <2> HIDE DEF P, H
  <2> QED
    BY <2>1, <2>2, <2>3, <2>4
<1> HIDE DEF P, H
<1>3. Route(P, H)
  BY <1>1, <1>2 DEF Route
<1> QED
  BY <1>3 DEF P, H

LEMMA Route4 ==
  ASSUME NEW s1, NEW s2, NEW s3, NEW s4,
         NEW h1 \in Layouts, NEW h2 \in Layouts, NEW h3 \in Layouts,
         NEW h4 \in Layouts, NEW h5 \in Layouts,
         h1 = Start, h5 = End,
         Moves(s1, h1, h2), Moves(s2, h2, h3), Moves(s3, h3, h4),
         Moves(s4, h4, h5)
  PROVE  Route(<<s1, s2, s3, s4>>, <<h1, h2, h3, h4, h5>>)
<1> DEFINE P == <<s1, s2, s3, s4>>  H == <<h1, h2, h3, h4, h5>>
<1>1. Len(P) = 4 /\ Len(H) = 5 /\ H[1] = Start /\ H[5] = End
  OBVIOUS
<1>2. ASSUME NEW n \in 1 .. 4
      PROVE  Moves(P[n], H[n], H[n + 1]) /\ H[n] \in Layouts /\ H[n + 1] \in Layouts
  <2>1. n = 1 \/ n = 2 \/ n = 3 \/ n = 4
    OBVIOUS
  <2>2. CASE n = 1
    <3>1. P[n] = s1 /\ H[n] = h1 /\ H[n + 1] = h2
      BY <2>2
    <3> HIDE DEF P, H
    <3> QED
      BY <3>1
  <2>3. CASE n = 2
    <3>1. P[n] = s2 /\ H[n] = h2 /\ H[n + 1] = h3
      BY <2>3
    <3> HIDE DEF P, H
    <3> QED
      BY <3>1
  <2>4. CASE n = 3
    <3>1. P[n] = s3 /\ H[n] = h3 /\ H[n + 1] = h4
      BY <2>4
    <3> HIDE DEF P, H
    <3> QED
      BY <3>1
  <2>5. CASE n = 4
    <3>1. P[n] = s4 /\ H[n] = h4 /\ H[n + 1] = h5
      BY <2>5
    <3> HIDE DEF P, H
    <3> QED
      BY <3>1
  <2> HIDE DEF P, H
  <2> QED
    BY <2>1, <2>2, <2>3, <2>4, <2>5
<1> HIDE DEF P, H
<1>3. Route(P, H)
  BY <1>1, <1>2 DEF Route
<1> QED
  BY <1>3 DEF P, H

LEMMA Route5 ==
  ASSUME NEW s1, NEW s2, NEW s3, NEW s4, NEW s5,
         NEW h1 \in Layouts, NEW h2 \in Layouts, NEW h3 \in Layouts,
         NEW h4 \in Layouts, NEW h5 \in Layouts, NEW h6 \in Layouts,
         h1 = Start, h6 = End,
         Moves(s1, h1, h2), Moves(s2, h2, h3), Moves(s3, h3, h4),
         Moves(s4, h4, h5), Moves(s5, h5, h6)
  PROVE  Route(<<s1, s2, s3, s4, s5>>, <<h1, h2, h3, h4, h5, h6>>)
<1> DEFINE P == <<s1, s2, s3, s4, s5>>  H == <<h1, h2, h3, h4, h5, h6>>
<1>1. Len(P) = 5 /\ Len(H) = 6 /\ H[1] = Start /\ H[6] = End
  OBVIOUS
<1>2. ASSUME NEW n \in 1 .. 5
      PROVE  Moves(P[n], H[n], H[n + 1]) /\ H[n] \in Layouts /\ H[n + 1] \in Layouts
  <2>1. n = 1 \/ n = 2 \/ n = 3 \/ n = 4 \/ n = 5
    OBVIOUS
  <2>2. CASE n = 1
    <3>1. P[n] = s1 /\ H[n] = h1 /\ H[n + 1] = h2
      BY <2>2
    <3> HIDE DEF P, H
    <3> QED
      BY <3>1
  <2>3. CASE n = 2
    <3>1. P[n] = s2 /\ H[n] = h2 /\ H[n + 1] = h3
      BY <2>3
    <3> HIDE DEF P, H
    <3> QED
      BY <3>1
  <2>4. CASE n = 3
    <3>1. P[n] = s3 /\ H[n] = h3 /\ H[n + 1] = h4
      BY <2>4
    <3> HIDE DEF P, H
    <3> QED
      BY <3>1
  <2>5. CASE n = 4
    <3>1. P[n] = s4 /\ H[n] = h4 /\ H[n + 1] = h5
      BY <2>5
    <3> HIDE DEF P, H
    <3> QED
      BY <3>1
  <2>6. CASE n = 5
    <3>1. P[n] = s5 /\ H[n] = h5 /\ H[n + 1] = h6
      BY <2>6
    <3> HIDE DEF P, H
    <3> QED
      BY <3>1
  <2> HIDE DEF P, H
  <2> QED
    BY <2>1, <2>2, <2>3, <2>4, <2>5, <2>6
<1> HIDE DEF P, H
<1>3. Route(P, H)
  BY <1>1, <1>2 DEF Route
<1> QED
  BY <1>3 DEF P, H

LEMMA Route6 ==
  ASSUME NEW s1, NEW s2, NEW s3, NEW s4, NEW s5, NEW s6,
         NEW h1 \in Layouts, NEW h2 \in Layouts, NEW h3 \in Layouts,
         NEW h4 \in Layouts, NEW h5 \in Layouts, NEW h6 \in Layouts,
         NEW h7 \in Layouts,
         h1 = Start, h7 = End,
         Moves(s1, h1, h2), Moves(s2, h2, h3), Moves(s3, h3, h4),
         Moves(s4, h4, h5), Moves(s5, h5, h6), Moves(s6, h6, h7)
  PROVE  Route(<<s1, s2, s3, s4, s5, s6>>, <<h1, h2, h3, h4, h5, h6, h7>>)
<1> DEFINE P == <<s1, s2, s3, s4, s5, s6>>  H == <<h1, h2, h3, h4, h5, h6, h7>>
<1>1. Len(P) = 6 /\ Len(H) = 7 /\ H[1] = Start /\ H[7] = End
  OBVIOUS
<1>2. ASSUME NEW n \in 1 .. 6
      PROVE  Moves(P[n], H[n], H[n + 1]) /\ H[n] \in Layouts /\ H[n + 1] \in Layouts
  <2>1. n = 1 \/ n = 2 \/ n = 3 \/ n = 4 \/ n = 5 \/ n = 6
    OBVIOUS
  <2>2. CASE n = 1
    <3>1. P[n] = s1 /\ H[n] = h1 /\ H[n + 1] = h2
      BY <2>2
    <3> HIDE DEF P, H
    <3> QED
      BY <3>1
  <2>3. CASE n = 2
    <3>1. P[n] = s2 /\ H[n] = h2 /\ H[n + 1] = h3
      BY <2>3
    <3> HIDE DEF P, H
    <3> QED
      BY <3>1
  <2>4. CASE n = 3
    <3>1. P[n] = s3 /\ H[n] = h3 /\ H[n + 1] = h4
      BY <2>4
    <3> HIDE DEF P, H
    <3> QED
      BY <3>1
  <2>5. CASE n = 4
    <3>1. P[n] = s4 /\ H[n] = h4 /\ H[n + 1] = h5
      BY <2>5
    <3> HIDE DEF P, H
    <3> QED
      BY <3>1
  <2>6. CASE n = 5
    <3>1. P[n] = s5 /\ H[n] = h5 /\ H[n + 1] = h6
      BY <2>6
    <3> HIDE DEF P, H
    <3> QED
      BY <3>1
  <2>7. CASE n = 6
    <3>1. P[n] = s6 /\ H[n] = h6 /\ H[n + 1] = h7
      BY <2>7
    <3> HIDE DEF P, H
    <3> QED
      BY <3>1
  <2> HIDE DEF P, H
  <2> QED
    BY <2>1, <2>2, <2>3, <2>4, <2>5, <2>6, <2>7
<1> HIDE DEF P, H
<1>3. Route(P, H)
  BY <1>1, <1>2 DEF Route
<1> QED
  BY <1>3 DEF P, H
-----------------------------------------------------------------------------
(* The nodes.                                                              *)

Nodes == {"pair_store", "fused_plane", "prime_plane", "final_store", "hybrid",
          "hybrid_last", "hybrid_first", "hybrid_first_last", "chain", "chain_last",
          "strided", "rtrt", "rtrt_inverse"}

LEMMA Kinds ==
  ASSUME NEW c, Admits(c)
  PROVE  c.kind \in Nodes \cup {"fused_cube"}
BY DEF Admits, Nodes

\* Only the last launch of a node may write to the caller's input.
Spares(launches) ==
  /\ Len(launches) \in 1 .. 6
  /\ \A n \in 1 .. Len(launches) :
       /\ launches[n].dst \in Buffers
       /\ n < Len(launches) => launches[n].dst # "in"

LEMMA Spares1 ==
  ASSUME NEW s1,
         s1.dst \in {"in", "out"}
  PROVE  Spares(<<s1>>)
<1> DEFINE P == <<s1>>
<1>1. Len(P) = 1
  OBVIOUS
<1>2. P[1] = s1
  OBVIOUS
<1> HIDE DEF P
<1>3. Spares(P)
  BY <1>1, <1>2 DEF Spares, Buffers
<1> QED
  BY <1>3 DEF P

LEMMA Spares2 ==
  ASSUME NEW s1, NEW s2,
         s1.dst \in {"t1", "t2"}, s2.dst \in {"in", "out"}
  PROVE  Spares(<<s1, s2>>)
<1> DEFINE P == <<s1, s2>>
<1>1. Len(P) = 2
  OBVIOUS
<1>2. P[1] = s1 /\ P[2] = s2
  OBVIOUS
<1> HIDE DEF P
<1>3. Spares(P)
  BY <1>1, <1>2 DEF Spares, Buffers
<1> QED
  BY <1>3 DEF P

LEMMA Spares3 ==
  ASSUME NEW s1, NEW s2, NEW s3,
         s1.dst \in {"t1", "t2"}, s2.dst \in {"t1", "t2"}, s3.dst \in {"in", "out"}
  PROVE  Spares(<<s1, s2, s3>>)
<1> DEFINE P == <<s1, s2, s3>>
<1>1. Len(P) = 3
  OBVIOUS
<1>2. P[1] = s1 /\ P[2] = s2 /\ P[3] = s3
  OBVIOUS
<1> HIDE DEF P
<1>3. Spares(P)
  BY <1>1, <1>2 DEF Spares, Buffers
<1> QED
  BY <1>3 DEF P

LEMMA Spares4 ==
  ASSUME NEW s1, NEW s2, NEW s3, NEW s4,
         s1.dst \in {"t1", "t2"}, s2.dst \in {"t1", "t2"}, s3.dst \in {"t1", "t2"},
         s4.dst \in {"in", "out"}
  PROVE  Spares(<<s1, s2, s3, s4>>)
<1> DEFINE P == <<s1, s2, s3, s4>>
<1>1. Len(P) = 4
  OBVIOUS
<1>2. P[1] = s1 /\ P[2] = s2 /\ P[3] = s3 /\ P[4] = s4
  OBVIOUS
<1> HIDE DEF P
<1>3. Spares(P)
  BY <1>1, <1>2 DEF Spares, Buffers
<1> QED
  BY <1>3 DEF P

LEMMA Spares5 ==
  ASSUME NEW s1, NEW s2, NEW s3, NEW s4, NEW s5,
         s1.dst \in {"t1", "t2"}, s2.dst \in {"t1", "t2"}, s3.dst \in {"t1", "t2"},
         s4.dst \in {"t1", "t2"}, s5.dst \in {"in", "out"}
  PROVE  Spares(<<s1, s2, s3, s4, s5>>)
<1> DEFINE P == <<s1, s2, s3, s4, s5>>
<1>1. Len(P) = 5
  OBVIOUS
<1>2. P[1] = s1 /\ P[2] = s2 /\ P[3] = s3 /\ P[4] = s4 /\ P[5] = s5
  OBVIOUS
<1> HIDE DEF P
<1>3. Spares(P)
  BY <1>1, <1>2 DEF Spares, Buffers
<1> QED
  BY <1>3 DEF P

LEMMA Spares6 ==
  ASSUME NEW s1, NEW s2, NEW s3, NEW s4, NEW s5, NEW s6,
         s1.dst \in {"t1", "t2"}, s2.dst \in {"t1", "t2"}, s3.dst \in {"t1", "t2"},
         s4.dst \in {"t1", "t2"}, s5.dst \in {"t1", "t2"}, s6.dst \in {"in", "out"}
  PROVE  Spares(<<s1, s2, s3, s4, s5, s6>>)
<1> DEFINE P == <<s1, s2, s3, s4, s5, s6>>
<1>1. Len(P) = 6
  OBVIOUS
<1>2. P[1] = s1 /\ P[2] = s2 /\ P[3] = s3 /\ P[4] = s4 /\ P[5] = s5 /\ P[6] = s6
  OBVIOUS
<1> HIDE DEF P
<1>3. Spares(P)
  BY <1>1, <1>2 DEF Spares, Buffers
<1> QED
  BY <1>3 DEF P

LEMMA Programs ==
  /\ cfg.kind \in {"rtrt", "hybrid_first_last"} =>
       Program = <<Rows(2, "in", "t1"),
                   Transpose(<<0, 2, 1>>, <<n0, n1, n2>>, "t1", "t2"),
                   Rows(1, "t2", "t1"),
                   Transpose(<<2, 1, 0>>, <<n0, n2, n1>>, "t1", "t2"),
                   Rows(0, "t2", "t1"),
                   Transpose(<<2, 0, 1>>, <<n1, n2, n0>>, "t1", Out)>>
  /\ cfg.kind = "rtrt_inverse" =>
       Program = <<Transpose(<<1, 2, 0>>, <<n0, n1, n2>>, "in", "t1"),
                   Rows(0, "t1", "t2"),
                   Transpose(<<2, 1, 0>>, <<n1, n2, n0>>, "t2", "t1"),
                   Rows(1, "t1", "t2"),
                   Transpose(<<0, 2, 1>>, <<n0, n2, n1>>, "t2", "t1"),
                   Rows(2, "t1", Out)>>
  /\ cfg.kind \in {"final_store", "hybrid_first"} =>
       Program = <<Rows(2, "in", "t1"),
                   Transpose(<<0, 2, 1>>, <<n0, n1, n2>>, "t1", "t2"),
                   Rows(1, "t2", "t1"),
                   Transpose(<<2, 1, 0>>, <<n0, n2, n1>>, "t1", "t2"),
                   PermutedStore("outer", 0, n1 * n2, "t2", Out)>>
  /\ cfg.kind = "pair_store" =>
       Program = <<PermutedStore("outer", 2, n0 * n1, "in", "t1"),
                   PermutedStore("outer", 1, n0 * n2, "t1", "t2"),
                   PermutedStore("outer", 0, n1 * n2, "t2", Out)>>
  /\ cfg.kind = "chain" =>
       Program = <<PermutedStore("outer", 2, n1, "in", "t1"),
                   PermutedStore("inner", 1, n2, "t1", "t2"),
                   PermutedStore("outer", 0, n1 * n2, "t2", Out)>>
  /\ cfg.kind = "chain_last" =>
       Program = <<PermutedStore("outer", 2, n1, "in", "t1"),
                   PermutedStore("inner", 1, n2, "t1", "t2"),
                   Rows(0, "t2", "t1"),
                   Transpose(<<2, 0, 1>>, <<n1, n2, n0>>, "t1", Out)>>
  /\ cfg.kind = "hybrid" =>
       Program = <<PermutedStore("outer", 2, n1, "in", "t1"),
                   Rows(1, "t1", "t2"),
                   Transpose(<<2, 1, 0>>, <<n0, n2, n1>>, "t2", "t1"),
                   PermutedStore("outer", 0, n1 * n2, "t1", Out)>>
  /\ cfg.kind = "hybrid_last" =>
       Program = <<PermutedStore("outer", 2, n1, "in", "t1"),
                   Rows(1, "t1", "t2"),
                   Transpose(<<2, 1, 0>>, <<n0, n2, n1>>, "t2", "t1"),
                   Rows(0, "t1", "t2"),
                   Transpose(<<2, 0, 1>>, <<n1, n2, n0>>, "t2", Out)>>
  /\ cfg.kind = "strided" =>
       Program = <<Rows(2, "in", "t1"),
                   Lines(1, n2, "t1", "t2"),
                   Lines(0, n1 * n2, "t2", Out)>>
  /\ cfg.kind = "fused_plane" =>
       Program = <<SquarePlane("in", "t1"),
                   Lines(0, n1 * n2, "t1", Out)>>
  /\ cfg.kind = "prime_plane" =>
       Program = <<RectPlane("in", "t1"),
                   Rows(1, "t1", "t2"),
                   Transpose(<<0, 2, 1>>, <<n0, n2, n1>>, "t2", Out)>>
<1>1. ASSUME cfg.kind \in {"rtrt", "hybrid_first_last"}
      PROVE  Program = <<Rows(2, "in", "t1"),
                         Transpose(<<0, 2, 1>>, <<n0, n1, n2>>, "t1", "t2"),
                         Rows(1, "t2", "t1"),
                         Transpose(<<2, 1, 0>>, <<n0, n2, n1>>, "t1", "t2"),
                         Rows(0, "t2", "t1"),
                         Transpose(<<2, 0, 1>>, <<n1, n2, n0>>, "t1", Out)>>
  <2>1. CASE cfg.kind = "rtrt"
    BY <2>1 DEF Program, Forward
  <2>2. CASE cfg.kind = "hybrid_first_last"
    <3>1. Program = Hybrid(TRUE, TRUE, TRUE)
      BY <2>2 DEF Program
    <3> QED
      BY <3>1, HybridPrograms, Zenon
  <2> QED
    BY <1>1, <2>1, <2>2
<1>2. ASSUME cfg.kind = "rtrt_inverse"
      PROVE  Program = <<Transpose(<<1, 2, 0>>, <<n0, n1, n2>>, "in", "t1"),
                         Rows(0, "t1", "t2"),
                         Transpose(<<2, 1, 0>>, <<n1, n2, n0>>, "t2", "t1"),
                         Rows(1, "t1", "t2"),
                         Transpose(<<0, 2, 1>>, <<n0, n2, n1>>, "t2", "t1"),
                         Rows(2, "t1", Out)>>
  <2>1. Program = RtrtInverse
    BY <1>2 DEF Program
  <2> QED
    BY <2>1 DEF RtrtInverse
<1>3. ASSUME cfg.kind \in {"final_store", "hybrid_first"}
      PROVE  Program = <<Rows(2, "in", "t1"),
                         Transpose(<<0, 2, 1>>, <<n0, n1, n2>>, "t1", "t2"),
                         Rows(1, "t2", "t1"),
                         Transpose(<<2, 1, 0>>, <<n0, n2, n1>>, "t1", "t2"),
                         PermutedStore("outer", 0, n1 * n2, "t2", Out)>>
  <2>1. CASE cfg.kind = "final_store"
    BY <2>1 DEF Program, FinalStore
  <2>2. CASE cfg.kind = "hybrid_first"
    <3>1. Program = Hybrid(TRUE, TRUE, FALSE)
      BY <2>2 DEF Program
    <3> QED
      BY <3>1, HybridPrograms, Zenon
  <2> QED
    BY <1>3, <2>1, <2>2
<1>4. ASSUME cfg.kind = "pair_store"
      PROVE  Program = <<PermutedStore("outer", 2, n0 * n1, "in", "t1"),
                         PermutedStore("outer", 1, n0 * n2, "t1", "t2"),
                         PermutedStore("outer", 0, n1 * n2, "t2", Out)>>
  BY <1>4 DEF Program, PairStore
<1>5. ASSUME cfg.kind = "chain"
      PROVE  Program = <<PermutedStore("outer", 2, n1, "in", "t1"),
                         PermutedStore("inner", 1, n2, "t1", "t2"),
                         PermutedStore("outer", 0, n1 * n2, "t2", Out)>>
  BY <1>5 DEF Program, Chain
<1>6. ASSUME cfg.kind = "chain_last"
      PROVE  Program = <<PermutedStore("outer", 2, n1, "in", "t1"),
                         PermutedStore("inner", 1, n2, "t1", "t2"),
                         Rows(0, "t2", "t1"),
                         Transpose(<<2, 0, 1>>, <<n1, n2, n0>>, "t1", Out)>>
  <2>1. Program = Hybrid(FALSE, FALSE, TRUE)
    BY <1>6 DEF Program
  <2> QED
    BY <2>1, HybridPrograms, Zenon
<1>7. ASSUME cfg.kind = "hybrid"
      PROVE  Program = <<PermutedStore("outer", 2, n1, "in", "t1"),
                         Rows(1, "t1", "t2"),
                         Transpose(<<2, 1, 0>>, <<n0, n2, n1>>, "t2", "t1"),
                         PermutedStore("outer", 0, n1 * n2, "t1", Out)>>
  <2>1. Program = Hybrid(FALSE, TRUE, FALSE)
    BY <1>7 DEF Program
  <2> QED
    BY <2>1, HybridPrograms, Zenon
<1>8. ASSUME cfg.kind = "hybrid_last"
      PROVE  Program = <<PermutedStore("outer", 2, n1, "in", "t1"),
                         Rows(1, "t1", "t2"),
                         Transpose(<<2, 1, 0>>, <<n0, n2, n1>>, "t2", "t1"),
                         Rows(0, "t1", "t2"),
                         Transpose(<<2, 0, 1>>, <<n1, n2, n0>>, "t2", Out)>>
  <2>1. Program = Hybrid(FALSE, TRUE, TRUE)
    BY <1>8 DEF Program
  <2> QED
    BY <2>1, HybridPrograms, Zenon
<1>9. ASSUME cfg.kind = "strided"
      PROVE  Program = <<Rows(2, "in", "t1"),
                         Lines(1, n2, "t1", "t2"),
                         Lines(0, n1 * n2, "t2", Out)>>
  BY <1>9 DEF Program, Strided
<1>10. ASSUME cfg.kind = "fused_plane"
      PROVE  Program = <<SquarePlane("in", "t1"),
                         Lines(0, n1 * n2, "t1", Out)>>
  BY <1>10 DEF Program, FusedPlane
<1>11. ASSUME cfg.kind = "prime_plane"
      PROVE  Program = <<RectPlane("in", "t1"),
                         Rows(1, "t1", "t2"),
                         Transpose(<<0, 2, 1>>, <<n0, n2, n1>>, "t2", Out)>>
  BY <1>11 DEF Program, PrimePlane
<1> QED
  BY <1>1, <1>2, <1>3, <1>4, <1>5, <1>6, <1>7, <1>8, <1>9, <1>10, <1>11, Zenon

LEMMA CubeProgram ==
  ASSUME cfg.kind = "fused_cube"
  PROVE  Program = <<CubeFft("in", Out)>>
BY DEF Program

\* Every node's launches write to temporaries and then to the output.
LEMMA ProgramSpares ==
  ASSUME Configured, cfg.kind \in Nodes \cup {"fused_cube"}
  PROVE  Spares(Program)
<1> DEFINE temps == {"t1", "t2"}  outs == {"in", "out"}
<1>1. Out \in outs
  BY DEF Out
<1>2. \A a, span, src, dst, form, t, d :
        /\ Lines(a, span, src, dst).dst = dst /\ Rows(a, src, dst).dst = dst
        /\ PermutedStore(form, a, span, src, dst).dst = dst
        /\ SquarePlane(src, dst).dst = dst /\ RectPlane(src, dst).dst = dst
        /\ CubeFft(src, dst).dst = dst /\ Transpose(t, d, src, dst).dst = dst
  BY DEF Lines, Rows, PermutedStore, SquarePlane, RectPlane, CubeFft, Transpose
<1>3. "t1" \in temps /\ "t2" \in temps
  OBVIOUS
<1>4. CASE cfg.kind \in {"rtrt", "hybrid_first_last"}
  <2> DEFINE s1 == Rows(2, "in", "t1")
             s2 == Transpose(<<0, 2, 1>>, <<n0, n1, n2>>, "t1", "t2")
             s3 == Rows(1, "t2", "t1")
             s4 == Transpose(<<2, 1, 0>>, <<n0, n2, n1>>, "t1", "t2")
             s5 == Rows(0, "t2", "t1")
             s6 == Transpose(<<2, 0, 1>>, <<n1, n2, n0>>, "t1", Out)
  <2>1. Program = <<s1, s2, s3, s4, s5, s6>>
    BY <1>4, Programs, Zenon
  <2>2. s1.dst \in temps /\ s2.dst \in temps /\ s3.dst \in temps /\ s4.dst \in temps /\ s5.dst \in temps /\ s6.dst \in outs
    BY <1>1, <1>2, <1>3
  <2> HIDE DEF s1, s2, s3, s4, s5, s6
  <2> QED
    BY <2>1, <2>2, Spares6
<1>5. CASE cfg.kind = "rtrt_inverse"
  <2> DEFINE s1 == Transpose(<<1, 2, 0>>, <<n0, n1, n2>>, "in", "t1")
             s2 == Rows(0, "t1", "t2")
             s3 == Transpose(<<2, 1, 0>>, <<n1, n2, n0>>, "t2", "t1")
             s4 == Rows(1, "t1", "t2")
             s5 == Transpose(<<0, 2, 1>>, <<n0, n2, n1>>, "t2", "t1")
             s6 == Rows(2, "t1", Out)
  <2>1. Program = <<s1, s2, s3, s4, s5, s6>>
    BY <1>5, Programs, Zenon
  <2>2. s1.dst \in temps /\ s2.dst \in temps /\ s3.dst \in temps /\ s4.dst \in temps /\ s5.dst \in temps /\ s6.dst \in outs
    BY <1>1, <1>2, <1>3
  <2> HIDE DEF s1, s2, s3, s4, s5, s6
  <2> QED
    BY <2>1, <2>2, Spares6
<1>6. CASE cfg.kind \in {"final_store", "hybrid_first"}
  <2> DEFINE s1 == Rows(2, "in", "t1")
             s2 == Transpose(<<0, 2, 1>>, <<n0, n1, n2>>, "t1", "t2")
             s3 == Rows(1, "t2", "t1")
             s4 == Transpose(<<2, 1, 0>>, <<n0, n2, n1>>, "t1", "t2")
             s5 == PermutedStore("outer", 0, n1 * n2, "t2", Out)
  <2>1. Program = <<s1, s2, s3, s4, s5>>
    BY <1>6, Programs, Zenon
  <2>2. s1.dst \in temps /\ s2.dst \in temps /\ s3.dst \in temps /\ s4.dst \in temps /\ s5.dst \in outs
    BY <1>1, <1>2, <1>3
  <2> HIDE DEF s1, s2, s3, s4, s5
  <2> QED
    BY <2>1, <2>2, Spares5
<1>7. CASE cfg.kind = "pair_store"
  <2> DEFINE s1 == PermutedStore("outer", 2, n0 * n1, "in", "t1")
             s2 == PermutedStore("outer", 1, n0 * n2, "t1", "t2")
             s3 == PermutedStore("outer", 0, n1 * n2, "t2", Out)
  <2>1. Program = <<s1, s2, s3>>
    BY <1>7, Programs, Zenon
  <2>2. s1.dst \in temps /\ s2.dst \in temps /\ s3.dst \in outs
    BY <1>1, <1>2, <1>3
  <2> HIDE DEF s1, s2, s3
  <2> QED
    BY <2>1, <2>2, Spares3
<1>8. CASE cfg.kind = "chain"
  <2> DEFINE s1 == PermutedStore("outer", 2, n1, "in", "t1")
             s2 == PermutedStore("inner", 1, n2, "t1", "t2")
             s3 == PermutedStore("outer", 0, n1 * n2, "t2", Out)
  <2>1. Program = <<s1, s2, s3>>
    BY <1>8, Programs, Zenon
  <2>2. s1.dst \in temps /\ s2.dst \in temps /\ s3.dst \in outs
    BY <1>1, <1>2, <1>3
  <2> HIDE DEF s1, s2, s3
  <2> QED
    BY <2>1, <2>2, Spares3
<1>9. CASE cfg.kind = "chain_last"
  <2> DEFINE s1 == PermutedStore("outer", 2, n1, "in", "t1")
             s2 == PermutedStore("inner", 1, n2, "t1", "t2")
             s3 == Rows(0, "t2", "t1")
             s4 == Transpose(<<2, 0, 1>>, <<n1, n2, n0>>, "t1", Out)
  <2>1. Program = <<s1, s2, s3, s4>>
    BY <1>9, Programs, Zenon
  <2>2. s1.dst \in temps /\ s2.dst \in temps /\ s3.dst \in temps /\ s4.dst \in outs
    BY <1>1, <1>2, <1>3
  <2> HIDE DEF s1, s2, s3, s4
  <2> QED
    BY <2>1, <2>2, Spares4
<1>10. CASE cfg.kind = "hybrid"
  <2> DEFINE s1 == PermutedStore("outer", 2, n1, "in", "t1")
             s2 == Rows(1, "t1", "t2")
             s3 == Transpose(<<2, 1, 0>>, <<n0, n2, n1>>, "t2", "t1")
             s4 == PermutedStore("outer", 0, n1 * n2, "t1", Out)
  <2>1. Program = <<s1, s2, s3, s4>>
    BY <1>10, Programs, Zenon
  <2>2. s1.dst \in temps /\ s2.dst \in temps /\ s3.dst \in temps /\ s4.dst \in outs
    BY <1>1, <1>2, <1>3
  <2> HIDE DEF s1, s2, s3, s4
  <2> QED
    BY <2>1, <2>2, Spares4
<1>11. CASE cfg.kind = "hybrid_last"
  <2> DEFINE s1 == PermutedStore("outer", 2, n1, "in", "t1")
             s2 == Rows(1, "t1", "t2")
             s3 == Transpose(<<2, 1, 0>>, <<n0, n2, n1>>, "t2", "t1")
             s4 == Rows(0, "t1", "t2")
             s5 == Transpose(<<2, 0, 1>>, <<n1, n2, n0>>, "t2", Out)
  <2>1. Program = <<s1, s2, s3, s4, s5>>
    BY <1>11, Programs, Zenon
  <2>2. s1.dst \in temps /\ s2.dst \in temps /\ s3.dst \in temps /\ s4.dst \in temps /\ s5.dst \in outs
    BY <1>1, <1>2, <1>3
  <2> HIDE DEF s1, s2, s3, s4, s5
  <2> QED
    BY <2>1, <2>2, Spares5
<1>12. CASE cfg.kind = "strided"
  <2> DEFINE s1 == Rows(2, "in", "t1")
             s2 == Lines(1, n2, "t1", "t2")
             s3 == Lines(0, n1 * n2, "t2", Out)
  <2>1. Program = <<s1, s2, s3>>
    BY <1>12, Programs, Zenon
  <2>2. s1.dst \in temps /\ s2.dst \in temps /\ s3.dst \in outs
    BY <1>1, <1>2, <1>3
  <2> HIDE DEF s1, s2, s3
  <2> QED
    BY <2>1, <2>2, Spares3
<1>13. CASE cfg.kind = "fused_plane"
  <2> DEFINE s1 == SquarePlane("in", "t1")
             s2 == Lines(0, n1 * n2, "t1", Out)
  <2>1. Program = <<s1, s2>>
    BY <1>13, Programs, Zenon
  <2>2. s1.dst \in temps /\ s2.dst \in outs
    BY <1>1, <1>2, <1>3
  <2> HIDE DEF s1, s2
  <2> QED
    BY <2>1, <2>2, Spares2
<1>14. CASE cfg.kind = "prime_plane"
  <2> DEFINE s1 == RectPlane("in", "t1")
             s2 == Rows(1, "t1", "t2")
             s3 == Transpose(<<0, 2, 1>>, <<n0, n2, n1>>, "t2", Out)
  <2>1. Program = <<s1, s2, s3>>
    BY <1>14, Programs, Zenon
  <2>2. s1.dst \in temps /\ s2.dst \in temps /\ s3.dst \in outs
    BY <1>1, <1>2, <1>3
  <2> HIDE DEF s1, s2, s3
  <2> QED
    BY <2>1, <2>2, Spares3
<1>15. CASE cfg.kind = "fused_cube"
  <2> DEFINE s1 == CubeFft("in", Out)
  <2>1. Program = <<s1>> /\ s1.dst \in outs
    BY <1>1, <1>2, <1>15, CubeProgram
  <2> HIDE DEF s1
  <2> QED
    BY <2>1, Spares1
<1> QED
  BY <1>4, <1>5, <1>6, <1>7, <1>8, <1>9, <1>10, <1>11, <1>12, <1>13, <1>14, <1>15 DEF Nodes

\* The launches of a node keep to its route.
LEMMA NodeRoute ==
  ASSUME Configured, Sound(cfg), cfg.kind \in Nodes
  PROVE  Route(Program, Held)
<1>1. Configured /\ cfg.perBlock <= cfg.pack
  BY DEF Sound
<1>2. Out \in {"in", "out"}
  BY DEF Out
<1>3. \A src \in Buffers, o \in Orders, d \in SUBSET Axes : Lay(src, o, d) \in Layouts
  BY DEF Lay, Layouts
<1>4. /\ <<0, 1, 2>> \in Orders /\ <<0, 2, 1>> \in Orders /\ <<1, 2, 0>> \in Orders
      /\ <<2, 0, 1>> \in Orders
  BY DEF Orders
<1>5. /\ {} \in SUBSET Axes /\ {0} \in SUBSET Axes /\ {2} \in SUBSET Axes
      /\ {0, 1} \in SUBSET Axes /\ {0, 2} \in SUBSET Axes /\ {1, 2} \in SUBSET Axes
      /\ Axes \in SUBSET Axes
  BY DEF Axes
<1>6. "t1" \in Buffers /\ "t2" \in Buffers /\ Out \in Buffers /\ "in" \in Buffers
  BY <1>2 DEF Buffers
<1>7. Start \in Layouts /\ End \in Layouts
  BY <1>3, <1>4, <1>5, <1>6 DEF Start, End
<1>8. CASE cfg.kind \in {"rtrt", "hybrid_first_last"}
  <2> DEFINE s1 == Rows(2, "in", "t1")
             s2 == Transpose(<<0, 2, 1>>, <<n0, n1, n2>>, "t1", "t2")
             s3 == Rows(1, "t2", "t1")
             s4 == Transpose(<<2, 1, 0>>, <<n0, n2, n1>>, "t1", "t2")
             s5 == Rows(0, "t2", "t1")
             s6 == Transpose(<<2, 0, 1>>, <<n1, n2, n0>>, "t1", Out)
             h1 == Start
             h2 == Lay("t1", <<0, 1, 2>>, {2})
             h3 == Lay("t2", <<0, 2, 1>>, {2})
             h4 == Lay("t1", <<0, 2, 1>>, {1, 2})
             h5 == Lay("t2", <<1, 2, 0>>, {1, 2})
             h6 == Lay("t1", <<1, 2, 0>>, Axes)
             h7 == End
  <2>1. Program = <<s1, s2, s3, s4, s5, s6>>
    BY <1>8, Programs, Zenon
  <2>2. Held = <<h1, h2, h3, h4, h5, h6, h7>>
    BY <1>8 DEF Held
  <2>3. /\ h1 \in Layouts
        /\ h2 \in Layouts
        /\ h3 \in Layouts
        /\ h4 \in Layouts
        /\ h5 \in Layouts
        /\ h6 \in Layouts
        /\ h7 \in Layouts
    BY <1>3, <1>4, <1>5, <1>6, <1>7
  <2>4. Moves(s1, h1, h2)
    <3>1. "in" # "t1"
      BY <1>2
    <3> QED
      BY <1>1, <3>1, RowLaunches DEF Start
  <2>5. Moves(s2, h2, h3)
    <3>1. "t1" # "t2"
      BY <1>2
    <3> QED
      BY <1>1, <3>1, TransposeLaunches
  <2>6. Moves(s3, h3, h4)
    <3>1. "t2" # "t1"
      BY <1>2
    <3> QED
      BY <1>1, <3>1, RowLaunches
  <2>7. Moves(s4, h4, h5)
    <3>1. "t1" # "t2"
      BY <1>2
    <3> QED
      BY <1>1, <3>1, TransposeLaunches
  <2>8. Moves(s5, h5, h6)
    <3>1. "t2" # "t1"
      BY <1>2
    <3> QED
      BY <1>1, <3>1, RowLaunches
  <2>9. Moves(s6, h6, h7)
    <3>1. "t1" # Out
      BY <1>2
    <3> QED
      BY <1>1, <3>1, TransposeLaunches DEF End
  <2>10. h1 = Start /\ h7 = End
    OBVIOUS
  <2> HIDE DEF s1, s2, s3, s4, s5, s6, h1, h2, h3, h4, h5, h6, h7
  <2>11. Route(<<s1, s2, s3, s4, s5, s6>>, <<h1, h2, h3, h4, h5, h6, h7>>)
    BY <2>3, <2>4, <2>5, <2>6, <2>7, <2>8, <2>9, <2>10, Route6
  <2> QED
    BY <2>1, <2>2, <2>11, Zenon
<1>9. CASE cfg.kind = "rtrt_inverse"
  <2> DEFINE s1 == Transpose(<<1, 2, 0>>, <<n0, n1, n2>>, "in", "t1")
             s2 == Rows(0, "t1", "t2")
             s3 == Transpose(<<2, 1, 0>>, <<n1, n2, n0>>, "t2", "t1")
             s4 == Rows(1, "t1", "t2")
             s5 == Transpose(<<0, 2, 1>>, <<n0, n2, n1>>, "t2", "t1")
             s6 == Rows(2, "t1", Out)
             h1 == Start
             h2 == Lay("t1", <<1, 2, 0>>, {})
             h3 == Lay("t2", <<1, 2, 0>>, {0})
             h4 == Lay("t1", <<0, 2, 1>>, {0})
             h5 == Lay("t2", <<0, 2, 1>>, {0, 1})
             h6 == Lay("t1", <<0, 1, 2>>, {0, 1})
             h7 == End
  <2>1. Program = <<s1, s2, s3, s4, s5, s6>>
    BY <1>9, Programs, Zenon
  <2>2. Held = <<h1, h2, h3, h4, h5, h6, h7>>
    BY <1>9 DEF Held
  <2>3. /\ h1 \in Layouts
        /\ h2 \in Layouts
        /\ h3 \in Layouts
        /\ h4 \in Layouts
        /\ h5 \in Layouts
        /\ h6 \in Layouts
        /\ h7 \in Layouts
    BY <1>3, <1>4, <1>5, <1>6, <1>7
  <2>4. Moves(s1, h1, h2)
    <3>1. "in" # "t1"
      BY <1>2
    <3> QED
      BY <1>1, <3>1, TransposeLaunches DEF Start
  <2>5. Moves(s2, h2, h3)
    <3>1. "t1" # "t2"
      BY <1>2
    <3> QED
      BY <1>1, <3>1, RowLaunches
  <2>6. Moves(s3, h3, h4)
    <3>1. "t2" # "t1"
      BY <1>2
    <3> QED
      BY <1>1, <3>1, TransposeLaunches
  <2>7. Moves(s4, h4, h5)
    <3>1. "t1" # "t2"
      BY <1>2
    <3> QED
      BY <1>1, <3>1, RowLaunches
  <2>8. Moves(s5, h5, h6)
    <3>1. "t2" # "t1"
      BY <1>2
    <3> QED
      BY <1>1, <3>1, TransposeLaunches
  <2>9. Moves(s6, h6, h7)
    <3>1. "t1" # Out
      BY <1>2
    <3> QED
      BY <1>1, <3>1, RowLaunches DEF End
  <2>10. h1 = Start /\ h7 = End
    OBVIOUS
  <2> HIDE DEF s1, s2, s3, s4, s5, s6, h1, h2, h3, h4, h5, h6, h7
  <2>11. Route(<<s1, s2, s3, s4, s5, s6>>, <<h1, h2, h3, h4, h5, h6, h7>>)
    BY <2>3, <2>4, <2>5, <2>6, <2>7, <2>8, <2>9, <2>10, Route6
  <2> QED
    BY <2>1, <2>2, <2>11, Zenon
<1>10. CASE cfg.kind \in {"final_store", "hybrid_first"}
  <2> DEFINE s1 == Rows(2, "in", "t1")
             s2 == Transpose(<<0, 2, 1>>, <<n0, n1, n2>>, "t1", "t2")
             s3 == Rows(1, "t2", "t1")
             s4 == Transpose(<<2, 1, 0>>, <<n0, n2, n1>>, "t1", "t2")
             s5 == PermutedStore("outer", 0, n1 * n2, "t2", Out)
             h1 == Start
             h2 == Lay("t1", <<0, 1, 2>>, {2})
             h3 == Lay("t2", <<0, 2, 1>>, {2})
             h4 == Lay("t1", <<0, 2, 1>>, {1, 2})
             h5 == Lay("t2", <<1, 2, 0>>, {1, 2})
             h6 == End
  <2>1. Program = <<s1, s2, s3, s4, s5>>
    BY <1>10, Programs, Zenon
  <2>2. Held = <<h1, h2, h3, h4, h5, h6>>
    BY <1>10 DEF Held
  <2>3. /\ h1 \in Layouts
        /\ h2 \in Layouts
        /\ h3 \in Layouts
        /\ h4 \in Layouts
        /\ h5 \in Layouts
        /\ h6 \in Layouts
    BY <1>3, <1>4, <1>5, <1>6, <1>7
  <2>4. Moves(s1, h1, h2)
    <3>1. "in" # "t1"
      BY <1>2
    <3> QED
      BY <1>1, <3>1, RowLaunches DEF Start
  <2>5. Moves(s2, h2, h3)
    <3>1. "t1" # "t2"
      BY <1>2
    <3> QED
      BY <1>1, <3>1, TransposeLaunches
  <2>6. Moves(s3, h3, h4)
    <3>1. "t2" # "t1"
      BY <1>2
    <3> QED
      BY <1>1, <3>1, RowLaunches
  <2>7. Moves(s4, h4, h5)
    <3>1. "t1" # "t2"
      BY <1>2
    <3> QED
      BY <1>1, <3>1, TransposeLaunches
  <2>8. Moves(s5, h5, h6)
    <3>1. "t2" # Out
      BY <1>2
    <3> QED
      BY <1>1, <3>1, RowLaunches DEF End
  <2>9. h1 = Start /\ h6 = End
    OBVIOUS
  <2> HIDE DEF s1, s2, s3, s4, s5, h1, h2, h3, h4, h5, h6
  <2>10. Route(<<s1, s2, s3, s4, s5>>, <<h1, h2, h3, h4, h5, h6>>)
    BY <2>3, <2>4, <2>5, <2>6, <2>7, <2>8, <2>9, Route5
  <2> QED
    BY <2>1, <2>2, <2>10, Zenon
<1>11. CASE cfg.kind = "pair_store"
  <2> DEFINE s1 == PermutedStore("outer", 2, n0 * n1, "in", "t1")
             s2 == PermutedStore("outer", 1, n0 * n2, "t1", "t2")
             s3 == PermutedStore("outer", 0, n1 * n2, "t2", Out)
             h1 == Start
             h2 == Lay("t1", <<2, 0, 1>>, {2})
             h3 == Lay("t2", <<1, 2, 0>>, {1, 2})
             h4 == End
  <2>1. Program = <<s1, s2, s3>>
    BY <1>11, Programs, Zenon
  <2>2. Held = <<h1, h2, h3, h4>>
    BY <1>11 DEF Held
  <2>3. /\ h1 \in Layouts
        /\ h2 \in Layouts
        /\ h3 \in Layouts
        /\ h4 \in Layouts
    BY <1>3, <1>4, <1>5, <1>6, <1>7
  <2>4. Moves(s1, h1, h2)
    <3>1. "in" # "t1"
      BY <1>2
    <3> QED
      BY <1>1, <3>1, RowLaunches DEF Start
  <2>5. Moves(s2, h2, h3)
    <3>1. "t1" # "t2"
      BY <1>2
    <3> QED
      BY <1>1, <3>1, RowLaunches
  <2>6. Moves(s3, h3, h4)
    <3>1. "t2" # Out
      BY <1>2
    <3> QED
      BY <1>1, <3>1, RowLaunches DEF End
  <2>7. h1 = Start /\ h4 = End
    OBVIOUS
  <2> HIDE DEF s1, s2, s3, h1, h2, h3, h4
  <2>8. Route(<<s1, s2, s3>>, <<h1, h2, h3, h4>>)
    BY <2>3, <2>4, <2>5, <2>6, <2>7, Route3
  <2> QED
    BY <2>1, <2>2, <2>8, Zenon
<1>12. CASE cfg.kind = "chain"
  <2> DEFINE s1 == PermutedStore("outer", 2, n1, "in", "t1")
             s2 == PermutedStore("inner", 1, n2, "t1", "t2")
             s3 == PermutedStore("outer", 0, n1 * n2, "t2", Out)
             h1 == Start
             h2 == Lay("t1", <<0, 2, 1>>, {2})
             h3 == Lay("t2", <<1, 2, 0>>, {1, 2})
             h4 == End
  <2>1. Program = <<s1, s2, s3>>
    BY <1>12, Programs, Zenon
  <2>2. Held = <<h1, h2, h3, h4>>
    BY <1>12 DEF Held
  <2>3. /\ h1 \in Layouts
        /\ h2 \in Layouts
        /\ h3 \in Layouts
        /\ h4 \in Layouts
    BY <1>3, <1>4, <1>5, <1>6, <1>7
  <2>4. Moves(s1, h1, h2)
    <3>1. "in" # "t1"
      BY <1>2
    <3> QED
      BY <1>1, <3>1, RowLaunches DEF Start
  <2>5. Moves(s2, h2, h3)
    <3>1. "t1" # "t2"
      BY <1>2
    <3>2. cfg.batch = 1 /\ n0 % cfg.pack = 0 /\ 1 \notin {2} /\ {2} \cup {1} = {1, 2}
      BY <1>12 DEF Sound, n0
    <3>3. Moves(s2, h2, Lay("t2", <<1, 2, 0>>, {2} \cup {1}))
      BY <1>1, <3>1, <3>2, InnerMoves
    <3> QED
      BY <3>2, <3>3
  <2>6. Moves(s3, h3, h4)
    <3>1. "t2" # Out
      BY <1>2
    <3> QED
      BY <1>1, <3>1, RowLaunches DEF End
  <2>7. h1 = Start /\ h4 = End
    OBVIOUS
  <2> HIDE DEF s1, s2, s3, h1, h2, h3, h4
  <2>8. Route(<<s1, s2, s3>>, <<h1, h2, h3, h4>>)
    BY <2>3, <2>4, <2>5, <2>6, <2>7, Route3
  <2> QED
    BY <2>1, <2>2, <2>8, Zenon
<1>13. CASE cfg.kind = "chain_last"
  <2> DEFINE s1 == PermutedStore("outer", 2, n1, "in", "t1")
             s2 == PermutedStore("inner", 1, n2, "t1", "t2")
             s3 == Rows(0, "t2", "t1")
             s4 == Transpose(<<2, 0, 1>>, <<n1, n2, n0>>, "t1", Out)
             h1 == Start
             h2 == Lay("t1", <<0, 2, 1>>, {2})
             h3 == Lay("t2", <<1, 2, 0>>, {1, 2})
             h4 == Lay("t1", <<1, 2, 0>>, Axes)
             h5 == End
  <2>1. Program = <<s1, s2, s3, s4>>
    BY <1>13, Programs, Zenon
  <2>2. Held = <<h1, h2, h3, h4, h5>>
    BY <1>13 DEF Held
  <2>3. /\ h1 \in Layouts
        /\ h2 \in Layouts
        /\ h3 \in Layouts
        /\ h4 \in Layouts
        /\ h5 \in Layouts
    BY <1>3, <1>4, <1>5, <1>6, <1>7
  <2>4. Moves(s1, h1, h2)
    <3>1. "in" # "t1"
      BY <1>2
    <3> QED
      BY <1>1, <3>1, RowLaunches DEF Start
  <2>5. Moves(s2, h2, h3)
    <3>1. "t1" # "t2"
      BY <1>2
    <3>2. cfg.batch = 1 /\ n0 % cfg.pack = 0 /\ 1 \notin {2} /\ {2} \cup {1} = {1, 2}
      BY <1>13 DEF Sound, n0
    <3>3. Moves(s2, h2, Lay("t2", <<1, 2, 0>>, {2} \cup {1}))
      BY <1>1, <3>1, <3>2, InnerMoves
    <3> QED
      BY <3>2, <3>3
  <2>6. Moves(s3, h3, h4)
    <3>1. "t2" # "t1"
      BY <1>2
    <3> QED
      BY <1>1, <3>1, RowLaunches
  <2>7. Moves(s4, h4, h5)
    <3>1. "t1" # Out
      BY <1>2
    <3> QED
      BY <1>1, <3>1, TransposeLaunches DEF End
  <2>8. h1 = Start /\ h5 = End
    OBVIOUS
  <2> HIDE DEF s1, s2, s3, s4, h1, h2, h3, h4, h5
  <2>9. Route(<<s1, s2, s3, s4>>, <<h1, h2, h3, h4, h5>>)
    BY <2>3, <2>4, <2>5, <2>6, <2>7, <2>8, Route4
  <2> QED
    BY <2>1, <2>2, <2>9, Zenon
<1>14. CASE cfg.kind = "hybrid"
  <2> DEFINE s1 == PermutedStore("outer", 2, n1, "in", "t1")
             s2 == Rows(1, "t1", "t2")
             s3 == Transpose(<<2, 1, 0>>, <<n0, n2, n1>>, "t2", "t1")
             s4 == PermutedStore("outer", 0, n1 * n2, "t1", Out)
             h1 == Start
             h2 == Lay("t1", <<0, 2, 1>>, {2})
             h3 == Lay("t2", <<0, 2, 1>>, {1, 2})
             h4 == Lay("t1", <<1, 2, 0>>, {1, 2})
             h5 == End
  <2>1. Program = <<s1, s2, s3, s4>>
    BY <1>14, Programs, Zenon
  <2>2. Held = <<h1, h2, h3, h4, h5>>
    BY <1>14 DEF Held
  <2>3. /\ h1 \in Layouts
        /\ h2 \in Layouts
        /\ h3 \in Layouts
        /\ h4 \in Layouts
        /\ h5 \in Layouts
    BY <1>3, <1>4, <1>5, <1>6, <1>7
  <2>4. Moves(s1, h1, h2)
    <3>1. "in" # "t1"
      BY <1>2
    <3> QED
      BY <1>1, <3>1, RowLaunches DEF Start
  <2>5. Moves(s2, h2, h3)
    <3>1. "t1" # "t2"
      BY <1>2
    <3> QED
      BY <1>1, <3>1, RowLaunches
  <2>6. Moves(s3, h3, h4)
    <3>1. "t2" # "t1"
      BY <1>2
    <3> QED
      BY <1>1, <3>1, TransposeLaunches
  <2>7. Moves(s4, h4, h5)
    <3>1. "t1" # Out
      BY <1>2
    <3> QED
      BY <1>1, <3>1, RowLaunches DEF End
  <2>8. h1 = Start /\ h5 = End
    OBVIOUS
  <2> HIDE DEF s1, s2, s3, s4, h1, h2, h3, h4, h5
  <2>9. Route(<<s1, s2, s3, s4>>, <<h1, h2, h3, h4, h5>>)
    BY <2>3, <2>4, <2>5, <2>6, <2>7, <2>8, Route4
  <2> QED
    BY <2>1, <2>2, <2>9, Zenon
<1>15. CASE cfg.kind = "hybrid_last"
  <2> DEFINE s1 == PermutedStore("outer", 2, n1, "in", "t1")
             s2 == Rows(1, "t1", "t2")
             s3 == Transpose(<<2, 1, 0>>, <<n0, n2, n1>>, "t2", "t1")
             s4 == Rows(0, "t1", "t2")
             s5 == Transpose(<<2, 0, 1>>, <<n1, n2, n0>>, "t2", Out)
             h1 == Start
             h2 == Lay("t1", <<0, 2, 1>>, {2})
             h3 == Lay("t2", <<0, 2, 1>>, {1, 2})
             h4 == Lay("t1", <<1, 2, 0>>, {1, 2})
             h5 == Lay("t2", <<1, 2, 0>>, Axes)
             h6 == End
  <2>1. Program = <<s1, s2, s3, s4, s5>>
    BY <1>15, Programs, Zenon
  <2>2. Held = <<h1, h2, h3, h4, h5, h6>>
    BY <1>15 DEF Held
  <2>3. /\ h1 \in Layouts
        /\ h2 \in Layouts
        /\ h3 \in Layouts
        /\ h4 \in Layouts
        /\ h5 \in Layouts
        /\ h6 \in Layouts
    BY <1>3, <1>4, <1>5, <1>6, <1>7
  <2>4. Moves(s1, h1, h2)
    <3>1. "in" # "t1"
      BY <1>2
    <3> QED
      BY <1>1, <3>1, RowLaunches DEF Start
  <2>5. Moves(s2, h2, h3)
    <3>1. "t1" # "t2"
      BY <1>2
    <3> QED
      BY <1>1, <3>1, RowLaunches
  <2>6. Moves(s3, h3, h4)
    <3>1. "t2" # "t1"
      BY <1>2
    <3> QED
      BY <1>1, <3>1, TransposeLaunches
  <2>7. Moves(s4, h4, h5)
    <3>1. "t1" # "t2"
      BY <1>2
    <3> QED
      BY <1>1, <3>1, RowLaunches
  <2>8. Moves(s5, h5, h6)
    <3>1. "t2" # Out
      BY <1>2
    <3> QED
      BY <1>1, <3>1, TransposeLaunches DEF End
  <2>9. h1 = Start /\ h6 = End
    OBVIOUS
  <2> HIDE DEF s1, s2, s3, s4, s5, h1, h2, h3, h4, h5, h6
  <2>10. Route(<<s1, s2, s3, s4, s5>>, <<h1, h2, h3, h4, h5, h6>>)
    BY <2>3, <2>4, <2>5, <2>6, <2>7, <2>8, <2>9, Route5
  <2> QED
    BY <2>1, <2>2, <2>10, Zenon
<1>16. CASE cfg.kind = "strided"
  <2> DEFINE s1 == Rows(2, "in", "t1")
             s2 == Lines(1, n2, "t1", "t2")
             s3 == Lines(0, n1 * n2, "t2", Out)
             h1 == Start
             h2 == Lay("t1", <<0, 1, 2>>, {2})
             h3 == Lay("t2", <<0, 1, 2>>, {1, 2})
             h4 == End
  <2>1. Program = <<s1, s2, s3>>
    BY <1>16, Programs, Zenon
  <2>2. Held = <<h1, h2, h3, h4>>
    BY <1>16 DEF Held
  <2>3. /\ h1 \in Layouts
        /\ h2 \in Layouts
        /\ h3 \in Layouts
        /\ h4 \in Layouts
    BY <1>3, <1>4, <1>5, <1>6, <1>7
  <2>4. Moves(s1, h1, h2)
    <3>1. "in" # "t1"
      BY <1>2
    <3> QED
      BY <1>1, <3>1, RowLaunches DEF Start
  <2>5. Moves(s2, h2, h3)
    <3>1. "t1" # "t2"
      BY <1>2
    <3> QED
      BY <1>1, <3>1, RowLaunches
  <2>6. Moves(s3, h3, h4)
    <3>1. "t2" # Out
      BY <1>2
    <3> QED
      BY <1>1, <3>1, RowLaunches DEF End
  <2>7. h1 = Start /\ h4 = End
    OBVIOUS
  <2> HIDE DEF s1, s2, s3, h1, h2, h3, h4
  <2>8. Route(<<s1, s2, s3>>, <<h1, h2, h3, h4>>)
    BY <2>3, <2>4, <2>5, <2>6, <2>7, Route3
  <2> QED
    BY <2>1, <2>2, <2>8, Zenon
<1>17. CASE cfg.kind = "fused_plane"
  <2> DEFINE s1 == SquarePlane("in", "t1")
             s2 == Lines(0, n1 * n2, "t1", Out)
             h1 == Start
             h2 == Lay("t1", <<0, 1, 2>>, {1, 2})
             h3 == End
  <2>1. Program = <<s1, s2>>
    BY <1>17, Programs, Zenon
  <2>2. Held = <<h1, h2, h3>>
    BY <1>17 DEF Held
  <2>3. /\ h1 \in Layouts
        /\ h2 \in Layouts
        /\ h3 \in Layouts
    BY <1>3, <1>4, <1>5, <1>6, <1>7
  <2>4. Moves(s1, h1, h2)
    <3>1. "in" # "t1"
      BY <1>2
    <3> QED
      BY <1>1, <3>1, PlaneMoves DEF Start
  <2>5. Moves(s2, h2, h3)
    <3>1. "t1" # Out
      BY <1>2
    <3> QED
      BY <1>1, <3>1, RowLaunches DEF End
  <2>6. h1 = Start /\ h3 = End
    OBVIOUS
  <2> HIDE DEF s1, s2, h1, h2, h3
  <2>7. Route(<<s1, s2>>, <<h1, h2, h3>>)
    BY <2>3, <2>4, <2>5, <2>6, Route2
  <2> QED
    BY <2>1, <2>2, <2>7, Zenon
<1>18. CASE cfg.kind = "prime_plane"
  <2> DEFINE s1 == RectPlane("in", "t1")
             s2 == Rows(1, "t1", "t2")
             s3 == Transpose(<<0, 2, 1>>, <<n0, n2, n1>>, "t2", Out)
             h1 == Start
             h2 == Lay("t1", <<0, 2, 1>>, {0, 2})
             h3 == Lay("t2", <<0, 2, 1>>, Axes)
             h4 == End
  <2>1. Program = <<s1, s2, s3>>
    BY <1>18, Programs, Zenon
  <2>2. Held = <<h1, h2, h3, h4>>
    BY <1>18 DEF Held
  <2>3. /\ h1 \in Layouts
        /\ h2 \in Layouts
        /\ h3 \in Layouts
        /\ h4 \in Layouts
    BY <1>3, <1>4, <1>5, <1>6, <1>7
  <2>4. Moves(s1, h1, h2)
    <3>1. "in" # "t1"
      BY <1>2
    <3> QED
      BY <1>1, <3>1, PlaneMoves DEF Start
  <2>5. Moves(s2, h2, h3)
    <3>1. "t1" # "t2"
      BY <1>2
    <3> QED
      BY <1>1, <3>1, RowLaunches
  <2>6. Moves(s3, h3, h4)
    <3>1. "t2" # Out
      BY <1>2
    <3> QED
      BY <1>1, <3>1, TransposeLaunches DEF End
  <2>7. h1 = Start /\ h4 = End
    OBVIOUS
  <2> HIDE DEF s1, s2, s3, h1, h2, h3, h4
  <2>8. Route(<<s1, s2, s3>>, <<h1, h2, h3, h4>>)
    BY <2>3, <2>4, <2>5, <2>6, <2>7, Route3
  <2> QED
    BY <2>1, <2>2, <2>8, Zenon
<1> QED
  BY <1>8, <1>9, <1>10, <1>11, <1>12, <1>13, <1>14, <1>15, <1>16, <1>17, <1>18 DEF Nodes
-----------------------------------------------------------------------------
(* execute never changes the plan.                                         *)

LEMMA PlanFixed ==
  ASSUME cfg' = cfg
  PROVE  /\ Program' = Program /\ Held' = Held /\ Out' = Out
         /\ CubeSize' = CubeSize /\ Total' = Total /\ Address' = Address
         /\ Blocks' = Blocks /\ Idle' = Idle /\ Cubes' = Cubes /\ Index' = Index
         /\ n0' = n0 /\ n1' = n1 /\ n2' = n2
<1>1. Out' = Out
  BY DEF Out
<1>2. n0' = n0 /\ n1' = n1 /\ n2' = n2
  BY DEF n0, n1, n2
<1>3. \A x : Extent(x)' = Extent(x)
  BY DEF Extent
<1>4. CubeSize' = CubeSize /\ Total' = Total /\ Address' = Address
  BY DEF CubeSize, Total, Address
<1>5. Blocks' = Blocks /\ Idle' = Idle /\ Cubes' = Cubes
  BY DEF Blocks, Idle, Cubes
<1>6. Index' = Index
  BY <1>3 DEF Index
<1>7. Held' = Held
  BY <1>1 DEF Held, Start, End
<1>8. /\ Forward' = Forward /\ RtrtInverse' = RtrtInverse /\ FinalStore' = FinalStore
      /\ PairStore' = PairStore /\ FusedPlane' = FusedPlane /\ PrimePlane' = PrimePlane
      /\ Chain' = Chain /\ Strided' = Strided
  BY <1>1, <1>2 DEF Forward, RtrtInverse, FinalStore, PairStore, FusedPlane, PrimePlane,
       Chain, Strided, RectPlane
<1>9. \A f, m, l \in BOOLEAN : Hybrid(f, m, l)' = Hybrid(f, m, l)
  BY <1>1, <1>2 DEF Hybrid
<1>10. Program' = Program
  BY <1>1, <1>8, <1>9 DEF Program
<1> QED
  BY <1>1, <1>2, <1>4, <1>5, <1>6, <1>7, <1>10

LEMMA PlacesFixed ==
  ASSUME cfg' = cfg
  PROVE  /\ \A o, c, i : AddrOf(o, c, i)' = AddrOf(o, c, i)
         /\ \A a, done : Natural(a, done)' = Natural(a, done)
         /\ \A x : Extent(x)' = Extent(x)
<1>1. \A x : Extent(x)' = Extent(x)
  BY DEF Extent
<1>2. \A o, c, i : AddrOf(o, c, i)' = AddrOf(o, c, i)
  BY <1>1 DEF AddrOf
<1>3. \A a, done : Natural(a, done)' = Natural(a, done)
  BY DEF Natural, CubeSize, n1, n2
<1> QED
  BY <1>1, <1>2, <1>3
-----------------------------------------------------------------------------
(* The inductive invariant.                                                *)

\* Where execute is in the program.
Control ==
  /\ cfg \in Configs /\ Admits(cfg)
  /\ pc \in 1 .. Len(Program) + 1
  /\ status \in {"running", "success", "failed"}
  /\ status = "running" => pc <= Len(Program)
  /\ status = "success" => pc = Len(Program) + 1
  /\ offset \in 0 .. cfg.batch - 1
  /\ status = "running" /\ Step.op # "perm" => offset = 0
  /\ block \in [Blocks -> {"waiting", "exact", "spoilt", "stored"}]
  /\ DOMAIN mem = Buffers

\* Before each launch, and after the last, the data has the layout of Held.
LaidOut ==
  cfg.kind \in Nodes /\ status # "failed" =>
    \E h \in Layouts : h = Held[pc] /\ Holds(mem[h.buf], h.order, h.done)

\* The cubes the rounds of a transpose have done are where it takes them.
PartMoved ==
  cfg.kind \in Nodes /\ status = "running" =>
    \E h \in Layouts : h = Held[pc + 1] /\
      \A c \in Cubes, i \in Index :
        c < offset => mem[h.buf][AddrOf(h.order, c, i)] = Cell(c, i, h.done)

\* No block of a fused cube kernel stores to what another one reads.
CubeKept ==
  cfg.kind = "fused_cube" =>
    /\ status = "running" => \A a \in Address : mem["in"][a] = Natural(a, {})
    /\ \A g \in Blocks :
         /\ block[g] # "spoilt"
         /\ block[g] = "stored" =>
              \A a \in Address : a \div (n1 * n2) = g => mem["out"][a] = Natural(a, Axes)
    /\ status = "success" => \A a \in Address : mem["out"][a] = Natural(a, Axes)

Typed(x) ==
  \/ x = Junk
  \/ /\ x.cube \in 0 .. cfg.batch - 1 /\ x.done \subseteq Axes
     /\ \A y \in Axes : x.at[y] \in 0 .. Extent(y) - 1
CellsTyped == \A b \in Buffers : \A a \in Address : Typed(mem[b][a])

IInv == Control /\ LaidOut /\ PartMoved /\ CubeKept /\ CellsTyped

LEMMA InvariantTypes == IInv => TypeOK
<1> SUFFICES ASSUME IInv
             PROVE  TypeOK
  OBVIOUS
<1>1. DOMAIN mem = {"in", "t1", "t2", "out"}
  BY DEF IInv, Control, Buffers
<1>2. \A b \in DOMAIN mem : \A a \in Address :
          \/ mem[b][a] = Junk
          \/ /\ mem[b][a].cube \in 0 .. cfg.batch - 1
             /\ mem[b][a].done \subseteq Axes
             /\ \A x \in Axes : mem[b][a].at[x] \in 0 .. Extent(x) - 1
  BY <1>1 DEF IInv, CellsTyped, Typed, Buffers
<1> QED
  BY <1>1, <1>2 DEF IInv, Control, TypeOK

LEMMA CellTyped ==
  ASSUME Configured, NEW c \in Cubes, NEW i \in Index, NEW done \in SUBSET Axes
  PROVE  Typed(Cell(c, i, done))
BY DEF Typed, Cell, Cubes, Index

LEMMA NaturalTyped ==
  ASSUME Configured, NEW a \in Address, NEW done \in SUBSET Axes
  PROVE  Typed(Natural(a, done))
<1>1. <<0, 1, 2>> \in Orders
  BY DEF Orders
<1>2. PICK c \in Cubes, i \in Index : a = AddrOf(<<0, 1, 2>>, c, i)
  BY <1>1, AtExists
<1> QED
  BY <1>2, CellTyped, NaturalCell

LEMMA InvariantNatural ==
  ASSUME IInv, \A c \in Configs : Admits(c) => Sound(c)
  PROVE  NaturalOrder
<1>1. TypeOK
  BY InvariantTypes
<1>2. ASSUME status = "success"
      PROVE  \A a \in Address : mem[Out][a] = Natural(a, Axes)
  <2>1. Configured /\ Sound(cfg) /\ cfg.kind \in Nodes \cup {"fused_cube"}
    BY Kinds DEF IInv, Control, Configured
  <2>2. CASE cfg.kind = "fused_cube"
    BY <1>2, <2>1, <2>2 DEF Sound, Out, IInv, CubeKept
  <2>3. CASE cfg.kind \in Nodes
    <3>1. Route(Program, Held) /\ pc = Len(Program) + 1
      BY <1>2, <2>1, <2>3, NodeRoute DEF IInv, Control
    <3>2. Held[pc] = Lay(Out, <<0, 1, 2>>, Axes)
      BY <3>1 DEF Route, End
    <3>3. PICK h \in Layouts : h = Held[pc] /\ Holds(mem[h.buf], h.order, h.done)
      BY <1>2, <2>3 DEF IInv, LaidOut
    <3>4. h.buf = Out /\ h.order = <<0, 1, 2>> /\ h.done = Axes
      BY <3>2, <3>3 DEF Lay
    <3>5. Holds(mem[Out], <<0, 1, 2>>, Axes)
      BY <3>3, <3>4
    <3> QED
      BY <2>1, <3>5, HoldsNatural
  <2> QED
    BY <2>1, <2>2, <2>3
<1> QED
  BY <1>1, <1>2 DEF NaturalOrder

LEMMA Initially ==
  ASSUME Init, \A c \in Configs : Admits(c) => Sound(c)
  PROVE  IInv
<1>1. cfg \in Configs /\ Admits(cfg) /\ Configured /\ Sound(cfg)
  BY DEF Init, Configured
<1>2. cfg.kind \in Nodes \cup {"fused_cube"} /\ Len(Program) \in 1 .. 6
  BY <1>1, Kinds, ProgramSpares DEF Spares
<1>3. \A b \in Buffers, a \in Address :
        mem[b][a] = IF b = "in" THEN Natural(a, {}) ELSE Junk
  BY DEF Init, Buffers
<1>4. Control
  <2>1. cfg.batch \in Pos
    BY <1>1, Sizes
  <2> QED
    <3>1. pc = 1 /\ offset = 0 /\ block = Idle /\ status = "running"
      BY DEF Init
    <3>2. DOMAIN mem = Buffers
      BY DEF Init, Buffers
    <3>3. Idle \in [Blocks -> {"waiting", "exact", "spoilt", "stored"}]
      BY DEF Idle
    <3>4. 1 \in 1 .. Len(Program) + 1 /\ 1 <= Len(Program)
      <4> DEFINE l == Len(Program)
      <4>1. l \in 1 .. 6
        BY <1>2
      <4> HIDE DEF l
      <4>2. 1 \in 1 .. l + 1 /\ 1 <= l
        BY <4>1
      <4> QED
        BY <4>2 DEF l
    <3>5. 0 \in 0 .. cfg.batch - 1
      BY <2>1 DEF Pos
    <3> QED
      BY <1>1, <3>1, <3>2, <3>3, <3>4, <3>5 DEF Control
<1>5. LaidOut
  <2> SUFFICES ASSUME cfg.kind \in Nodes
               PROVE  \E h \in Layouts : h = Held[pc] /\ Holds(mem[h.buf], h.order, h.done)
    BY DEF LaidOut
  <2>1. Held[1] = Start /\ Held[1] \in Layouts /\ pc = 1
    <3>1. Route(Program, Held) /\ 1 \in 1 .. Len(Program)
      BY <1>1, <1>2, NodeRoute
    <3> QED
      BY <3>1 DEF Route, Init
  <2>2. Start.buf = "in" /\ Start.order = <<0, 1, 2>> /\ Start.done = {}
    BY DEF Start, Lay
  <2>3. Holds(mem["in"], <<0, 1, 2>>, {})
    BY <1>1, <1>3, HoldsNatural DEF Buffers
  <2> QED
    BY <2>1, <2>2, <2>3
<1>6. PartMoved
  <2> SUFFICES ASSUME cfg.kind \in Nodes
               PROVE  \E h \in Layouts : h = Held[pc + 1] /\
                        \A c \in Cubes, i \in Index :
                          c < offset => mem[h.buf][AddrOf(h.order, c, i)] = Cell(c, i, h.done)
    BY DEF PartMoved
  <2>1. Held[pc + 1] \in Layouts /\ offset = 0
    <3>1. Route(Program, Held) /\ 1 \in 1 .. Len(Program)
      BY <1>1, <1>2, NodeRoute
    <3> QED
      BY <3>1 DEF Route, Init
  <2>2. \A c \in Cubes : ~(c < offset)
    BY <2>1 DEF Cubes
  <2> QED
    BY <2>1, <2>2
<1>7. CubeKept
  BY <1>3 DEF CubeKept, Init, Idle, Buffers
<1>8. CellsTyped
  BY <1>1, <1>3, NaturalTyped DEF CellsTyped, Typed
<1> QED
  BY <1>4, <1>5, <1>6, <1>7, <1>8 DEF IInv

-----------------------------------------------------------------------------
(* Steps keep the invariant.                                               *)

LEMMA HoldsFixed ==
  ASSUME cfg' = cfg, NEW h
  PROVE  Holds(mem[h.buf], h.order, h.done)' <=> Holds(mem'[h.buf], h.order, h.done)
BY PlanFixed, PlacesFixed DEF Holds

LEMMA TypedFixed ==
  ASSUME cfg' = cfg, \A b \in Buffers : \A a \in Address : Typed(mem'[b][a])
  PROVE  CellsTyped'
BY PlanFixed, PlacesFixed DEF CellsTyped, Typed

\* The launch at pc of a node, and the layouts before and after it.
LEMMA StepMoves ==
  ASSUME IInv, \A c \in Configs : Admits(c) => Sound(c), status = "running",
         cfg.kind \in Nodes
  PROVE  /\ Configured /\ pc \in 1 .. Len(Program) /\ Len(Program) \in 1 .. 6
         /\ Moves(Step, Held[pc], Held[pc + 1])
         /\ Held[pc] \in Layouts /\ Held[pc + 1] \in Layouts
         /\ pc < Len(Program) => Held[pc + 2] \in Layouts
         /\ Holds(mem[Held[pc].buf], Held[pc].order, Held[pc].done)
         /\ Step.op \in {"fft", "perm"}
         /\ Step.dst = Held[pc + 1].buf /\ Step.dst \in Buffers /\ Step.src = Held[pc].buf
<1>1. Configured /\ Sound(cfg)
  BY DEF IInv, Control, Configured
<1>2. Route(Program, Held)
  BY <1>1, NodeRoute
<1> DEFINE l == Len(Program)
<1>3. l \in 1 .. 6 /\ pc \in 1 .. l + 1 /\ pc <= l
  BY <1>2 DEF IInv, Control, Route
<1>4. \A n \in 1 .. l : /\ Moves(Program[n], Held[n], Held[n + 1])
                        /\ Held[n] \in Layouts /\ Held[n + 1] \in Layouts
  BY <1>2 DEF Route
<1> HIDE DEF l
<1>5. pc \in 1 .. l
  BY <1>3
<1>6. Moves(Step, Held[pc], Held[pc + 1]) /\ Held[pc] \in Layouts /\ Held[pc + 1] \in Layouts
  BY <1>4, <1>5 DEF Step
<1>7. pc < l => Held[pc + 2] \in Layouts
  <2> SUFFICES ASSUME pc < l
               PROVE  Held[pc + 2] \in Layouts
    OBVIOUS
  <2>1. pc + 1 \in 1 .. l /\ (pc + 1) + 1 = pc + 2
    BY <1>3, <1>5
  <2> QED
    BY <1>4, <2>1
<1>8. Holds(mem[Held[pc].buf], Held[pc].order, Held[pc].done)
  BY DEF IInv, LaidOut
<1>9. /\ Step.op \in {"fft", "perm"} /\ Step.dst = Held[pc + 1].buf /\ Step.src = Held[pc].buf
  BY <1>6 DEF Moves
<1>10. Step.dst \in Buffers
  BY <1>6, <1>9 DEF Layouts
<1> QED
  BY <1>1, <1>3, <1>5, <1>6, <1>7, <1>8, <1>9, <1>10 DEF l

\* A launch that leaves the next layout behind keeps the invariant.
LEMMA Arrives ==
  ASSUME IInv, \A c \in Configs : Admits(c) => Sound(c), status = "running",
         cfg.kind \in Nodes, cfg' = cfg, block' = block, offset' = 0, Advance,
         DOMAIN mem' = Buffers, \A b \in Buffers \ {Step.dst} : mem'[b] = mem[b],
         Holds(mem'[Step.dst], Held[pc + 1].order, Held[pc + 1].done)
  PROVE  IInv'
<1> DEFINE l == Len(Program)  k == Held[pc + 1]
<1>1. /\ Configured /\ pc \in 1 .. l /\ l \in 1 .. 6 /\ k \in Layouts /\ Step.dst = k.buf
      /\ pc < l => Held[pc + 2] \in Layouts
  BY StepMoves
<1>2. k.order \in Orders /\ k.done \in SUBSET Axes /\ k.buf \in Buffers
  BY <1>1 DEF Layouts
<1>3. /\ pc' = pc + 1 /\ status' = IF pc = l THEN "success" ELSE "running"
  BY DEF Advance
<1>4. Program' = Program /\ Held' = Held
  BY PlanFixed
<1>5. Control'
  <2>1. cfg.batch \in Pos
    BY <1>1, Sizes
  <2>2. 0 \in 0 .. cfg.batch - 1
    BY <2>1 DEF Pos
  <2>3. Len(Program)' = l
    BY <1>4
  <2>4. block' \in [Blocks' -> {"waiting", "exact", "spoilt", "stored"}]
    BY PlanFixed DEF IInv, Control
  <2>5. cfg' \in Configs /\ Admits(cfg)'
    BY DEF IInv, Control
  <2> HIDE DEF l
  <2>6. /\ pc' \in 1 .. l + 1 /\ (status' = "running" => pc' <= l)
        /\ status' \in {"running", "success", "failed"}
        /\ (status' = "success" => pc' = l + 1)
    BY <1>1, <1>3
  <2> QED
    BY <2>2, <2>3, <2>4, <2>5, <2>6 DEF Control
<1>6. LaidOut'
  <2>1. Held'[pc'] = k
    BY <1>3, <1>4
  <2> HIDE DEF k
  <2>2. PICK h \in Layouts : h = k
    BY <1>1
  <2>3. Holds(mem'[h.buf], h.order, h.done)
    BY <1>1, <2>2 DEF k
  <2>4. Holds(mem[h.buf], h.order, h.done)'
    BY <2>3, HoldsFixed
  <2>5. h \in Layouts' /\ h = Held'[pc']
    BY <2>1, <2>2 DEF Layouts, Buffers, Orders, Axes
  <2> QED
    BY <2>4, <2>5 DEF LaidOut
<1>7. PartMoved'
  <2> SUFFICES ASSUME status' = "running"
               PROVE  (\E h \in Layouts : h = Held[pc + 1] /\
                         \A c \in Cubes, i \in Index :
                           c < offset => mem[h.buf][AddrOf(h.order, c, i)] = Cell(c, i, h.done))'
    BY DEF PartMoved
  <2>1. pc < l /\ pc' + 1 = pc + 2
    <3> HIDE DEF l
    <3> QED
      BY <1>1, <1>3
  <2>2. Held'[pc' + 1] \in Layouts
    BY <1>1, <1>4, <2>1
  <2>3. \A c \in Cubes' : ~(c < offset')
    BY PlanFixed DEF Cubes
  <2> QED
    BY <2>2, <2>3 DEF Layouts, Buffers, Orders, Axes
<1>8. CubeKept'
  BY DEF CubeKept, Nodes
<1>9. CellsTyped'
  <2> SUFFICES ASSUME NEW b \in Buffers, NEW a \in Address
               PROVE  Typed(mem'[b][a])
    BY TypedFixed
  <2>1. CASE b = Step.dst
    <3> HIDE DEF k
    <3>1. PICK c \in Cubes, i \in Index : a = AddrOf(k.order, c, i)
      BY <1>1, <1>2, AtExists
    <3>2. mem'[b][a] = Cell(c, i, k.done)
      BY <2>1, <3>1 DEF Holds, k
    <3> QED
      BY <1>1, <1>2, <3>2, CellTyped
  <2>2. CASE b # Step.dst
    BY <2>2 DEF IInv, CellsTyped
  <2> QED
    BY <2>1, <2>2
<1> QED
  BY <1>5, <1>6, <1>7, <1>8, <1>9 DEF IInv

LEMMA NodeKinds ==
  ASSUME IInv
  PROVE  /\ Configured
         /\ cfg.kind = "fused_cube" =>
              /\ Program = <<CubeFft("in", Out)>> /\ Len(Program) = 1
              /\ status = "running" => pc = 1 /\ Step = CubeFft("in", Out)
         /\ cfg.kind # "fused_cube" => cfg.kind \in Nodes
<1>1. Configured /\ cfg.kind \in Nodes \cup {"fused_cube"}
  BY Kinds DEF IInv, Control, Configured
<1>2. ASSUME cfg.kind = "fused_cube"
      PROVE  /\ Program = <<CubeFft("in", Out)>> /\ Len(Program) = 1
             /\ status = "running" => pc = 1 /\ Step = CubeFft("in", Out)
  <2>1. Program = <<CubeFft("in", Out)>>
    BY <1>2, CubeProgram
  <2>2. Len(Program) = 1 /\ Program[1] = CubeFft("in", Out)
    BY <2>1
  <2>3. status = "running" => pc = 1
    BY <2>2 DEF IInv, Control
  <2> QED
    BY <2>1, <2>2, <2>3 DEF Step
<1> QED
  BY <1>1, <1>2

LEMMA FftKeeps ==
  ASSUME IInv, \A c \in Configs : Admits(c) => Sound(c), FftLaunch
  PROVE  IInv'
<1>1. /\ status = "running" /\ Step.op = "fft" /\ cfg' = cfg /\ block' = block
      /\ offset' = offset /\ Advance /\ mem' = [mem EXCEPT ![Step.dst] = Stored(Step)]
  BY DEF FftLaunch, At
<1>2. cfg.kind \in Nodes
  BY <1>1, NodeKinds DEF CubeFft
<1> DEFINE h == Held[pc]  k == Held[pc + 1]
<1>3. /\ Configured /\ Moves(Step, h, k) /\ h \in Layouts /\ k \in Layouts
      /\ Holds(mem[h.buf], h.order, h.done) /\ Step.src = h.buf
      /\ Step.dst = k.buf /\ Step.dst \in Buffers
  BY <1>1, <1>2, StepMoves
<1>4. DOMAIN mem = Buffers
  BY DEF IInv, Control
<1>5. DOMAIN mem' = Buffers /\ mem'[Step.dst] = Stored(Step)
  BY <1>1, <1>3, <1>4
<1>6. \A b \in Buffers \ {Step.dst} : mem'[b] = mem[b]
  BY <1>1, <1>4
<1>7. offset' = 0
  BY <1>1 DEF IInv, Control
<1> HIDE DEF h, k
<1>8. Carries(Step, h.order, k.order) /\ Fresh(Step, h.done) /\ k.done = After(Step, h.done)
  BY <1>1, <1>3 DEF Moves
<1>9. h.order \in Orders /\ k.order \in Orders
  BY <1>3 DEF Layouts
<1>10. Holds(Stored(Step), k.order, k.done)
  BY <1>3, <1>8, <1>9, CarriedOver
<1> QED
  BY <1>1, <1>2, <1>5, <1>6, <1>7, <1>10, Arrives DEF k

\* What a round of a transpose has done of its destination.
RoundOf(s, from, to, m, lo, end) ==
  \A a \in Address :
    m[a] = IF a \div CubeSize \in lo .. end - 1
           THEN from[(a \div CubeSize) * CubeSize + TransposeSource(s, a % CubeSize)]
           ELSE to[a]
Placed(m, k, upto) ==
  \A c \in Cubes, i \in Index : c < upto => m[AddrOf(k.order, c, i)] = Cell(c, i, k.done)

LEMMA RoundMoves ==
  ASSUME Configured, NEW s, NEW h \in Layouts, NEW k \in Layouts,
         Permutes(s, h.order, k.order), k.done = h.done,
         NEW from, Holds(from, h.order, h.done),
         NEW to, NEW m, NEW lo \in Nat, NEW end \in Nat,
         RoundOf(s, from, to, m, lo, end), Placed(to, k, lo)
  PROVE  Placed(m, k, end)
<1> SUFFICES ASSUME NEW c \in Cubes, NEW i \in Index, c < end
             PROVE  m[AddrOf(k.order, c, i)] = Cell(c, i, k.done)
  BY DEF Placed
<1> DEFINE a == AddrOf(k.order, c, i)
<1>1. k.order \in Orders
  BY DEF Layouts
<1>2. a \in Address /\ a \div CubeSize = c
  BY <1>1, AtAddress
<1>3. c * CubeSize + TransposeSource(s, a % CubeSize) = AddrOf(h.order, c, i)
  BY DEF Permutes
<1>4. from[AddrOf(h.order, c, i)] = Cell(c, i, k.done)
  BY DEF Holds
<1> HIDE DEF a
<1>5. CASE c < lo
  <2>1. a \div CubeSize \notin lo .. end - 1
    BY <1>2, <1>5 DEF Cubes
  <2> QED
    BY <1>2, <1>5, <2>1 DEF a, RoundOf, Placed
<1>6. CASE c >= lo
  <2>1. a \div CubeSize \in lo .. end - 1
    BY <1>2, <1>6 DEF Cubes
  <2>2. m[a] = from[c * CubeSize + TransposeSource(s, a % CubeSize)]
    BY <1>2, <2>1 DEF RoundOf
  <2> QED
    BY <1>3, <1>4, <2>2 DEF a
<1> QED
  BY <1>5, <1>6 DEF Cubes

\* A round that leaves cubes to do keeps the invariant.
LEMMA RoundKeeps ==
  ASSUME IInv, \A c \in Configs : Admits(c) => Sound(c), status = "running",
         cfg.kind \in Nodes, cfg' = cfg, block' = block, pc' = pc, status' = status,
         Step.op = "perm", offset' \in 0 .. cfg.batch - 1,
         DOMAIN mem' = Buffers, \A b \in Buffers \ {Step.dst} : mem'[b] = mem[b],
         \A a \in Address : Typed(mem'[Step.dst][a]),
         \A c \in Cubes, i \in Index :
           c < offset' => mem'[Step.dst][AddrOf(Held[pc + 1].order, c, i)]
                            = Cell(c, i, Held[pc + 1].done)
  PROVE  IInv'
<1> DEFINE h == Held[pc]  k == Held[pc + 1]
<1>1. /\ Moves(Step, h, k) /\ h \in Layouts /\ k \in Layouts
      /\ Holds(mem[h.buf], h.order, h.done) /\ Step.dst = k.buf
      /\ h.buf # k.buf /\ h.buf \in Buffers
  BY StepMoves DEF Moves, Layouts
<1>2. Program' = Program /\ Held' = Held /\ Step' = Step
  BY PlanFixed DEF Step
<1>3. Layouts' = Layouts
  BY DEF Layouts, Buffers, Orders, Axes
<1>4. Control'
  <2>1. block' \in [Blocks' -> {"waiting", "exact", "spoilt", "stored"}]
    BY PlanFixed DEF IInv, Control
  <2>2. cfg' \in Configs /\ Admits(cfg)'
    BY DEF IInv, Control
  <2> QED
    BY <1>2, <2>1, <2>2 DEF IInv, Control
<1>5. LaidOut'
  <2>1. mem'[h.buf] = mem[h.buf]
    BY <1>1
  <2>2. Held'[pc'] = h
    BY <1>2
  <2> HIDE DEF h
  <2>3. PICK g \in Layouts : g = h
    BY <1>1
  <2>4. Holds(mem'[g.buf], g.order, g.done)
    BY <1>1, <2>1, <2>3
  <2>5. Holds(mem[g.buf], g.order, g.done)'
    BY <2>4, HoldsFixed
  <2> QED
    BY <1>3, <2>2, <2>3, <2>5 DEF LaidOut
<1>6. PartMoved'
  <2>1. Held'[pc' + 1] = k
    BY <1>2
  <2> HIDE DEF k
  <2>2. PICK g \in Layouts : g = k
    BY <1>1
  <2>3. \A c \in Cubes, i \in Index :
          c < offset' => mem'[g.buf][AddrOf(g.order, c, i)] = Cell(c, i, g.done)
    BY <1>1, <2>2 DEF k
  <2>4. (\A c \in Cubes, i \in Index :
           c < offset => mem[g.buf][AddrOf(g.order, c, i)] = Cell(c, i, g.done))'
    BY <2>3, PlanFixed, PlacesFixed
  <2> QED
    BY <1>3, <2>1, <2>2, <2>4 DEF PartMoved
<1>7. CubeKept'
  BY DEF CubeKept, Nodes
<1>8. CellsTyped'
  <2>1. \A b \in Buffers : \A a \in Address : Typed(mem'[b][a])
    BY DEF IInv, CellsTyped
  <2> QED
    BY <2>1, TypedFixed
<1> QED
  BY <1>4, <1>5, <1>6, <1>7, <1>8 DEF IInv

LEMMA TransposeKeeps ==
  ASSUME IInv, \A c \in Configs : Admits(c) => Sound(c), TransposeLaunch
  PROVE  IInv'
<1> DEFINE end == IF offset + cfg.chunk < cfg.batch THEN offset + cfg.chunk ELSE cfg.batch
           m == [a \in Address |->
                   LET b == a \div CubeSize
                   IN  IF b \in offset .. end - 1
                       THEN mem[Step.src][b * CubeSize + TransposeSource(Step, a % CubeSize)]
                       ELSE mem[Step.dst][a]]
           h == Held[pc]  k == Held[pc + 1]
<1>1. /\ status = "running" /\ Step.op = "perm" /\ cfg' = cfg /\ block' = block
      /\ offset' = NextOffset(end) /\ mem' = [mem EXCEPT ![Step.dst] = m]
      /\ IF end = cfg.batch THEN Advance ELSE UNCHANGED <<pc, status>>
  BY DEF TransposeLaunch, At
<1>2. cfg.kind \in Nodes
  BY <1>1, NodeKinds DEF CubeFft
<1>3. /\ Configured /\ Moves(Step, h, k) /\ h \in Layouts /\ k \in Layouts
      /\ Holds(mem[h.buf], h.order, h.done) /\ Step.src = h.buf
      /\ Step.dst = k.buf /\ Step.dst \in Buffers
  BY <1>1, <1>2, StepMoves
<1>4. DOMAIN mem = Buffers
  BY DEF IInv, Control
<1>5. DOMAIN mem' = Buffers /\ mem'[Step.dst] = m /\ \A b \in Buffers \ {Step.dst} : mem'[b] = mem[b]
  <2> HIDE DEF m
  <2> QED
    BY <1>1, <1>3, <1>4
<1>6. cfg.batch \in Pos /\ offset \in 0 .. cfg.batch - 1 /\ cfg.chunk \in Pos
  BY <1>3, Sizes DEF IInv, Control
<1>7. offset \in Nat /\ end \in 1 .. cfg.batch
  BY <1>6 DEF Pos
<1>8. \A a \in Address :
        m[a] = IF a \div CubeSize \in offset .. end - 1
               THEN mem[Step.src][(a \div CubeSize) * CubeSize + TransposeSource(Step, a % CubeSize)]
               ELSE mem[Step.dst][a]
  OBVIOUS
<1>9. Permutes(Step, h.order, k.order) /\ k.done = h.done
  BY <1>1, <1>3 DEF Moves
<1>10. \A c \in Cubes, i \in Index :
         c < offset => mem[Step.dst][AddrOf(k.order, c, i)] = Cell(c, i, k.done)
  BY <1>1, <1>2, <1>3 DEF IInv, PartMoved
<1> HIDE DEF m, h, k, end
<1>11. \A c \in Cubes, i \in Index : c < end => m[AddrOf(k.order, c, i)] = Cell(c, i, k.done)
  <2> DEFINE s == Step  from == mem[Step.src]  to == mem[Step.dst]  lo == offset
  <2>1. end \in Nat /\ lo \in Nat
    BY <1>7
  <2>2. Holds(from, h.order, h.done) /\ Permutes(s, h.order, k.order) /\ k.done = h.done
    BY <1>3, <1>9
  <2>3. RoundOf(s, from, to, m, lo, end)
    BY <1>8 DEF RoundOf
  <2>4. Placed(to, k, lo)
    BY <1>10 DEF Placed
  <2>5. Configured /\ h \in Layouts /\ k \in Layouts
    BY <1>3
  <2> HIDE DEF s, from, to, lo
  <2>6. Placed(m, k, end)
    BY <2>1, <2>2, <2>3, <2>4, <2>5, RoundMoves
  <2> QED
    BY <2>6 DEF Placed
<1>12. CASE end = cfg.batch
  <2>1. Holds(mem'[Step.dst], k.order, k.done)
    <3>1. \A c \in Cubes : c < end
      BY <1>6, <1>12 DEF Cubes, Pos
    <3> QED
      BY <1>5, <1>11, <3>1 DEF Holds
  <2>2. offset' = 0 /\ Advance
    BY <1>1, <1>12 DEF NextOffset
  <2> QED
    BY <1>1, <1>2, <1>5, <2>1, <2>2, Arrives DEF k
<1>13. CASE end # cfg.batch
  <2>1. offset' = end /\ pc' = pc /\ status' = status
    BY <1>1, <1>13 DEF NextOffset
  <2>2. end \in 0 .. cfg.batch - 1
    BY <1>6, <1>7, <1>13 DEF Pos
  <2>3. ASSUME NEW a \in Address
        PROVE  Typed(m[a])
    <3>1. k.order \in Orders /\ k.done \in SUBSET Axes /\ h.order \in Orders
      BY <1>3 DEF Layouts
    <3>2. PICK c \in Cubes, i \in Index : a = AddrOf(k.order, c, i)
      BY <1>3, <3>1, AtExists
    <3>3. CASE c < end
      BY <1>3, <1>11, <3>1, <3>2, <3>3, CellTyped
    <3>4. CASE ~(c < end)
      <4>1. a \div CubeSize = c
        BY <1>3, <3>1, <3>2, AtAddress
      <4>2. c \notin offset .. end - 1
        BY <1>6, <1>7, <3>4 DEF Cubes, Pos
      <4>3. m[a] = mem[Step.dst][a]
        BY <1>8, <4>1, <4>2
      <4> QED
        BY <1>3, <4>3 DEF IInv, CellsTyped
    <3> QED
      BY <3>3, <3>4
  <2>4. \A c \in Cubes, i \in Index :
          c < offset' => mem'[Step.dst][AddrOf(k.order, c, i)] = Cell(c, i, k.done)
    BY <1>5, <1>11, <2>1
  <2> QED
    BY <1>1, <1>2, <1>5, <2>1, <2>2, <2>3, <2>4, RoundKeeps DEF k
<1> QED
  BY <1>12, <1>13

\* Fused cube kernels.
LEMMA CubePlace ==
  ASSUME Configured, NEW a \in Address
  PROVE  a \div (n1 * n2) \in Blocks
<1> DEFINE m == cfg.batch * n0  d == n1 * n2
<1>1. n0 \in Pos /\ n1 \in Pos /\ n2 \in Pos /\ cfg.batch \in Pos /\ cfg.n0 = n0
  BY Sizes
<1>2. m \in Nat /\ d \in Pos
  BY <1>1, Products DEF Pos
<1>3. <<0, 1, 2>> \in Orders
  BY DEF Orders
<1>4. Total = cfg.batch * (n0 * n1 * n2)
  BY <1>3, CubeSizes, Sizes
<1>5. Total = m * d
  BY <1>1, <1>4 DEF Pos
<1>6. a \in 0 .. m * d - 1
  BY <1>5 DEF Address
<1> HIDE DEF m, d
<1>7. a \div d \in 0 .. m - 1
  BY <1>2, <1>6, QuotientBound
<1> QED
  BY <1>1, <1>7 DEF Blocks, m, d

LEMMA CubeNext ==
  ASSUME cfg' = cfg,
         status' = "running" => \A a \in Address : mem'["in"][a] = Natural(a, {}),
         \A g \in Blocks :
           /\ block'[g] # "spoilt"
           /\ block'[g] = "stored" =>
                \A a \in Address : a \div (n1 * n2) = g => mem'["out"][a] = Natural(a, Axes),
         status' = "success" => \A a \in Address : mem'["out"][a] = Natural(a, Axes)
  PROVE  CubeKept'
<1>1. Axes' = Axes
  BY DEF Axes
<1> QED
  BY <1>1, PlanFixed, PlacesFixed DEF CubeKept

LEMMA CubeLoadKeeps ==
  ASSUME IInv, \A c \in Configs : Admits(c) => Sound(c), NEW g \in Blocks, CubeLoad(g)
  PROVE  IInv'
<1>1. /\ status = "running" /\ Step.op = "cube" /\ block[g] = "waiting"
      /\ cfg' = cfg /\ pc' = pc /\ offset' = offset /\ mem' = mem /\ status' = status
  BY DEF CubeLoad, At
<1>2. cfg.kind = "fused_cube"
  <2>1. cfg.kind \notin Nodes
    BY <1>1, StepMoves
  <2> QED
    BY <2>1, NodeKinds
<1>3. Step.src = "in"
  BY <1>1, <1>2, NodeKinds DEF CubeFft
<1>4. block' = [block EXCEPT ![g] = "exact"]
  <2> DEFINE cube == {a \in Address : a \div CubeSize = g \div n0}
             untouched == \A a \in cube : mem[Step.src][a] = Natural(a, {})
  <2>1. untouched
    BY <1>1, <1>2, <1>3 DEF IInv, CubeKept
  <2>2. block' = [block EXCEPT ![g] = IF untouched THEN "exact" ELSE "spoilt"]
    BY DEF CubeLoad
  <2> HIDE DEF untouched
  <2> QED
    BY <2>1, <2>2
<1>5. block \in [Blocks -> {"waiting", "exact", "spoilt", "stored"}]
  BY DEF IInv, Control
<1>6. Control'
  <2>1. block' \in [Blocks' -> {"waiting", "exact", "spoilt", "stored"}]
    BY <1>1, <1>4, <1>5, PlanFixed
  <2>2. Program' = Program /\ Step' = Step
    BY <1>1, PlanFixed DEF Step
  <2>3. cfg' \in Configs /\ Admits(cfg)'
    BY <1>1 DEF IInv, Control
  <2> QED
    BY <1>1, <2>1, <2>2, <2>3 DEF IInv, Control
<1>7. CubeKept'
  <2>1. \A f \in Blocks :
          /\ block'[f] # "spoilt"
          /\ block'[f] = "stored" =>
               \A a \in Address : a \div (n1 * n2) = f => mem'["out"][a] = Natural(a, Axes)
    BY <1>1, <1>2, <1>4, <1>5 DEF IInv, CubeKept
  <2> QED
    BY <1>1, <1>2, <2>1, CubeNext DEF IInv, CubeKept
<1>8. CellsTyped'
  BY <1>1, TypedFixed DEF IInv, CellsTyped
<1>9. LaidOut' /\ PartMoved'
  BY <1>1, <1>2 DEF LaidOut, PartMoved, Nodes
<1> QED
  BY <1>6, <1>7, <1>8, <1>9 DEF IInv

LEMMA CubeStoreKeeps ==
  ASSUME IInv, \A c \in Configs : Admits(c) => Sound(c), NEW g \in Blocks, CubeStore(g)
  PROVE  IInv'
<1> DEFINE m == [a \in Address |->
                   IF a \div (n1 * n2) # g THEN mem[Step.dst][a]
                   ELSE IF block[g] = "exact" THEN Natural(a, Axes) ELSE Junk]
           last == \A h \in Blocks \ {g} : block[h] = "stored"
<1>1. /\ status = "running" /\ Step.op = "cube" /\ block[g] \in {"exact", "spoilt"}
      /\ cfg' = cfg /\ offset' = offset /\ block' = [block EXCEPT ![g] = "stored"]
      /\ mem' = [mem EXCEPT ![Step.dst] = m]
      /\ IF last THEN Advance ELSE UNCHANGED <<pc, status>>
  BY DEF CubeStore, At
<1>2. cfg.kind = "fused_cube" /\ Configured /\ Sound(cfg)
  <2>1. cfg.kind \notin Nodes
    BY <1>1, StepMoves
  <2> QED
    BY <2>1, NodeKinds DEF IInv, Control
<1>3. Step.dst = "out" /\ pc = 1 /\ Len(Program) = 1
  <2>1. Out = "out"
    BY <1>2 DEF Sound, Out
  <2> QED
    BY <1>1, <1>2, <2>1, NodeKinds DEF CubeFft
<1>4. block \in [Blocks -> {"waiting", "exact", "spoilt", "stored"}] /\ DOMAIN mem = Buffers
  BY DEF IInv, Control
<1>5. block[g] = "exact"
  BY <1>1, <1>2 DEF IInv, CubeKept
<1>6. \A a \in Address :
        m[a] = IF a \div (n1 * n2) = g THEN Natural(a, Axes) ELSE mem["out"][a]
  BY <1>3, <1>5
<1> HIDE DEF m
<1>7. /\ DOMAIN mem' = Buffers /\ mem'["out"] = m
      /\ \A b \in Buffers \ {"out"} : mem'[b] = mem[b]
  BY <1>1, <1>3, <1>4 DEF Buffers
<1>8. \A h \in Blocks : block'[h] = IF h = g THEN "stored" ELSE block[h]
  BY <1>1, <1>4
<1>9. \/ last /\ pc' = 2 /\ status' = "success"
      \/ pc' = 1 /\ status' = "running"
  BY <1>1, <1>3 DEF Advance
<1> HIDE DEF last
<1>10. Control'
  <2>1. block' \in [Blocks' -> {"waiting", "exact", "spoilt", "stored"}]
    BY <1>1, <1>4, PlanFixed
  <2>2. Program' = Program
    BY <1>1, PlanFixed
  <2>3. cfg' \in Configs /\ Admits(cfg)'
    BY <1>1 DEF IInv, Control
  <2>4. offset' = 0 /\ offset' \in 0 .. cfg'.batch - 1
    BY <1>1 DEF IInv, Control
  <2>5. Len(Program)' = 1
    BY <1>3, <2>2
  <2> QED
    BY <1>7, <1>9, <2>1, <2>3, <2>4, <2>5 DEF Control
<1>11. CubeKept'
  <2>1. status' = "running" => \A a \in Address : mem'["in"][a] = Natural(a, {})
    BY <1>1, <1>2, <1>7 DEF IInv, CubeKept, Buffers
  <2>2. \A h \in Blocks :
          /\ block'[h] # "spoilt"
          /\ block'[h] = "stored" =>
               \A a \in Address : a \div (n1 * n2) = h => mem'["out"][a] = Natural(a, Axes)
    BY <1>2, <1>6, <1>7, <1>8 DEF IInv, CubeKept
  <2>3. ASSUME status' = "success", NEW a \in Address
        PROVE  mem'["out"][a] = Natural(a, Axes)
    <3>1. last
      BY <1>9, <2>3
    <3>2. a \div (n1 * n2) \in Blocks
      BY <1>2, CubePlace
    <3>3. block'[a \div (n1 * n2)] = "stored"
      BY <1>8, <3>1, <3>2 DEF last
    <3> QED
      BY <2>2, <3>2, <3>3
  <2> QED
    BY <1>1, <2>1, <2>2, <2>3, CubeNext
<1>12. CellsTyped'
  <2>1. ASSUME NEW b \in Buffers, NEW a \in Address
        PROVE  Typed(mem'[b][a])
    <3>1. CASE b = "out" /\ a \div (n1 * n2) = g
      BY <1>2, <1>6, <1>7, <3>1, NaturalTyped
    <3>2. CASE b = "out" /\ a \div (n1 * n2) # g
      BY <1>6, <1>7, <3>2 DEF IInv, CellsTyped
    <3>3. CASE b # "out"
      BY <1>7, <3>3 DEF IInv, CellsTyped
    <3> QED
      BY <3>1, <3>2, <3>3
  <2> QED
    BY <1>1, <2>1, TypedFixed
<1>13. LaidOut' /\ PartMoved'
  BY <1>1, <1>2 DEF LaidOut, PartMoved, Nodes
<1> QED
  BY <1>10, <1>11, <1>12, <1>13 DEF IInv

\* A call that stops, and a step that changes nothing.
LEMMA StopKeeps ==
  ASSUME IInv, cfg' = cfg, pc' = pc, offset' = offset, block' = block, mem' = mem,
         status' = status \/ status' = "failed"
  PROVE  IInv'
<1>1. Program' = Program /\ Held' = Held /\ Step' = Step /\ Layouts' = Layouts
  BY PlanFixed DEF Step, Layouts, Buffers, Orders, Axes
<1>2. Control'
  <2>1. block' \in [Blocks' -> {"waiting", "exact", "spoilt", "stored"}]
    BY PlanFixed DEF IInv, Control
  <2>2. cfg' \in Configs /\ Admits(cfg)'
    BY DEF IInv, Control
  <2> QED
    BY <1>1, <2>1, <2>2 DEF IInv, Control
<1>3. LaidOut'
  <2> SUFFICES ASSUME cfg.kind \in Nodes, status # "failed", status' = status
               PROVE  (\E h \in Layouts : h = Held[pc] /\ Holds(mem[h.buf], h.order, h.done))'
    BY DEF LaidOut, Nodes
  <2>1. PICK h \in Layouts : h = Held[pc] /\ Holds(mem[h.buf], h.order, h.done)
    BY DEF IInv, LaidOut
  <2>2. Holds(mem[h.buf], h.order, h.done)'
    BY <2>1, HoldsFixed
  <2> QED
    BY <1>1, <2>1, <2>2
<1>4. PartMoved'
  <2> SUFFICES ASSUME cfg.kind \in Nodes, status = "running"
               PROVE  (\E h \in Layouts : h = Held[pc + 1] /\
                         \A c \in Cubes, i \in Index :
                           c < offset => mem[h.buf][AddrOf(h.order, c, i)] = Cell(c, i, h.done))'
    BY DEF PartMoved, Nodes
  <2>1. PICK h \in Layouts : h = Held[pc + 1] /\
          \A c \in Cubes, i \in Index :
            c < offset => mem[h.buf][AddrOf(h.order, c, i)] = Cell(c, i, h.done)
    BY DEF IInv, PartMoved
  <2>2. (\A c \in Cubes, i \in Index :
           c < offset => mem[h.buf][AddrOf(h.order, c, i)] = Cell(c, i, h.done))'
    BY <2>1, PlanFixed, PlacesFixed
  <2> QED
    BY <1>1, <2>1, <2>2
<1>5. CubeKept'
  <2> SUFFICES ASSUME cfg.kind = "fused_cube"
               PROVE  CubeKept'
    BY DEF CubeKept
  <2> QED
    BY CubeNext DEF IInv, CubeKept
<1>6. CellsTyped'
  BY TypedFixed DEF IInv, CellsTyped
<1> QED
  BY <1>2, <1>3, <1>4, <1>5, <1>6 DEF IInv

LEMMA Kept ==
  ASSUME IInv, \A c \in Configs : Admits(c) => Sound(c), [Next]_vars
  PROVE  IInv'
<1>1. CASE FftLaunch
  BY <1>1, FftKeeps
<1>2. CASE TransposeLaunch
  BY <1>2, TransposeKeeps
<1>3. CASE \E g \in Blocks : CubeLoad(g) \/ CubeStore(g)
  BY <1>3, CubeLoadKeeps, CubeStoreKeeps
<1>4. CASE StepFails
  BY <1>4, StopKeeps DEF StepFails
<1>5. CASE UNCHANGED vars
  BY <1>5, StopKeeps DEF vars
<1> QED
  BY <1>1, <1>2, <1>3, <1>4, <1>5 DEF Next
-----------------------------------------------------------------------------
(* The caller's input.                                                     *)

LEMMA Writes ==
  ASSUME [Next]_vars
  PROVE  /\ cfg' = cfg /\ (pc' = pc \/ pc' = pc + 1)
         /\ mem' = mem \/ \E m : mem' = [mem EXCEPT ![Step.dst] = m]
<1>1. CASE FftLaunch
  BY <1>1 DEF FftLaunch, Advance
<1>2. CASE TransposeLaunch
  <2> DEFINE end == IF offset + cfg.chunk < cfg.batch THEN offset + cfg.chunk ELSE cfg.batch
             m == [a \in Address |->
                     LET b == a \div CubeSize
                     IN  IF b \in offset .. end - 1
                         THEN mem[Step.src][b * CubeSize + TransposeSource(Step, a % CubeSize)]
                         ELSE mem[Step.dst][a]]
  <2>1. mem' = [mem EXCEPT ![Step.dst] = m] /\ cfg' = cfg /\ (pc' = pc \/ pc' = pc + 1)
    BY <1>2 DEF TransposeLaunch, Advance
  <2> HIDE DEF m
  <2> QED
    BY <2>1
<1>3. ASSUME NEW g \in Blocks, CubeLoad(g) \/ CubeStore(g)
      PROVE  /\ cfg' = cfg /\ (pc' = pc \/ pc' = pc + 1)
             /\ mem' = mem \/ \E m : mem' = [mem EXCEPT ![Step.dst] = m]
  <2>1. CASE CubeLoad(g)
    BY <2>1 DEF CubeLoad
  <2>2. CASE CubeStore(g)
    BY <2>2 DEF CubeStore, Advance
  <2> QED
    BY <1>3, <2>1, <2>2
<1>4. CASE StepFails
  BY <1>4 DEF StepFails
<1>5. CASE UNCHANGED vars
  BY <1>5 DEF vars
<1> QED
  BY <1>1, <1>2, <1>3, <1>4, <1>5 DEF Next

\* InputKept with where execute is and what it may write to.
IInput ==
  /\ cfg \in Configs /\ Admits(cfg) /\ pc \in Nat /\ pc > 0
  /\ DOMAIN mem = Buffers
  /\ InputKept

LEMMA InputInitially == Init => IInput
<1> SUFFICES ASSUME Init
             PROVE  IInput
  OBVIOUS
<1>1. DOMAIN mem = Buffers /\ \A a \in Address : mem["in"][a] = Natural(a, {})
  BY DEF Init, Buffers
<1> QED
  BY <1>1 DEF IInput, InputKept, Init

LEMMA InputStep == IInput /\ [Next]_vars => IInput'
<1> SUFFICES ASSUME IInput, [Next]_vars
             PROVE  IInput'
  OBVIOUS
<1> DEFINE l == Len(Program)
<1>1. /\ cfg' = cfg /\ (pc' = pc \/ pc' = pc + 1)
      /\ mem' = mem \/ \E m : mem' = [mem EXCEPT ![Step.dst] = m]
  BY Writes
<1>2. Spares(Program)
  BY Kinds, ProgramSpares DEF IInput, Configured
<1>3. l \in 1 .. 6 /\ pc \in Nat /\ pc > 0
  BY <1>2 DEF Spares, IInput
<1>4. DOMAIN mem' = Buffers
  BY <1>1 DEF IInput
<1>5. InputKept'
  <2> SUFFICES ASSUME pc' < Len(Program')
               PROVE  (\A a \in Address : mem["in"][a] = Natural(a, {}))'
    BY DEF InputKept
  <2>1. Len(Program') = l
    BY <1>1, PlanFixed
  <2>2. pc < l /\ pc \in 1 .. l
    <3> HIDE DEF l
    <3> QED
      BY <1>1, <1>3, <2>1
  <2>3. Step.dst # "in"
    BY <1>2, <2>2 DEF Spares, Step
  <2>4. mem'["in"] = mem["in"]
    BY <1>1, <2>3 DEF IInput, Buffers
  <2>5. \A a \in Address : mem["in"][a] = Natural(a, {})
    BY <2>2 DEF IInput, InputKept
  <2> QED
    BY <1>1, <2>4, <2>5, PlanFixed, PlacesFixed
<1>6. cfg' \in Configs /\ Admits(cfg)' /\ pc' \in Nat /\ pc' > 0
  BY <1>1, <1>3 DEF IInput
<1> QED
  BY <1>4, <1>5, <1>6 DEF IInput
-----------------------------------------------------------------------------
(* Theorems.                                                               *)

\* For every shape, batch, pack and chunk, whichever node compile_raw_3d_node
\* chose: the node's variables keep their types, and when execute returns
\* success every element of every cube of the batch is at its natural place,
\* transformed exactly once along each axis.  Assumed of the plans is that they
\* are Sound.
THEOREM NaturalOrderHolds ==
  ASSUME \A c \in Configs : Admits(c) => Sound(c)
  PROVE  Spec => []NaturalOrder
<1>1. Init => IInv
  BY Initially
<1>2. IInv /\ [Next]_vars => IInv'
  BY Kept
<1>3. IInv => NaturalOrder
  BY InvariantNatural
<1> QED
  BY <1>1, <1>2, <1>3, PTL DEF Spec

\* For every plan, a sound one or not: until the last launch of execute the
\* caller's input is as it was given, in place or not, so that a call that fails
\* before it can be repeated.
THEOREM InputKeptHolds == Spec => []InputKept
<1>1. IInput => InputKept
  BY DEF IInput
<1> QED
  BY <1>1, InputInitially, InputStep, PTL DEF Spec
=============================================================================
