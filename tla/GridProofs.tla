----------------------------- MODULE GridProofs -----------------------------
(***************************************************************************)
(* Theorems about Grid, for every shape, batch and chunk: every address a   *)
(* launch computes lies inside its buffer, the caller's input is kept, and   *)
(* what execute leaves is the transform of what it was given.                *)
(***************************************************************************)
EXTENDS Grid, TLAPS, FiniteSetTheorems

-----------------------------------------------------------------------------
(* Arithmetic.                                                             *)

Pos == Nat \ {0}

LEMMA Products ==
  ASSUME NEW x \in Nat, NEW y \in Nat
  PROVE  x * y \in Nat /\ (x > 0 /\ y > 0 => x * y > 0)
OBVIOUS

LEMMA Ordered ==
  ASSUME NEW a \in Nat, NEW b \in Nat, NEW d \in Nat, a <= b
  PROVE  a * d <= b * d
<1>1. (b - a) * d >= 0
  OBVIOUS
<1>2. b * d = a * d + (b - a) * d
  OBVIOUS
<1> QED
  BY <1>1, <1>2

LEMMA Division ==
  ASSUME NEW a \in Nat, NEW d \in Pos
  PROVE  /\ a \div d \in Nat /\ a % d \in 0 .. d - 1
         /\ a = (a \div d) * d + (a % d)
BY DEF Pos

\* A digit x below d after a number q below m stays below m * d.
LEMMA DigitBound ==
  ASSUME NEW m \in Nat, NEW q \in 0 .. m - 1, NEW d \in Pos, NEW x \in 0 .. d - 1
  PROVE  q * d + x \in 0 .. m * d - 1
<1>1. (m - 1 - q) * d >= 0
  BY DEF Pos
<1>2. m * d = q * d + d + (m - 1 - q) * d
  BY DEF Pos
<1>3. q * d \in Nat /\ m * d \in Nat
  BY DEF Pos
<1> QED
  BY <1>1, <1>2, <1>3 DEF Pos

LEMMA QuotientBound ==
  ASSUME NEW m \in Nat, NEW d \in Pos, NEW a \in 0 .. m * d - 1
  PROVE  a \div d \in 0 .. m - 1
<1> DEFINE q == a \div d  x == a % d
<1>0. m * d \in Nat
  BY DEF Pos
<1>1. a \in Nat /\ q \in Nat /\ a = q * d + x /\ x \in 0 .. d - 1
  BY <1>0, Division
<1> HIDE DEF q, x
<1>2. ASSUME q >= m
      PROVE  FALSE
  <2>1. (q - m) * d >= 0
    BY <1>1, <1>2 DEF Pos
  <2>2. q * d = m * d + (q - m) * d
    BY <1>1 DEF Pos
  <2>3. q * d \in Nat /\ m * d \in Nat
    BY <1>1 DEF Pos
  <2> QED
    BY <1>1, <2>1, <2>2, <2>3 DEF Pos
<1>3. q \in 0 .. m - 1
  BY <1>1, <1>2
<1> QED
  BY <1>3 DEF q

LEMMA ExactQuotient ==
  ASSUME NEW q \in Nat, NEW d \in Pos
  PROVE  (q * d) \div d = q /\ q * d \in Nat
BY DEF Pos

-----------------------------------------------------------------------------
(* Shapes and buffers.                                                     *)

Configured == cfg \in Configs /\ Admits(cfg)

Forms == {"full", "half", "real", "mid"}

LEMMA Shapes ==
  ASSUME Configured
  PROVE  /\ cfg.batch \in Pos /\ cfg.chunk \in Pos
         /\ n0 \in Pos /\ n1 \in Pos /\ n2 \in Pos /\ half \in Pos
         /\ n2 <= 2 * half
         /\ cfg.inPlace \in BOOLEAN /\ cfg.type \in {"c2c", "r2c", "c2r"}
         /\ cfg.rank \in {2, 3} /\ (cfg.rank = 3 => cfg.type # "c2c")
         /\ cfg.rank = 2 => n0 = 1
<1>1. /\ cfg.batch \in Pos /\ cfg.chunk \in Pos
      /\ n0 \in Pos /\ n1 \in Pos /\ n2 \in Pos
      /\ cfg.inPlace \in BOOLEAN /\ cfg.type \in {"c2c", "r2c", "c2r"}
      /\ cfg.rank \in {2, 3}
  BY ConfigsType DEF Configured, n0, n1, n2, Pos
<1>2. half \in Pos /\ n2 <= 2 * half
  <2> DEFINE q == n2 \div 2
  <2>1. q \in Nat /\ n2 \in Nat /\ n2 <= 2 * q + 1
    BY <1>1 DEF Pos
  <2>2. half = q + 1
    BY DEF half
  <2> HIDE DEF q
  <2> QED
    BY <2>1, <2>2 DEF Pos
<1>3. cfg.rank = 3 => cfg.type # "c2c"
  BY DEF Configured, Admits
<1>4. cfg.rank = 2 => n0 = 1
  BY DEF Configured, Admits, n0
<1> QED
  BY <1>1, <1>2, <1>3, <1>4

LEMMA FormSizes ==
  ASSUME Configured, NEW f
  PROVE  /\ Width(f) \in Pos /\ Words(f) \in {1, 2} /\ Elements(f) \in Pos
         /\ n0 * n1 * Width(f) \in Pos /\ n1 * Width(f) \in Pos
         /\ cfg.batch * n0 \in Pos /\ cfg.batch * n0 * n1 \in Pos
<1>1. Width(f) \in Pos /\ Words(f) \in {1, 2}
  BY Shapes DEF Width, Words
<1>2. n1 * Width(f) \in Pos /\ cfg.batch * n0 \in Pos
  BY <1>1, Shapes, Products DEF Pos
<1>3. n0 * n1 \in Pos /\ cfg.batch * n0 * n1 \in Pos
  BY <1>2, Shapes, Products DEF Pos
<1>4. n0 * n1 * Width(f) \in Pos /\ cfg.batch * n0 * n1 * Width(f) \in Pos
  BY <1>1, <1>3, Products DEF Pos
<1> QED
  BY <1>1, <1>2, <1>3, <1>4 DEF Elements

\* A buffer that takes an array of the given form.
RoomFor(b, f) == b \in Buffers /\ Words(f) * Elements(f) <= Size(b)

LEMMA SizesTyped ==
  ASSUME Configured, NEW b \in Buffers
  PROVE  Size(b) \in Nat
<1>1. \A f : Elements(f) \in Nat /\ Words(f) \in {1, 2}
  BY FormSizes DEF Pos
<1>2. \A f : Words(f) * Elements(f) \in Nat /\ 2 * Elements(f) \in Nat
  BY <1>1
<1> QED
  BY <1>2 DEF Size, Buffers, Larger

LEMMA Temporaries ==
  ASSUME Configured, NEW b \in {"t1", "t2", "stage"}
  PROVE  /\ RoomFor(b, Inner) /\ RoomFor(b, "mid") /\ b # "in"
         /\ cfg.type # "c2c" => RoomFor(b, "half")
<1>1. Elements("mid") = Elements(Inner) /\ Words("mid") = 2 /\ Words(Inner) = 2
  BY Shapes DEF Elements, Width, Words, Inner
<1>2. cfg.type # "c2c" => Inner = "half"
  BY DEF Inner
<1>3. Size(b) = 2 * Elements(Inner) /\ b \in Buffers
  BY DEF Size, Buffers
<1>4. Elements(Inner) \in Nat
  BY FormSizes DEF Pos
<1> QED
  BY <1>1, <1>2, <1>3, <1>4 DEF RoomFor

LEMMA RowBuffer ==
  ASSUME Configured, cfg.type # "c2c"
  PROVE  RoomFor("row", "full")
<1>1. Elements("full") \in Nat
  BY FormSizes DEF Pos
<1> QED
  BY <1>1 DEF RoomFor, Size, Buffers, Words

LEMMA CallersArrays ==
  ASSUME Configured
  PROVE  RoomFor("in", Given) /\ RoomFor(Out, Wanted) /\ (Out = "in" => cfg.inPlace)
<1>1. \A f : Words(f) * Elements(f) \in Nat
  BY FormSizes DEF Pos
<1> QED
  BY <1>1, Shapes DEF RoomFor, Size, Buffers, Out, Larger

LEMMA FormNames ==
  ASSUME Configured
  PROVE  /\ Inner \in Forms /\ Given \in Forms /\ Wanted \in Forms
         /\ cfg.type = "c2c" => Inner = "full" /\ Given = "full" /\ Wanted = "full"
         /\ cfg.type = "r2c" => Inner = "half" /\ Given = "real" /\ Wanted = "half"
         /\ cfg.type = "c2r" => Inner = "half" /\ Given = "half" /\ Wanted = "real"
         /\ Forward <=> cfg.type # "c2r"
BY Shapes DEF Inner, Given, Wanted, Forms, Forward
-----------------------------------------------------------------------------
(* Launches that stay inside their buffers.                                *)

Divides(d, x) == d \in Pos /\ \E q \in Nat : x = q * d

LEMMA PlaceBound ==
  ASSUME NEW s, NEW layout \in {"rows", "strided", "outer", "inner"},
         NEW len \in Pos, NEW R \in Pos, NEW r \in 0 .. R - 1, NEW k \in 0 .. len - 1,
         layout # "rows" => Divides(s.span, R),
         layout = "inner" => R = RowCount(s)
  PROVE  Place(s, layout, len, r, k) \in 0 .. R * len - 1
<1>1. CASE layout = "rows"
  <2>1. r * len + k \in 0 .. R * len - 1
    BY DigitBound DEF Pos
  <2> QED
    BY <1>1, <2>1 DEF Place
<1>2. ASSUME layout # "rows"
      PROVE  Place(s, layout, len, r, k) \in 0 .. R * len - 1
  <2> DEFINE d == s.span
  <2>1. PICK q \in Nat : R = q * d
    BY <1>2 DEF Divides
  <2>2. d \in Pos
    BY <1>2 DEF Divides
  <2> HIDE DEF d
  <2>3. q \in Pos
    BY <2>1, <2>2 DEF Pos
  <2> DEFINE b == r \div d  x == r % d
  <2>4. b \in 0 .. q - 1
    BY <2>1, <2>2, QuotientBound
  <2>5. x \in 0 .. d - 1
    BY <2>2, Division
  <2> HIDE DEF b, x
  <2>6. CASE layout \in {"strided", "outer"}
    <3>1. k * d + x \in 0 .. len * d - 1
      BY <2>2, <2>5, DigitBound DEF Pos
    <3>2. len * d \in Pos
      BY <2>2, Products DEF Pos
    <3>3. b * (len * d) + (k * d + x) \in 0 .. q * (len * d) - 1
      BY <2>3, <2>4, <3>1, <3>2, DigitBound DEF Pos
    <3>4. q * (len * d) = R * len
      BY <2>1, <2>2 DEF Pos
    <3>5. Place(s, layout, len, r, k) = b * (len * d) + k * d + x
      BY <2>6 DEF Place, b, d, x
    <3>6. b * (len * d) \in Nat /\ k * d \in Nat
      BY <2>2, <2>4, <3>2, Products DEF Pos
    <3> QED
      BY <2>5, <3>3, <3>4, <3>5, <3>6
  <2>7. CASE layout = "inner"
    <3>1. R \div d = q
      BY <2>1, <2>2, ExactQuotient
    <3>2. x * q + b \in 0 .. d * q - 1
      BY <2>2, <2>3, <2>4, <2>5, DigitBound DEF Pos
    <3>3. d * q = R
      BY <2>1, <2>2 DEF Pos
    <3>4. k * R + (x * q + b) \in 0 .. len * R - 1
      BY <3>2, <3>3, DigitBound DEF Pos
    <3>5. Place(s, layout, len, r, k) = k * R + x * q + b
      BY <2>7, <3>1 DEF Place, b, d, x
    <3>6. k * R \in Nat /\ x * q \in Nat /\ len * R = R * len
      BY <2>3, <2>5, Products DEF Pos
    <3> QED
      BY <2>4, <3>4, <3>5, <3>6
  <2> QED
    BY <1>2, <2>6, <2>7
<1> QED
  BY <1>1, <1>2

\* The word of a place, on a buffer with room for n elements.
LEMMA WordBound ==
  ASSUME NEW w \in {1, 2}, NEW n \in Nat, NEW p \in 0 .. n - 1
  PROVE  w * p \in Nat /\ w * p + w <= w * n
OBVIOUS

\* The axes a launch may take its lines along: one axis, a plane or a cube.
AxisLists == {<<0>>, <<1>>, <<2>>, <<1, 2>>, <<0, 1, 2>>}

LEMMA LineCounts ==
  ASSUME Configured, NEW s
  PROVE  /\ s.axes = <<0>> => /\ RowCount(s) = cfg.batch * n1 * Width(s.from)
                              /\ Length(s, s.from) = n0 /\ Length(s, s.to) = n0
         /\ s.axes = << 1 >> => /\ RowCount(s) = cfg.batch * n0 * Width(s.from)
                                /\ Length(s, s.from) = n1 /\ Length(s, s.to) = n1
         /\ s.axes = <<2>> => /\ RowCount(s) = cfg.batch * n0 * n1
                              /\ Length(s, s.from) = Width(s.from)
                              /\ Length(s, s.to) = Width(s.to)
         /\ s.axes = <<1, 2>> => /\ RowCount(s) = cfg.batch * n0
                                 /\ Length(s, s.from) = n1 * Width(s.from)
                                 /\ Length(s, s.to) = n1 * Width(s.to)
         /\ s.axes = <<0, 1, 2>> => /\ RowCount(s) = cfg.batch
                                    /\ Length(s, s.from) = n0 * n1 * Width(s.from)
                                    /\ Length(s, s.to) = n0 * n1 * Width(s.to)
<1> DEFINE W == Width(s.from)  B == cfg.batch  E == Elements(s.from)
<1>1. W \in Pos /\ B \in Pos /\ n0 \in Pos /\ n1 \in Pos /\ E = B * n0 * n1 * W
  BY Shapes, FormSizes DEF Elements
<1>2. /\ B * n1 * W \in Pos /\ B * n0 * W \in Pos /\ B * n0 * n1 \in Pos /\ B * n0 \in Pos
      /\ n1 * W \in Pos /\ n0 * n1 * W \in Pos
  <2>1. B * n1 \in Pos /\ B * n0 \in Pos /\ n0 * n1 \in Pos /\ n1 * W \in Pos
    BY <1>1, Products DEF Pos
  <2> QED
    BY <1>1, <2>1, Products DEF Pos
<1> HIDE DEF W, B, E
<1>3. CASE s.axes = <<0>>
  <2>1. Length(s, s.from) = n0 /\ Length(s, s.to) = n0
    BY <1>3 DEF Length, Extent
  <2>2. E = (B * n1 * W) * n0
    BY <1>1 DEF Pos
  <2>3. RowCount(s) = B * n1 * W
    BY <1>1, <1>2, <2>1, <2>2, ExactQuotient DEF RowCount, E, Pos
  <2> QED
    BY <1>3, <2>1, <2>3 DEF B, W
<1>4. CASE s.axes = << 1 >>
  <2>1. Length(s, s.from) = n1 /\ Length(s, s.to) = n1
    BY <1>4 DEF Length, Extent
  <2>2. E = (B * n0 * W) * n1
    BY <1>1 DEF Pos
  <2>3. RowCount(s) = B * n0 * W
    BY <1>1, <1>2, <2>1, <2>2, ExactQuotient DEF RowCount, E, Pos
  <2> QED
    BY <1>4, <2>1, <2>3 DEF B, W
<1>5. CASE s.axes = <<2>>
  <2>1. Length(s, s.from) = W /\ Length(s, s.to) = Width(s.to)
    BY <1>5 DEF Length, Extent, W
  <2>3. RowCount(s) = B * n0 * n1
    BY <1>1, <1>2, <2>1, ExactQuotient DEF RowCount, E, Pos
  <2> QED
    BY <1>5, <2>1, <2>3 DEF B, W
<1>6. CASE s.axes = <<1, 2>>
  <2>1. Length(s, s.from) = n1 * W /\ Length(s, s.to) = n1 * Width(s.to)
    BY <1>6 DEF Length, Extent, W
  <2>2. E = (B * n0) * (n1 * W)
    BY <1>1, <1>2 DEF Pos
  <2>3. RowCount(s) = B * n0
    BY <1>1, <1>2, <2>1, <2>2, ExactQuotient DEF RowCount, E, Pos
  <2> QED
    BY <1>6, <2>1, <2>3 DEF B, W
<1>7. CASE s.axes = <<0, 1, 2>>
  <2>1. Length(s, s.from) = n0 * n1 * W /\ Length(s, s.to) = n0 * n1 * Width(s.to)
    BY <1>7 DEF Length, Extent, W
  <2>2. E = B * (n0 * n1 * W)
    BY <1>1, <1>2 DEF Pos
  <2>3. RowCount(s) = B
    BY <1>1, <1>2, <2>1, <2>2, ExactQuotient DEF RowCount, E, Pos
  <2> QED
    BY <1>7, <2>1, <2>3 DEF B, W
<1> QED
  BY <1>3, <1>4, <1>5, <1>6, <1>7

\* A launch from whole lines to whole lines.  Only lines along the contiguous
\* axis may change their length.
Lined(s) ==
  /\ s.axes \in AxisLists
  /\ s.axes \in {<<0>>, << 1 >>} => Width(s.from) = Width(s.to)

LEMMA LinesCover ==
  ASSUME Configured, NEW s, Lined(s)
  PROVE  /\ RowCount(s) \in Pos /\ Length(s, s.from) \in Pos /\ Length(s, s.to) \in Pos
         /\ RowCount(s) * Length(s, s.from) = Elements(s.from)
         /\ RowCount(s) * Length(s, s.to) = Elements(s.to)
<1> DEFINE W == Width(s.from)  V == Width(s.to)  B == cfg.batch
<1>1. /\ W \in Pos /\ V \in Pos /\ B \in Pos /\ n0 \in Pos /\ n1 \in Pos
      /\ Elements(s.from) = B * n0 * n1 * W /\ Elements(s.to) = B * n0 * n1 * V
  BY Shapes, FormSizes DEF Elements
<1>2. s.axes \in {<<0>>, << 1 >>} => W = V
  BY DEF Lined
<1>3. s.axes \in AxisLists
  BY DEF Lined
<1>4. /\ s.axes = <<0>> => /\ RowCount(s) = B * n1 * W
                           /\ Length(s, s.from) = n0 /\ Length(s, s.to) = n0
      /\ s.axes = << 1 >> => /\ RowCount(s) = B * n0 * W
                             /\ Length(s, s.from) = n1 /\ Length(s, s.to) = n1
      /\ s.axes = <<2>> => /\ RowCount(s) = B * n0 * n1
                           /\ Length(s, s.from) = W /\ Length(s, s.to) = V
      /\ s.axes = <<1, 2>> => /\ RowCount(s) = B * n0
                              /\ Length(s, s.from) = n1 * W /\ Length(s, s.to) = n1 * V
      /\ s.axes = <<0, 1, 2>> => /\ RowCount(s) = B
                                 /\ Length(s, s.from) = n0 * n1 * W
                                 /\ Length(s, s.to) = n0 * n1 * V
  BY LineCounts
<1> HIDE DEF W, V, B
<1>5. /\ B * n1 * W \in Pos /\ B * n0 * W \in Pos /\ B * n0 * n1 \in Pos /\ B * n0 \in Pos
      /\ n1 * W \in Pos /\ n0 * n1 * W \in Pos /\ n1 * V \in Pos /\ n0 * n1 * V \in Pos
  <2>1. B * n1 \in Pos /\ B * n0 \in Pos /\ n0 * n1 \in Pos /\ n1 * W \in Pos /\ n1 * V \in Pos
    BY <1>1, Products DEF Pos
  <2> QED
    BY <1>1, <2>1, Products DEF Pos
<1>6. RowCount(s) \in Pos /\ Length(s, s.from) \in Pos /\ Length(s, s.to) \in Pos
  BY <1>1, <1>3, <1>4, <1>5 DEF AxisLists
<1>7. CASE s.axes = <<0>>
  <2>1. (B * n1 * W) * n0 = B * n0 * n1 * W
    BY <1>1 DEF Pos
  <2> QED
    BY <1>1, <1>2, <1>4, <1>6, <1>7, <2>1
<1>8. CASE s.axes = << 1 >>
  <2>1. (B * n0 * W) * n1 = B * n0 * n1 * W
    BY <1>1 DEF Pos
  <2> QED
    BY <1>1, <1>2, <1>4, <1>6, <1>8, <2>1
<1>9. CASE s.axes = <<2>>
  BY <1>1, <1>4, <1>6, <1>9
<1>10. CASE s.axes = <<1, 2>>
  <2>1. (B * n0) * (n1 * W) = B * n0 * n1 * W /\ (B * n0) * (n1 * V) = B * n0 * n1 * V
    BY <1>1 DEF Pos
  <2> QED
    BY <1>1, <1>4, <1>6, <1>10, <2>1
<1>11. CASE s.axes = <<0, 1, 2>>
  <2>1. B * (n0 * n1 * W) = B * n0 * n1 * W /\ B * (n0 * n1 * V) = B * n0 * n1 * V
    BY <1>1 DEF Pos
  <2> QED
    BY <1>1, <1>4, <1>6, <1>11, <2>1
<1> QED
  BY <1>3, <1>7, <1>8, <1>9, <1>10, <1>11 DEF AxisLists
\* Where the lines of a launch lie: in one go or by blocks of columns, in
\* chunks of rows, item by item, or in padded rows, one for each item.
InOneGo(s) ==
  /\ s.loop \in {"none", "columns"}
  /\ s.load \in {"rows", "strided"} /\ s.store \in {"rows", "strided", "outer", "inner"}
  /\ s.load # "rows" \/ s.store # "rows" => Divides(s.span, RowCount(s))
InChunks(s) ==
  /\ s.loop = "rows" /\ s.load = "rows" /\ s.store = "rows"
  /\ s.perRow[1] = Words(s.from) * Length(s, s.from)
  /\ s.perRow[2] = Words(s.to) * Length(s, s.to)
ItemByItem(s) ==
  /\ s.loop = "item" /\ s.load = "rows" /\ s.store = "outer"
  /\ \E R \in Pos : /\ RowCount(s) = cfg.batch * R /\ Divides(s.span, R)
                    /\ Words(s.from) * (R * Length(s, s.from)) = ItemWords
                    /\ Words(s.to) * (R * Length(s, s.to)) = ItemWords
Padded(s, b) == n0 = 1 /\ n1 = 1 /\ s.axes = <<2>> /\ 2 * half * cfg.batch <= Size(b)
InPaddedRows(s) ==
  /\ s.loop = "none"
  /\ s.load \in {"rows", "padded"} /\ s.store \in {"rows", "padded"}
  /\ s.load = "padded" => s.from = "real" /\ Padded(s, s.src)
  /\ s.store = "padded" => s.to = "real" /\ Padded(s, s.dst)

\* A step of a program that does not leave its buffers.
StepFits(s) ==
  /\ s.src \in Buffers /\ s.dst \in Buffers /\ (s.dst = "in" => cfg.inPlace)
  /\ \/ /\ s.op = "perm" /\ s.loop \in {"none", "batch"}
        /\ cfg.batch * s.dims[1] * s.dims[2] * s.dims[3] * 2 <= Least(Size(s.src), Size(s.dst))
     \/ /\ s.op = "lines" /\ Lined(s)
        /\ RoomFor(s.src, s.from) /\ RoomFor(s.dst, s.to)
        /\ InOneGo(s) \/ InChunks(s) \/ ItemByItem(s) \/ InPaddedRows(s)

\* One side of a launch stays inside its buffer.
SideIn(s, layout, f, base, b) ==
  \A r \in Launched(s), k \in 0 .. Length(s, f) - 1 :
    base + Words(f) * Place(s, layout, Length(s, f), r, k) + Words(f) <= Size(b)

\* Every side reaches a place below the number of elements of its form.
LEMMA SideInside ==
  ASSUME Configured, NEW s, NEW layout, NEW f, NEW base, NEW b, RoomFor(b, f),
         \A r \in Launched(s), k \in 0 .. Length(s, f) - 1 :
           \E o \in Nat, p \in Nat :
             /\ base = Words(f) * o /\ p = Place(s, layout, Length(s, f), r, k)
             /\ o + p < Elements(f)
  PROVE  SideIn(s, layout, f, base, b)
<1> SUFFICES ASSUME NEW r \in Launched(s), NEW k \in 0 .. Length(s, f) - 1
             PROVE  base + Words(f) * Place(s, layout, Length(s, f), r, k) + Words(f) <= Size(b)
  BY DEF SideIn
<1>1. PICK o \in Nat, p \in Nat :
             /\ base = Words(f) * o /\ p = Place(s, layout, Length(s, f), r, k)
             /\ o + p < Elements(f)
  OBVIOUS
<1>2. Words(f) \in {1, 2} /\ Elements(f) \in Nat
  BY FormSizes DEF Pos
<1>3. Words(f) * Elements(f) <= Size(b) /\ Size(b) \in Nat
  BY SizesTyped DEF RoomFor
<1>4. o + p \in 0 .. Elements(f) - 1
  BY <1>1, <1>2
<1>5. Words(f) * (o + p) + Words(f) <= Words(f) * Elements(f)
  BY <1>2, <1>4, WordBound
<1> DEFINE w == Words(f)  e == Elements(f)  z == Size(b)
<1> HIDE DEF w, e, z
<1>6. w * (o + p) = w * o + w * p /\ w * o \in Nat /\ w * p \in Nat
  BY <1>2 DEF w
<1>7. w * e \in Nat
  BY <1>2 DEF w, e
<1> QED
  BY <1>1, <1>2, <1>3, <1>5, <1>6, <1>7 DEF w, e, z

\* The rows of a launch are rows of the array.
LEMMA LaunchedRows ==
  ASSUME Configured, NEW s, Lined(s), offset \in Nat, NEW r \in Launched(s)
  PROVE  /\ s.loop \notin {"rows", "item"} => r \in 0 .. RowCount(s) - 1
         /\ s.loop = "rows" => r \in Nat /\ offset + r \in 0 .. RowCount(s) - 1
         /\ s.loop = "item" => r \in 0 .. RowCount(s) \div cfg.batch - 1
<1>1. RowCount(s) \in Pos /\ cfg.chunk \in Pos
  BY LinesCover, Shapes
<1>2. CASE s.loop = "rows"
  <2>1. r \in 0 .. Least(cfg.chunk, RowCount(s) - offset) - 1
    BY <1>2 DEF Launched
  <2> QED
    BY <1>1, <1>2, <2>1 DEF Least, Pos
<1>3. CASE s.loop = "item"
  BY <1>3 DEF Launched
<1>4. CASE s.loop \notin {"rows", "item"}
  BY <1>4 DEF Launched
<1> QED
  BY <1>2, <1>3, <1>4

\* A side of a launch in one go.
LEMMA OneGoSide ==
  ASSUME Configured, NEW s, Lined(s), InOneGo(s), offset \in Nat,
         NEW f \in {s.from, s.to}, NEW layout \in {s.load, s.store}, NEW b, RoomFor(b, f)
  PROVE  SideIn(s, layout, f, 0, b)
<1>1. /\ RowCount(s) \in Pos /\ Length(s, f) \in Pos
      /\ RowCount(s) * Length(s, f) = Elements(f)
  BY LinesCover
<1>2. layout \in {"rows", "strided", "outer", "inner"}
      /\ (layout # "rows" => Divides(s.span, RowCount(s)))
  BY DEF InOneGo
<1>3. ASSUME NEW r \in Launched(s), NEW k \in 0 .. Length(s, f) - 1
      PROVE  Place(s, layout, Length(s, f), r, k) \in 0 .. Elements(f) - 1
  <2>1. r \in 0 .. RowCount(s) - 1
    BY LaunchedRows DEF InOneGo
  <2>2. Place(s, layout, Length(s, f), r, k) \in 0 .. RowCount(s) * Length(s, f) - 1
    BY <1>1, <1>2, <2>1, PlaceBound
  <2> QED
    BY <1>1, <2>2
<1>4. Words(f) \in {1, 2} /\ Elements(f) \in Nat
  BY FormSizes DEF Pos
<1>5. ASSUME NEW r \in Launched(s), NEW k \in 0 .. Length(s, f) - 1
      PROVE  \E o \in Nat, p \in Nat :
               /\ 0 = Words(f) * o /\ p = Place(s, layout, Length(s, f), r, k)
               /\ o + p < Elements(f)
  <2> DEFINE p == Place(s, layout, Length(s, f), r, k)
  <2>1. p \in Nat /\ 0 + p < Elements(f)
    BY <1>3, <1>4, <1>5
  <2>2. 0 = Words(f) * 0
    BY <1>4
  <2> HIDE DEF p
  <2> QED
    BY <2>1, <2>2 DEF p
<1> QED
  BY <1>5, SideInside

LEMMA ChunkSide ==
  ASSUME Configured, NEW s, Lined(s), InChunks(s), offset \in Nat,
         NEW f \in {s.from, s.to}, NEW b, RoomFor(b, f)
  PROVE  SideIn(s, "rows", f, offset * (Words(f) * Length(s, f)), b)
<1> DEFINE len == Length(s, f)  R == RowCount(s)  w == Words(f)  base == offset * (w * len)
<1>1. R \in Pos /\ len \in Pos /\ R * len = Elements(f) /\ w \in {1, 2}
  BY LinesCover, FormSizes
<1>2. ASSUME NEW r \in Launched(s), NEW k \in 0 .. len - 1
      PROVE  \E o \in Nat, p \in Nat :
               base = w * o /\ p = Place(s, "rows", len, r, k) /\ o + p < Elements(f)
  <2>1. r \in Nat /\ offset + r \in 0 .. R - 1
    BY LaunchedRows DEF InChunks
  <2>2. Place(s, "rows", len, r, k) = r * len + k
    BY DEF Place
  <2> HIDE DEF len, R, w
  <2>3. (offset + r) * len + k \in 0 .. R * len - 1
    BY <1>1, <1>2, <2>1, DigitBound DEF Pos
  <2>4. (offset + r) * len = offset * len + r * len /\ offset * len \in Nat /\ r * len \in Nat
    BY <1>1, <2>1 DEF Pos
  <2>5. base = w * (offset * len)
    BY <1>1, <2>4 DEF Pos
  <2>6. r * len + k \in Nat /\ offset * len + (r * len + k) < Elements(f)
    BY <1>1, <1>2, <2>3, <2>4 DEF Pos
  <2> QED
    BY <2>2, <2>4, <2>5, <2>6
<1>3. \A r \in Launched(s), k \in 0 .. Length(s, f) - 1 : \E o \in Nat, p \in Nat :
         base = Words(f) * o /\ p = Place(s, "rows", Length(s, f), r, k) /\ o + p < Elements(f)
  BY <1>2
<1> HIDE DEF base
<1>4. SideIn(s, "rows", f, base, b)
  BY <1>3, SideInside
<1> QED
  BY <1>4 DEF base

LEMMA ItemSide ==
  ASSUME Configured, NEW s, Lined(s), ItemByItem(s), offset \in 0 .. cfg.batch - 1,
         NEW f \in {s.from, s.to}, NEW layout \in {"rows", "outer"}, NEW b, RoomFor(b, f)
  PROVE  SideIn(s, layout, f, offset * ItemWords, b)
<1> DEFINE len == Length(s, f)  w == Words(f)  base == offset * ItemWords  B == cfg.batch
<1>1. PICK R \in Pos : /\ RowCount(s) = B * R /\ Divides(s.span, R)
                       /\ w * (R * len) = ItemWords
  BY DEF ItemByItem
<1>2. len \in Pos /\ RowCount(s) * len = Elements(f) /\ w \in {1, 2} /\ B \in Pos
  BY LinesCover, FormSizes, Shapes
<1>3. RowCount(s) \div B = R
  <2>1. RowCount(s) = R * B
    BY <1>1, <1>2 DEF Pos
  <2> QED
    BY <1>1, <1>2, <2>1, ExactQuotient DEF Pos
<1>4. ASSUME NEW r \in Launched(s), NEW k \in 0 .. len - 1
      PROVE  \E o \in Nat, p \in Nat :
               base = w * o /\ p = Place(s, layout, len, r, k) /\ o + p < Elements(f)
  <2>1. r \in 0 .. R - 1
    BY <1>3, LaunchedRows DEF ItemByItem
  <2> DEFINE p == Place(s, layout, len, r, k)  N == R * len
  <2>2. p \in 0 .. N - 1
    BY <1>1, <1>2, <1>4, <2>1, PlaceBound
  <2> HIDE DEF len, w, B, p
  <2>3. N \in Pos
    BY <1>1, <1>2, Products DEF Pos
  <2>4. B * N = Elements(f)
    BY <1>1, <1>2 DEF Pos
  <2>5. offset \in 0 .. B - 1
    BY DEF B
  <2> HIDE DEF N
  <2>6. offset * N + p \in 0 .. B * N - 1 /\ offset * N \in Nat
    BY <1>2, <2>2, <2>3, <2>5, DigitBound, Products DEF Pos
  <2>7. base = w * (offset * N)
    BY <1>1, <1>2, <2>3, <2>5 DEF N, Pos
  <2>8. p \in Nat /\ offset * N + p < Elements(f)
    BY <1>2, <2>2, <2>3, <2>4, <2>6 DEF Pos
  <2> QED
    BY <2>6, <2>7, <2>8 DEF p
<1>5. \A r \in Launched(s), k \in 0 .. Length(s, f) - 1 : \E o \in Nat, p \in Nat :
         base = Words(f) * o /\ p = Place(s, layout, Length(s, f), r, k) /\ o + p < Elements(f)
  BY <1>4
<1> HIDE DEF base
<1>6. SideIn(s, layout, f, base, b)
  BY <1>5, SideInside
<1> QED
  BY <1>6 DEF base

\* A padded row of real numbers has two words for each element of its
\* spectrum.
LEMMA PaddedSide ==
  ASSUME Configured, NEW s, Lined(s), s.loop = "none", offset \in Nat,
         NEW f \in {s.from, s.to}, NEW layout \in {"rows", "padded"}, NEW b, RoomFor(b, f),
         layout = "padded" => f = "real" /\ Padded(s, b)
  PROVE  SideIn(s, layout, f, 0, b)
<1>1. /\ RowCount(s) \in Pos /\ Length(s, f) \in Pos
      /\ RowCount(s) * Length(s, f) = Elements(f)
  BY LinesCover
<1>2. \A r \in Launched(s) : r \in 0 .. RowCount(s) - 1
  BY LaunchedRows
<1>3. CASE layout = "rows"
  <2>1. ASSUME NEW r \in Launched(s), NEW k \in 0 .. Length(s, f) - 1
        PROVE  \E o \in Nat, p \in Nat :
                 /\ 0 = Words(f) * o /\ p = Place(s, layout, Length(s, f), r, k)
                 /\ o + p < Elements(f)
    <3> DEFINE p == Place(s, layout, Length(s, f), r, k)
    <3>1. p \in 0 .. RowCount(s) * Length(s, f) - 1
      BY <1>1, <1>2, <1>3, PlaceBound
    <3>2. Words(f) \in {1, 2} /\ Elements(f) \in Nat
      BY FormSizes DEF Pos
    <3>3. p \in Nat /\ 0 + p < Elements(f) /\ 0 = Words(f) * 0
      BY <1>1, <3>1, <3>2
    <3> HIDE DEF p
    <3> QED
      BY <3>3 DEF p
  <2> QED
    BY <2>1, SideInside
<1>4. CASE layout = "padded"
  <2>1. s.axes = <<2>> /\ f = "real" /\ 2 * half * cfg.batch <= Size(b) /\ n0 = 1 /\ n1 = 1
    BY <1>4 DEF Padded
  <2>2. RowCount(s) = cfg.batch /\ Length(s, f) = n2 /\ Words(f) = 1
    <3>1. RowCount(s) = cfg.batch * n0 * n1 /\ Length(s, f) = Width(f)
      BY <2>1, LineCounts
    <3> QED
      BY <2>1, <3>1, Shapes DEF Width, Words, Pos
  <2>3. ASSUME NEW r \in Launched(s), NEW k \in 0 .. n2 - 1
        PROVE  Place(s, "padded", n2, r, k) \in Nat /\ Place(s, "padded", n2, r, k) < Size(b)
    <3> DEFINE h == 2 * half  B == cfg.batch  z == Size(b)
    <3>1. h \in Pos /\ B \in Pos /\ n2 \in Pos /\ n2 <= h /\ z \in Nat /\ B * h <= z
      BY <2>1, Shapes, SizesTyped DEF Pos, RoomFor
    <3>2. r \in 0 .. B - 1
      BY <1>2, <2>2
    <3>3. Place(s, "padded", n2, r, k) = r * h + k
      BY Shapes, <3>2 DEF Place, Pos
    <3> HIDE DEF h, B, z
    <3>4. k \in 0 .. h - 1
      BY <3>1 DEF Pos
    <3>5. r * h + k \in 0 .. B * h - 1 /\ B * h \in Nat
      BY <3>1, <3>2, <3>4, DigitBound, Products DEF Pos
    <3> QED
      BY <3>1, <3>3, <3>5 DEF z
  <2>4. ASSUME NEW r \in Launched(s), NEW k \in 0 .. n2 - 1
        PROVE  0 + 1 * Place(s, "padded", n2, r, k) + 1 <= Size(b)
    BY <2>3, SizesTyped DEF RoomFor
  <2> QED
    BY <1>4, <2>2, <2>4 DEF SideIn
<1> QED
  BY <1>3, <1>4

\* A step that fits does not leave its buffers, at any round of its loop.
Inside(s) ==
  IF s.op = "perm"
  THEN cfg.batch * s.dims[1] * s.dims[2] * s.dims[3] * 2 <= Least(Size(s.src), Size(s.dst))
  ELSE SideIn(s, s.load, s.from, LoadBase(s), s.src)
       /\ SideIn(s, s.store, s.to, StoreBase(s), s.dst)

LEMMA StepInside ==
  ASSUME Configured, NEW s, StepFits(s), offset \in 0 .. Rounds(s) - 1
  PROVE  Inside(s)
<1>1. CASE s.op = "perm"
  BY <1>1 DEF StepFits, Inside
<1>2. CASE s.op = "lines"
  <2>1. /\ Lined(s) /\ RoomFor(s.src, s.from) /\ RoomFor(s.dst, s.to)
        /\ InOneGo(s) \/ InChunks(s) \/ ItemByItem(s) \/ InPaddedRows(s)
    BY <1>2 DEF StepFits
  <2>2. offset \in Nat /\ (s.loop = "item" => offset \in 0 .. cfg.batch - 1)
    BY DEF Rounds
  <2>3. CASE InOneGo(s)
    <3>1. LoadBase(s) = 0 /\ StoreBase(s) = 0
      BY <2>3 DEF InOneGo, LoadBase, StoreBase
    <3> QED
      BY <1>2, <2>1, <2>2, <2>3, <3>1, OneGoSide DEF Inside
  <2>4. CASE InChunks(s)
    <3>1. /\ LoadBase(s) = offset * (Words(s.from) * Length(s, s.from))
          /\ StoreBase(s) = offset * (Words(s.to) * Length(s, s.to))
          /\ s.load = "rows" /\ s.store = "rows"
      BY <2>4 DEF InChunks, LoadBase, StoreBase
    <3> QED
      BY <1>2, <2>1, <2>2, <2>4, <3>1, ChunkSide DEF Inside
  <2>5. CASE ItemByItem(s)
    <3>1. /\ LoadBase(s) = offset * ItemWords /\ StoreBase(s) = offset * ItemWords
          /\ s.load = "rows" /\ s.store = "outer" /\ s.loop = "item"
      BY <2>5 DEF ItemByItem, LoadBase, StoreBase
    <3> QED
      BY <1>2, <2>1, <2>2, <2>5, <3>1, ItemSide DEF Inside
  <2>6. CASE InPaddedRows(s)
    <3>1. LoadBase(s) = 0 /\ StoreBase(s) = 0 /\ s.loop = "none"
      BY <2>6 DEF InPaddedRows, LoadBase, StoreBase
    <3>2. SideIn(s, s.load, s.from, 0, s.src)
      BY <2>1, <2>2, <2>6, <3>1, PaddedSide DEF InPaddedRows
    <3>3. SideIn(s, s.store, s.to, 0, s.dst)
      BY <2>1, <2>2, <2>6, <3>1, PaddedSide DEF InPaddedRows
    <3> QED
      BY <1>2, <3>1, <3>2, <3>3 DEF Inside
  <2> QED
    BY <2>1, <2>3, <2>4, <2>5, <2>6
<1> QED
  BY <1>1, <1>2 DEF StepFits
-----------------------------------------------------------------------------
(* The steps programs are made of.                                         *)

\* A step outside a loop over items.
Plain(s) == StepFits(s) /\ s.loop # "item"

\* A source of one form and a destination of another.
Between(src, from, dst, to) ==
  RoomFor(src, from) /\ RoomFor(dst, to) /\ (dst = "in" => cfg.inPlace)

LEMMA RowSteps ==
  ASSUME Configured, NEW src, NEW dst, NEW axes \in AxisLists, NEW from, NEW to,
         axes \in {<< 0 >>, << 1 >>} => Width(from) = Width(to),
         Between(src, from, dst, to)
  PROVE  Plain(Step(axes, from, to, "rows", "rows", 1, src, dst))
<1> DEFINE s == Step(axes, from, to, "rows", "rows", 1, src, dst)
<1>1. /\ s.op = "lines" /\ s.axes = axes /\ s.from = from /\ s.to = to /\ s.loop = "none"
      /\ s.load = "rows" /\ s.store = "rows" /\ s.src = src /\ s.dst = dst
  BY DEF Step
<1> HIDE DEF s
<1>2. Lined(s) /\ InOneGo(s)
  BY <1>1 DEF Lined, InOneGo
<1> QED
  BY <1>1, <1>2 DEF Plain, StepFits, Between, RoomFor, s

\* Steps along a1 or a0, whose lines lie in blocks of span columns.
LEMMA SpannedSteps ==
  ASSUME Configured, NEW src, NEW dst, NEW axes \in AxisLists, NEW from, NEW to,
         axes \in {<< 0 >>, << 1 >>} => Width(from) = Width(to),
         NEW load \in {"rows", "strided"},
         NEW store \in {"rows", "strided", "outer", "inner"},
         NEW span \in Pos, Between(src, from, dst, to),
         \/ span = 1
         \/ axes = << 0 >> /\ span = n1 * Width(from)
         \/ axes = << 1 >> /\ span = Width(from)
         \/ axes = << 2 >> /\ span = n1
  PROVE  Plain(Step(axes, from, to, load, store, span, src, dst))
<1> DEFINE s == Step(axes, from, to, load, store, span, src, dst)
<1>1. /\ s.op = "lines" /\ s.axes = axes /\ s.from = from /\ s.to = to /\ s.loop = "none"
      /\ s.load = load /\ s.store = store /\ s.span = span /\ s.src = src /\ s.dst = dst
  BY DEF Step
<1> DEFINE W == Width(from)  B == cfg.batch
<1>2. W \in Pos /\ B \in Pos /\ n0 \in Pos /\ n1 \in Pos /\ n1 * W \in Pos
  BY Shapes, FormSizes
<1>3. /\ axes = <<0>> => RowCount(s) = B * n1 * W
      /\ axes = << 1 >> => RowCount(s) = B * n0 * W
      /\ axes = <<2>> => RowCount(s) = B * n0 * n1
  BY <1>1, LineCounts
<1>4. Lined(s)
  BY <1>1 DEF Lined
<1>5. RowCount(s) \in Nat
  BY <1>4, LinesCover DEF Pos
<1> HIDE DEF s, W, B
<1>6. Divides(span, RowCount(s))
  <2>1. CASE span = 1
    <3>1. RowCount(s) = RowCount(s) * 1
      BY <1>5
    <3> QED
      BY <1>5, <2>1, <3>1 DEF Divides
  <2>2. CASE axes = <<0>> /\ span = n1 * W
    <3>1. RowCount(s) = B * span
      BY <1>2, <1>3, <2>2 DEF Pos
    <3> QED
      BY <1>2, <3>1 DEF Divides, Pos
  <2>3. CASE axes = << 1 >> /\ span = W
    <3>1. RowCount(s) = (B * n0) * span /\ B * n0 \in Nat
      BY <1>2, <1>3, <2>3 DEF Pos
    <3> QED
      BY <3>1 DEF Divides
  <2>4. CASE axes = <<2>> /\ span = n1
    <3>1. RowCount(s) = (B * n0) * span /\ B * n0 \in Nat
      BY <1>2, <1>3, <2>4 DEF Pos
    <3> QED
      BY <3>1 DEF Divides
  <2> QED
    BY <2>1, <2>2, <2>3, <2>4 DEF W
<1>7. InOneGo(s)
  BY <1>1, <1>6 DEF InOneGo
<1> QED
  BY <1>1, <1>4, <1>7 DEF Plain, StepFits, Between, RoomFor, s

\* A step told by its fields.
LEMMA SameFit ==
  ASSUME Configured, NEW s, NEW t, Plain(s),
         s.op = "lines", s.loop = "none", s.load = "strided", t.loop \in {"none", "columns"},
         t.op = s.op, t.axes = s.axes, t.from = s.from, t.to = s.to, t.load = s.load,
         t.store = s.store, t.span = s.span, t.src = s.src, t.dst = s.dst
  PROVE  Plain(t)
<1>1. RowCount(t) = RowCount(s)
  BY DEF RowCount, Length
<1>2. InOneGo(s)
  BY DEF Plain, StepFits, InChunks, ItemByItem, InPaddedRows
<1>3. InOneGo(t)
  BY <1>1, <1>2 DEF InOneGo
<1> QED
  BY <1>3 DEF Plain, StepFits, Lined

\* The constructors of section Steps.
LEMMA InnerSteps ==
  ASSUME Configured, NEW src, NEW dst, Between(src, Inner, dst, Inner)
  PROVE  /\ \A a \in {0, 1, 2} : Plain(Rows(a, src, dst))
         /\ Plain(Lines(0, n1 * Width(Inner), src, dst))
         /\ Plain(Lines(1, Width(Inner), src, dst))
         /\ Plain(ColumnGrid(src, dst)) \/ Width(Inner) # half
         /\ Plain(OuterStore(0, n1 * Width(Inner), src, dst))
         /\ Plain(OuterStore(1, Width(Inner), src, dst))
         /\ Plain(OuterStore(2, n1, src, dst))
         /\ Plain(InnerStore(1, Width(Inner), src, dst))
         /\ Plain([InnerStore(1, Width(Inner), src, dst) EXCEPT !.load = "strided"])
<1>1. Width(Inner) \in Pos /\ n1 * Width(Inner) \in Pos /\ n1 \in Pos /\ 1 \in Pos
  BY FormSizes, Shapes DEF Pos
<1>2. <<0>> \in AxisLists /\ << 1 >> \in AxisLists /\ <<2>> \in AxisLists
  BY DEF AxisLists
<1>3. \A a \in {0, 1, 2} : Plain(Rows(a, src, dst))
  BY <1>2, RowSteps DEF Rows
<1>4. Plain(Lines(0, n1 * Width(Inner), src, dst)) /\ Plain(Lines(1, Width(Inner), src, dst))
  BY <1>1, <1>2, SpannedSteps DEF Lines
<1>5. /\ Plain(OuterStore(0, n1 * Width(Inner), src, dst))
      /\ Plain(OuterStore(1, Width(Inner), src, dst)) /\ Plain(OuterStore(2, n1, src, dst))
      /\ Plain(InnerStore(1, Width(Inner), src, dst))
  BY <1>1, <1>2, SpannedSteps DEF OuterStore, InnerStore
<1>6. Plain([InnerStore(1, Width(Inner), src, dst) EXCEPT !.load = "strided"])
  <2> DEFINE s == Step(<< 1 >>, Inner, Inner, "strided", "inner", Width(Inner), src, dst)
             t == [InnerStore(1, Width(Inner), src, dst) EXCEPT !.load = "strided"]
  <2>1. /\ t.op = s.op /\ t.axes = s.axes /\ t.from = s.from /\ t.to = s.to
        /\ t.load = s.load /\ t.store = s.store /\ t.span = s.span
        /\ t.src = s.src /\ t.dst = s.dst /\ t.loop = "none"
        /\ s.loop = "none" /\ s.op = "lines" /\ s.load = "strided"
    BY DEF InnerStore, Step
  <2>2. Plain(s)
    BY <1>1, <1>2, SpannedSteps
  <2> HIDE DEF s, t
  <2>3. Plain(t)
    BY <2>1, <2>2, SameFit
  <2> QED
    BY <2>3 DEF t
<1>7. ASSUME Width(Inner) = half
      PROVE  Plain(ColumnGrid(src, dst))
  <2> DEFINE s == Lines(0, n1 * half, src, dst)  t == ColumnGrid(src, dst)
  <2>1. /\ t.op = s.op /\ t.axes = s.axes /\ t.from = s.from /\ t.to = s.to
        /\ t.load = s.load /\ t.store = s.store /\ t.span = s.span
        /\ t.src = s.src /\ t.dst = s.dst /\ t.loop = "columns"
        /\ s.loop = "none" /\ s.op = "lines" /\ s.load = "strided"
    BY DEF ColumnGrid, Lines, Step
  <2>2. Plain(s)
    BY <1>4, <1>7
  <2> HIDE DEF s, t
  <2>3. Plain(t)
    BY <2>1, <2>2, SameFit
  <2> QED
    BY <2>3 DEF t
<1> QED
  BY <1>3, <1>4, <1>5, <1>6, <1>7

LEMMA FourSteps ==
  ASSUME Configured, NEW src, NEW dst, Between(src, Inner, dst, Inner)
  PROVE  /\ Len(FourStepLines(1, Width(Inner), src, dst)) = 2
         /\ Plain(FourStepLines(1, Width(Inner), src, dst)[1])
         /\ Plain(FourStepLines(1, Width(Inner), src, dst)[2])
<1> DEFINE w == Width(Inner)
           s == Step(<< 1 >>, Inner, "mid", "strided", "strided", w, src, "stage")
           u == [s EXCEPT !.done = FALSE]
           t == Step(<< 1 >>, "mid", Inner, "strided", "strided", w, "stage", dst)
<1>1. w \in Pos /\ Width("mid") = w /\ << 1 >> \in AxisLists
  <2>1. w \in Pos /\ << 1 >> \in AxisLists
    BY FormSizes DEF AxisLists
  <2>2. Width("mid") = w
    BY Shapes DEF Width, Inner
  <2> QED
    BY <2>1, <2>2
<1>2. Between(src, Inner, "stage", "mid") /\ Between("stage", "mid", dst, Inner)
  BY Temporaries DEF Between
<1>3. Plain(s) /\ Plain(t)
  BY <1>1, <1>2, SpannedSteps
<1>4. Plain(u)
  <2>1. /\ u.op = s.op /\ u.axes = s.axes /\ u.from = s.from /\ u.to = s.to
        /\ u.load = s.load /\ u.store = s.store /\ u.span = s.span
        /\ u.src = s.src /\ u.dst = s.dst /\ u.loop = s.loop /\ s.loop = "none"
        /\ s.op = "lines" /\ s.load = "strided"
    BY DEF Step
  <2> HIDE DEF s, u
  <2> QED
    BY <1>3, <2>1, SameFit
<1>5. FourStepLines(1, w, src, dst) = <<u, t>>
  BY DEF FourStepLines
<1> HIDE DEF u, t, s
<1> QED
  BY <1>3, <1>4, <1>5

\* Kernels that change the form of rows, chunk by chunk.
LEMMA ReformSteps ==
  ASSUME Configured, NEW src, NEW dst, NEW from, NEW to, Between(src, from, dst, to),
         NEW x, NEW y, x = Words(from) * Width(from), y = Words(to) * Width(to)
  PROVE  Plain(Reform(from, to, src, dst, x, y))
<1> DEFINE s == Reform(from, to, src, dst, x, y)
<1>1. /\ s.op = "lines" /\ s.axes = <<2>> /\ s.from = from /\ s.to = to /\ s.loop = "rows"
      /\ s.load = "rows" /\ s.store = "rows" /\ s.src = src /\ s.dst = dst
      /\ s.perRow = <<x, y>>
  BY DEF Reform, Step
<1> HIDE DEF s
<1>2. Lined(s)
  BY <1>1 DEF Lined, AxisLists
<1>3. Length(s, s.from) = Width(from) /\ Length(s, s.to) = Width(to)
  BY <1>1, LineCounts
<1>4. InChunks(s)
  BY <1>1, <1>3 DEF InChunks
<1> QED
  BY <1>1, <1>2, <1>4 DEF Plain, StepFits, Between, RoomFor, s

LEMMA ExpandAndPack ==
  ASSUME Configured, cfg.type # "c2c", NEW src, NEW dst
  PROVE  /\ Between(src, Given, dst, "full") => Plain(Expand(src, dst))
         /\ Between(src, "full", dst, Wanted) => Plain(Pack(src, dst))
         /\ Between(src, "full", dst, "full") => Plain(FullRows(src, dst))
<1>1. /\ Words("real") = 1 /\ Words("half") = 2 /\ Words("full") = 2
      /\ Width("real") = n2 /\ Width("half") = half /\ Width("full") = n2
  BY DEF Words, Width
<1>2. 1 * n2 = n2
  BY Shapes DEF Pos
<1>3. ASSUME Forward
      PROVE  /\ Between(src, Given, dst, "full") => Plain(Expand(src, dst))
             /\ Between(src, "full", dst, Wanted) => Plain(Pack(src, dst))
  <2>1. Given = "real" /\ Wanted = "half"
    BY <1>3, FormNames, Shapes
  <2>2. Between(src, "real", dst, "full") => Plain(Reform("real", "full", src, dst, n2, 2 * n2))
    BY <1>1, <1>2, ReformSteps
  <2>3. Between(src, "full", dst, "half")
           => Plain(Reform("full", "half", src, dst, 2 * n2, 2 * half))
    BY <1>1, <1>2, ReformSteps
  <2> QED
    BY <1>3, <2>1, <2>2, <2>3 DEF Expand, Pack
<1>4. ASSUME ~Forward
      PROVE  /\ Between(src, Given, dst, "full") => Plain(Expand(src, dst))
             /\ Between(src, "full", dst, Wanted) => Plain(Pack(src, dst))
  <2>1. Given = "half" /\ Wanted = "real"
    BY <1>4, FormNames, Shapes
  <2>2. Between(src, "half", dst, "full")
           => Plain(Reform("half", "full", src, dst, 2 * half, 2 * n2))
    BY <1>1, <1>2, ReformSteps
  <2>3. Between(src, "full", dst, "real") => Plain(Reform("full", "real", src, dst, 2 * n2, n2))
    BY <1>1, <1>2, ReformSteps
  <2> QED
    BY <1>4, <2>1, <2>2, <2>3 DEF Expand, Pack
<1>5. Between(src, "full", dst, "full") => Plain(FullRows(src, dst))
  BY RowSteps DEF FullRows, AxisLists
<1> QED
  BY <1>3, <1>4, <1>5

LEMMA BoundarySteps ==
  ASSUME Configured, NEW src, NEW dst, Between(src, Given, dst, Wanted)
  PROVE  Plain(BoundaryRows(src, dst)) /\ Plain(RealPlane(src, dst))
BY RowSteps DEF BoundaryRows, RealPlane, AxisLists

LEMMA RealStores ==
  ASSUME Configured, NEW src, NEW dst, Between(src, "real", dst, "half")
  PROVE  Plain(RealOuterStore(src, dst)) /\ Plain(RealCube(src, dst))
<1>1. n1 \in Pos
  BY Shapes
<1> QED
  BY <1>1, RowSteps, SpannedSteps DEF RealOuterStore, RealCube, AxisLists

\* Permutations of whole items.
LEMMA PermuteSteps ==
  ASSUME Configured, NEW src, NEW dst, Between(src, Inner, dst, Inner), NEW o,
         NEW x \in Nat, NEW y \in Nat, NEW z \in Nat, x * y * z = n0 * n1 * Width(Inner),
         NEW loop \in {"none", "batch"}
  PROVE  Plain(Permute(o, <<x, y, z>>, loop, src, dst))
<1> DEFINE s == Permute(o, <<x, y, z>>, loop, src, dst)
           B == cfg.batch  W == Width(Inner)  D == x * y * z
<1>1. /\ s.op = "perm" /\ s.dims = <<x, y, z>> /\ s.loop = loop
      /\ s.src = src /\ s.dst = dst
  BY DEF Permute
<1>2. Words(Inner) = 2 /\ Elements(Inner) = B * n0 * n1 * W
  BY Shapes DEF Words, Inner, Elements
<1>3. B \in Pos /\ n0 \in Pos /\ n1 \in Pos /\ W \in Pos
  BY Shapes, FormSizes
<1> HIDE DEF B, W, s
<1>4. B * x * y * z * 2 = 2 * Elements(Inner)
  <2>1. B * x * y * z = B * D /\ D \in Nat
    BY <1>3 DEF Pos
  <2>2. D = n0 * n1 * W
    BY DEF W
  <2> HIDE DEF D
  <2>3. B * (n0 * n1 * W) = B * n0 * n1 * W
    BY <1>3 DEF Pos
  <2>4. Elements(Inner) \in Nat
    BY FormSizes DEF Pos
  <2> QED
    BY <1>2, <2>1, <2>2, <2>3, <2>4
<1>5. B * x * y * z * 2 <= Size(src) /\ B * x * y * z * 2 <= Size(dst)
  BY <1>2, <1>4 DEF Between, RoomFor
<1>6. cfg.batch * s.dims[1] * s.dims[2] * s.dims[3] * 2 <= Least(Size(src), Size(dst))
  BY <1>1, <1>5 DEF Least, B
<1> QED
  BY <1>1, <1>6 DEF Plain, StepFits, Between, RoomFor, s

LEMMA PermuteShapes ==
  ASSUME Configured, NEW src, NEW dst, Between(src, Inner, dst, Inner),
         NEW w, w = Width(Inner), NEW o, NEW loop \in {"none", "batch"}
  PROVE  /\ Plain(Permute(o, <<n0, n1, w>>, loop, src, dst))
         /\ Plain(Permute(o, <<n0, w, n1>>, loop, src, dst))
         /\ Plain(Permute(o, <<n1, w, n0>>, loop, src, dst))
         /\ n0 = 1 => /\ Plain(Permute(o, <<1, n1, w>>, loop, src, dst))
                      /\ Plain(Permute(o, <<1, w, n1>>, loop, src, dst))
<1>1. w \in Nat /\ n0 \in Nat /\ n1 \in Nat
  BY Shapes, FormSizes DEF Pos
<1>2. /\ n0 * w * n1 = n0 * n1 * w /\ n1 * w * n0 = n0 * n1 * w
      /\ n0 = 1 => 1 * n1 * w = n0 * n1 * w /\ 1 * w * n1 = n0 * n1 * w
  BY <1>1
<1>3. Plain(Permute(o, <<n0, n1, w>>, loop, src, dst))
  BY <1>1, PermuteSteps
<1>4. Plain(Permute(o, <<n0, w, n1>>, loop, src, dst))
  BY <1>1, <1>2, PermuteSteps
<1>5. Plain(Permute(o, <<n1, w, n0>>, loop, src, dst))
  BY <1>1, <1>2, PermuteSteps
<1>6. ASSUME n0 = 1
      PROVE  /\ Plain(Permute(o, <<1, n1, w>>, loop, src, dst))
             /\ Plain(Permute(o, <<1, w, n1>>, loop, src, dst))
  <2>1. 1 * n1 * w = n0 * n1 * Width(Inner) /\ 1 * w * n1 = n0 * n1 * Width(Inner)
    BY <1>2, <1>6
  <2> QED
    BY <1>1, <2>1, PermuteSteps
<1> QED
  BY <1>3, <1>4, <1>5, <1>6
-----------------------------------------------------------------------------
(* The programs of the nodes.                                              *)

ProgramFits(p) ==
  /\ \E S : p \in Seq(S)
  /\ Len(p) \in Pos
  /\ \A i \in 1 .. Len(p) : Plain(p[i])

LEMMA Joined ==
  ASSUME NEW p, NEW q, ProgramFits(p), ProgramFits(q)
  PROVE  ProgramFits(p \o q)
<1>1. PICK S, T : p \in Seq(S) /\ q \in Seq(T)
  BY DEF ProgramFits
<1> DEFINE U == S \cup T
<1>2. S \subseteq U /\ T \subseteq U
  OBVIOUS
<1> HIDE DEF U
<1>3. p \in Seq(U) /\ q \in Seq(U)
  BY <1>1, <1>2
<1>4. Len(p) \in Pos /\ Len(q) \in Pos
  BY DEF ProgramFits
<1>5. Len(p \o q) = Len(p) + Len(q) /\ p \o q \in Seq(U)
  BY <1>3
<1>6. ASSUME NEW i \in 1 .. Len(p \o q)
      PROVE  Plain((p \o q)[i])
  <2>1. CASE i <= Len(p)
    <3>1. (p \o q)[i] = p[i] /\ i \in 1 .. Len(p)
      BY <1>3, <1>4, <1>5, <2>1 DEF Pos
    <3> QED
      BY <3>1 DEF ProgramFits
  <2>2. CASE i > Len(p)
    <3>1. (p \o q)[i] = q[i - Len(p)] /\ i - Len(p) \in 1 .. Len(q)
      BY <1>3, <1>4, <1>5, <2>2 DEF Pos
    <3> QED
      BY <3>1 DEF ProgramFits
  <2> QED
    BY <1>4, <1>5, <1>6, <2>1, <2>2 DEF Pos
<1> QED
  BY <1>4, <1>5, <1>6 DEF ProgramFits, Pos

\* Steps that are all plain make a program that fits.
LEMMA Listed ==
  ASSUME NEW S, NEW p \in Seq(S), Len(p) \in Pos, \A x \in S : Plain(x)
  PROVE  ProgramFits(p)
<1>1. \E T : p \in Seq(T)
  OBVIOUS
<1>2. \A i \in 1 .. Len(p) : p[i] \in S
  OBVIOUS
<1> QED
  BY <1>1, <1>2 DEF ProgramFits

LEMMA OnePlain ==
  ASSUME NEW a,
         Plain(a)
  PROVE  ProgramFits(<<a>>)
<1> DEFINE p == <<a>>  S == {a}
<1>1. p \in Seq(S) /\ Len(p) = 1 /\ \A x \in S : Plain(x)
  OBVIOUS
<1> HIDE DEF p, S
<1>2. ProgramFits(p)
  BY <1>1, Listed, SMTT(40) DEF Pos
<1> QED
  BY <1>2 DEF p

LEMMA TwoPlain ==
  ASSUME NEW a, NEW b,
         Plain(a), Plain(b)
  PROVE  ProgramFits(<<a, b>>)
<1> DEFINE p == <<a, b>>  S == {a, b}
<1>1. p \in Seq(S) /\ Len(p) = 2 /\ \A x \in S : Plain(x)
  OBVIOUS
<1> HIDE DEF p, S
<1>2. ProgramFits(p)
  BY <1>1, Listed, SMTT(40) DEF Pos
<1> QED
  BY <1>2 DEF p

LEMMA ThreePlain ==
  ASSUME NEW a, NEW b, NEW c,
         Plain(a), Plain(b), Plain(c)
  PROVE  ProgramFits(<<a, b, c>>)
<1> DEFINE p == <<a, b, c>>  S == {a, b, c}
<1>1. p \in Seq(S) /\ Len(p) = 3 /\ \A x \in S : Plain(x)
  OBVIOUS
<1> HIDE DEF p, S
<1>2. ProgramFits(p)
  BY <1>1, Listed, SMTT(40) DEF Pos
<1> QED
  BY <1>2 DEF p

LEMMA FourPlain ==
  ASSUME NEW a, NEW b, NEW c, NEW d,
         Plain(a), Plain(b), Plain(c), Plain(d)
  PROVE  ProgramFits(<<a, b, c, d>>)
<1> DEFINE p == <<a, b, c, d>>  S == {a, b, c, d}
<1>1. p \in Seq(S) /\ Len(p) = 4 /\ \A x \in S : Plain(x)
  OBVIOUS
<1> HIDE DEF p, S
<1>2. ProgramFits(p)
  BY <1>1, Listed, SMTT(40) DEF Pos
<1> QED
  BY <1>2 DEF p

LEMMA FivePlain ==
  ASSUME NEW a, NEW b, NEW c, NEW d, NEW e,
         Plain(a), Plain(b), Plain(c), Plain(d), Plain(e)
  PROVE  ProgramFits(<<a, b, c, d, e>>)
<1> DEFINE p == <<a, b, c, d, e>>  S == {a, b, c, d, e}
<1>1. p \in Seq(S) /\ Len(p) = 5 /\ \A x \in S : Plain(x)
  OBVIOUS
<1> HIDE DEF p, S
<1>2. ProgramFits(p)
  BY <1>1, Listed, SMTT(40) DEF Pos
<1> QED
  BY <1>2 DEF p

LEMMA SixPlain ==
  ASSUME NEW a, NEW b, NEW c, NEW d, NEW e, NEW f,
         Plain(a), Plain(b), Plain(c), Plain(d), Plain(e), Plain(f)
  PROVE  ProgramFits(<<a, b, c, d, e, f>>)
<1> DEFINE p == <<a, b, c, d, e, f>>  S == {a, b, c, d, e, f}
<1>1. p \in Seq(S) /\ Len(p) = 6 /\ \A x \in S : Plain(x)
  OBVIOUS
<1> HIDE DEF p, S
<1>2. ProgramFits(p)
  BY <1>1, Listed, SMTT(40) DEF Pos
<1> QED
  BY <1>2 DEF p

LEMMA EightPlain ==
  ASSUME NEW a, NEW b, NEW c, NEW d, NEW e, NEW f, NEW g, NEW h,
         Plain(a), Plain(b), Plain(c), Plain(d), Plain(e), Plain(f), Plain(g), Plain(h)
  PROVE  ProgramFits(<<a, b, c, d, e, f, g, h>>)
<1> DEFINE p == <<a, b, c, d, e, f, g, h>>  S == {a, b, c, d, e, f, g, h}
<1>1. p \in Seq(S) /\ Len(p) = 8 /\ \A x \in S : Plain(x)
  OBVIOUS
<1> HIDE DEF p, S
<1>2. ProgramFits(p)
  BY <1>1, Listed, SMTT(40) DEF Pos
<1> QED
  BY <1>2 DEF p

\* Which buffers the steps of a program may run between.
LEMMA Ends ==
  ASSUME Configured, NEW a \in {"t1", "t2"}, NEW b \in {"t1", "t2"}
  PROVE  /\ Between(a, Inner, b, Inner)
         /\ cfg.type # "r2c" => Between("in", Inner, b, Inner)
         /\ cfg.type # "c2r" => /\ Between(a, Inner, Out, Inner)
                                /\ Between(Out, Inner, b, Inner)
                                /\ Between(Out, Inner, Out, Inner)
         /\ cfg.type = "c2c" => Between("in", Inner, Out, Inner)
         /\ Between("in", Given, Out, Wanted)
         /\ cfg.type = "r2c" => Between("in", Given, b, Wanted)
         /\ cfg.type = "c2r" => Between(a, Given, Out, Wanted)
         /\ cfg.type # "c2c" => /\ Between("row", "full", "row", "full")
                                /\ Between("row", "full", Out, Wanted)
         /\ cfg.type = "r2c" => Between("in", Given, "row", "full")
         /\ cfg.type = "c2r" => Between(a, Given, "row", "full")
<1>1. RoomFor(a, Inner) /\ RoomFor(b, Inner) /\ b # "in" /\ a # "in"
  BY Temporaries
<1>2. RoomFor("in", Given) /\ RoomFor(Out, Wanted) /\ (Out = "in" => cfg.inPlace)
  BY CallersArrays
<1>3. cfg.type # "c2c" => RoomFor("row", "full")
  BY RowBuffer
<1> QED
  BY <1>1, <1>2, <1>3, FormNames, Shapes DEF Between
LEMMA Widths ==
  ASSUME Configured
  PROVE  /\ cfg.type = "c2c" => Width(Inner) = n2
         /\ cfg.type # "c2c" => Width(Inner) = half
BY Shapes DEF Width, Inner

\* Transposes and permutations of the programs.
LEMMA Turns ==
  ASSUME Configured, NEW src, NEW dst, Between(src, Inner, dst, Inner), NEW o
  PROVE  /\ cfg.type = "c2c" /\ n0 = 1 =>
              Plain(Transpose(n1, n2, src, dst)) /\ Plain(Transpose(n2, n1, src, dst))
         /\ cfg.type # "c2c" /\ n0 = 1 =>
              Plain(Transpose(n1, half, src, dst)) /\ Plain(Transpose(half, n1, src, dst))
         /\ cfg.type # "c2c" =>
              /\ Plain(Permute3D(o, <<n0, n1, half>>, src, dst))
              /\ Plain(Permute3D(o, <<n0, half, n1>>, src, dst))
              /\ Plain(Permute3D(o, <<n1, half, n0>>, src, dst))
BY PermuteShapes, Widths DEF Transpose, Permute3D

\* CompiledRaw1DAs2DNode
LEMMA As1DFits ==
  ASSUME Configured, cfg.rank = 2, HasUnitAxis(cfg)
  PROVE  ProgramFits(As1D)
<1>1. n0 = 1 /\ (n1 > 1 => cfg.type = "c2c")
  BY Shapes DEF HasUnitAxis, n1, Pos
<1>2. CASE n1 > 1
  <2>1. Between("in", Inner, Out, Inner)
    BY <1>1, <1>2, Ends
  <2>2. Plain(Rows(1, "in", Out))
    BY <2>1, InnerSteps
  <2> QED
    BY <1>2, <2>2, OnePlain DEF As1D
<1>3. CASE ~(n1 > 1)
  <2> DEFINE s == BoundaryRows("in", Out)
             load == IF cfg.inPlace /\ cfg.type = "r2c" THEN "padded" ELSE "rows"
             store == IF cfg.inPlace /\ cfg.type = "c2r" THEN "padded" ELSE "rows"
             t == [s EXCEPT !.load = load, !.store = store]
  <2>1. n1 = 1
    BY <1>3, Shapes DEF Pos
  <2>2. /\ t.op = "lines" /\ t.axes = <<2>> /\ t.from = Given /\ t.to = Wanted
        /\ t.load = load /\ t.store = store /\ t.src = "in" /\ t.dst = Out
        /\ t.loop = "none"
    BY DEF BoundaryRows, Step
  <2>3. Between("in", Given, Out, Wanted)
    BY Ends
  <2>4. ASSUME cfg.inPlace, cfg.type # "c2c"
        PROVE  2 * half * cfg.batch <= Size("in") /\ Out = "in"
    <3> DEFINE x == Words(Given) * Elements(Given)  y == Words(Wanted) * Elements(Wanted)
    <3>1. Size("in") = Larger(x, y) /\ Out = "in"
      BY <2>4 DEF Size, Out
    <3>2. x \in Nat /\ y \in Nat
      BY FormSizes DEF Pos
    <3>3. Words("half") * Elements("half") = 2 * half * cfg.batch
      <4>1. Elements("half") = cfg.batch * 1 * 1 * half
        BY <1>1, <2>1 DEF Elements, Width
      <4>2. 2 * (cfg.batch * 1 * 1 * half) = 2 * half * cfg.batch
        BY Shapes DEF Pos
      <4> QED
        BY <4>1, <4>2 DEF Words
    <3>4. Given = "half" \/ Wanted = "half"
      BY <2>4, FormNames, Shapes
    <3>5. x = 2 * half * cfg.batch \/ y = 2 * half * cfg.batch
      BY <3>3, <3>4
    <3> HIDE DEF x, y
    <3>6. Larger(x, y) >= x /\ Larger(x, y) >= y
      BY <3>2 DEF Larger
    <3>7. 2 * half * cfg.batch \in Nat
      BY Shapes DEF Pos
    <3> QED
      BY <3>1, <3>2, <3>5, <3>6, <3>7 DEF Larger
  <2>5. load = "padded" => Given = "real" /\ cfg.inPlace /\ cfg.type # "c2c"
    BY FormNames
  <2>6. store = "padded" => Wanted = "real" /\ cfg.inPlace /\ cfg.type # "c2c"
    BY FormNames
  <2> HIDE DEF s, t
  <2>7. InPaddedRows(t)
    <3>1. load \in {"rows", "padded"} /\ store \in {"rows", "padded"}
      OBVIOUS
    <3> HIDE DEF load, store
    <3> QED
      BY <1>1, <2>1, <2>2, <2>4, <2>5, <2>6, <3>1 DEF InPaddedRows, Padded
  <2>8. Lined(t)
    BY <2>2 DEF Lined, AxisLists
  <2>9. Plain(t)
    BY <2>2, <2>3, <2>7, <2>8 DEF Plain, StepFits, Between, RoomFor
  <2>10. As1D = <<t>>
    BY <1>3 DEF As1D, s, t
  <2> QED
    BY <2>9, <2>10, OnePlain
<1> QED
  BY <1>2, <1>3

\* The column pass of the RC nodes.
LEMMA ColumnsFit ==
  ASSUME Configured, NEW src, NEW dst, Between(src, Inner, dst, Inner)
  PROVE  ProgramFits(Columns(src, dst))
<1>1. CASE cfg.kind = "2d_rc_four"
  <2> DEFINE p == FourStepLines(1, Width(Inner), src, dst)
  <2>1. Len(p) = 2 /\ Plain(p[1]) /\ Plain(p[2])
    BY FourSteps
  <2>2. p = <<p[1], p[2]>>
    BY DEF FourStepLines
  <2> HIDE DEF p
  <2>3. ProgramFits(<<p[1], p[2]>>)
    BY <2>1, TwoPlain
  <2>4. ProgramFits(p)
    BY <2>2, <2>3
  <2> QED
    BY <1>1, <2>4 DEF Columns, p
<1>2. CASE cfg.kind # "2d_rc_four"
  <2>1. Plain(Lines(1, Width(Inner), src, dst))
    BY InnerSteps
  <2> QED
    BY <1>2, <2>1, OnePlain DEF Columns
<1> QED
  BY <1>1, <1>2

\* The 2D nodes for complex data.
LEMMA Complex2DFits ==
  ASSUME Configured, cfg.type = "c2c", n0 = 1
  PROVE  ProgramFits(TwoD) /\ ProgramFits(TwoDFused) /\ ProgramFits(TwoDRC)
<1>1. /\ Between("in", Inner, "t1", Inner) /\ Between("t1", Inner, "t2", Inner)
      /\ Between("t2", Inner, "t1", Inner) /\ Between("t1", Inner, Out, Inner)
  BY Ends
<1>2. Width(Inner) = n2
  BY Widths
<1>3. ProgramFits(TwoD)
  <2>1. /\ Plain(Rows(2, "in", "t1")) /\ Plain(Transpose(n1, n2, "t1", "t2"))
        /\ Plain(Rows(1, "t2", "t1")) /\ Plain(Transpose(n2, n1, "t1", Out))
    BY <1>1, InnerSteps, Turns
  <2> QED
    BY <2>1, FourPlain DEF TwoD
<1>4. ProgramFits(TwoDFused)
  <2>1. Plain(OuterStore(2, n1, "in", "t1")) /\ Plain(OuterStore(1, n2, "t1", Out))
    BY <1>1, <1>2, InnerSteps
  <2> QED
    BY <2>1, TwoPlain DEF TwoDFused
<1>5. ProgramFits(TwoDRC)
  <2>1. ProgramFits(<<Rows(2, "in", "t1")>>)
    BY <1>1, InnerSteps, OnePlain
  <2> QED
    BY <1>1, <2>1, ColumnsFit, Joined DEF TwoDRC
<1> QED
  BY <1>3, <1>4, <1>5

\* The 2D nodes for real data.
LEMMA R2C2DFits ==
  ASSUME Configured, cfg.type = "r2c", n0 = 1
  PROVE  ProgramFits(R2CRow) /\ ProgramFits(R2C) /\ ProgramFits(R2CRC)
<1>1. /\ Between("in", Given, "t1", Wanted) /\ Between("t1", Inner, "t2", Inner)
      /\ Between("t2", Inner, "t1", Inner) /\ Between("t1", Inner, Out, Inner)
      /\ Between("t2", Inner, Out, Inner) /\ Between(Out, Inner, "t1", Inner)
      /\ Between(Out, Inner, Out, Inner)
      /\ Between("in", Given, "row", "full") /\ Between("row", "full", "row", "full")
      /\ Between("row", "full", Out, Wanted)
  BY Ends
<1>2. /\ Plain(Expand("in", "row")) /\ Plain(FullRows("row", "row")) /\ Plain(Pack("row", Out))
      /\ Plain(BoundaryRows("in", "t1"))
  BY <1>1, ExpandAndPack, BoundarySteps
<1>3. /\ Plain(Transpose(n1, half, "t1", "t2")) /\ Plain(Rows(1, "t2", "t1"))
      /\ Plain(Transpose(half, n1, "t1", Out)) /\ Plain(Transpose(n1, half, Out, "t1"))
      /\ Plain(Rows(1, "t1", "t2")) /\ Plain(Transpose(half, n1, "t2", Out))
  BY <1>1, InnerSteps, Turns
<1>4. ProgramFits(R2CRow)
  BY <1>2, <1>3, FourPlain DEF R2CRow
<1>5. ProgramFits(R2C)
  BY <1>2, <1>3, SixPlain DEF R2C
<1>6. ProgramFits(R2CRC)
  <2>1. ProgramFits(<<BoundaryRows("in", "t1")>>)
    BY <1>2, OnePlain
  <2>2. ProgramFits(<<Expand("in", "row"), FullRows("row", "row"), Pack("row", Out)>>)
    BY <1>2, ThreePlain
  <2>3. ProgramFits(Columns("t1", Out)) /\ ProgramFits(Columns(Out, Out))
    BY <1>1, ColumnsFit
  <2> QED
    BY <2>1, <2>2, <2>3, Joined DEF R2CRC
<1> QED
  BY <1>4, <1>5, <1>6

LEMMA C2R2DFits ==
  ASSUME Configured, cfg.type = "c2r", n0 = 1
  PROVE  ProgramFits(C2RRow) /\ ProgramFits(C2R) /\ ProgramFits(C2RRC)
<1>1. /\ Between("in", Inner, "t1", Inner) /\ Between("t1", Inner, "t2", Inner)
      /\ Between("t2", Inner, "t1", Inner)
      /\ Between("t1", Given, "row", "full") /\ Between("row", "full", "row", "full")
      /\ Between("row", "full", Out, Wanted) /\ Between("t1", Given, Out, Wanted)
  BY Ends
<1>2. /\ Plain(Expand("t1", "row")) /\ Plain(FullRows("row", "row")) /\ Plain(Pack("row", Out))
      /\ Plain(BoundaryRows("t1", Out))
  BY <1>1, ExpandAndPack, BoundarySteps
<1>3. /\ Plain(Transpose(n1, half, "in", "t1")) /\ Plain(Rows(1, "t1", "t2"))
      /\ Plain(Transpose(half, n1, "t2", "t1"))
  BY <1>1, InnerSteps, Turns
<1>4. ProgramFits(C2RRow)
  BY <1>2, <1>3, FourPlain DEF C2RRow
<1>5. ProgramFits(C2R)
  BY <1>2, <1>3, SixPlain DEF C2R
<1>6. ProgramFits(C2RRC)
  <2>1. ProgramFits(<<BoundaryRows("t1", Out)>>)
    BY <1>2, OnePlain
  <2>2. ProgramFits(<<Expand("t1", "row"), FullRows("row", "row"), Pack("row", Out)>>)
    BY <1>2, ThreePlain
  <2>3. ProgramFits(Columns("in", "t1"))
    BY <1>1, ColumnsFit
  <2> QED
    BY <2>1, <2>2, <2>3, Joined DEF C2RRC
<1> QED
  BY <1>4, <1>5, <1>6

LEMMA Program2DFits ==
  ASSUME Configured, cfg.rank = 2
  PROVE  ProgramFits(Program2D)
<1>1. n0 = 1 /\ cfg.type \in {"c2c", "r2c", "c2r"}
  BY Shapes
<1>2. \/ cfg.type = "c2c" /\ Admits2D(cfg)
      \/ cfg.type = "r2c" /\ AdmitsR2C2D(cfg)
      \/ cfg.type = "c2r" /\ AdmitsC2R2D(cfg)
  BY DEF Configured, Admits
<1>3. CASE cfg.kind = "as_1d"
  <2>1. HasUnitAxis(cfg)
    BY <1>2, <1>3 DEF Admits2D, AdmitsR2C2D, AdmitsC2R2D
  <2> QED
    BY <1>3, <2>1, As1DFits DEF Program2D
<1>4. CASE cfg.kind # "as_1d" /\ cfg.type = "c2c"
  <2>1. cfg.kind \in {"2d_fused", "2d_rc", "2d_rc_four", "2d", "2d_rc_outer"}
    BY <1>2, <1>4 DEF Admits2D
  <2> QED
    BY <1>1, <1>4, <2>1, Complex2DFits DEF Program2D
<1>5. CASE cfg.kind # "as_1d" /\ cfg.type = "r2c"
  <2>1. cfg.kind \in {"2d_rc", "2d_rc_four", "2d_rc_row", "2d", "2d_row"}
    BY <1>2, <1>5 DEF AdmitsR2C2D
  <2> QED
    BY <1>1, <1>5, <2>1, R2C2DFits DEF Program2D
<1>6. CASE cfg.kind # "as_1d" /\ cfg.type = "c2r"
  <2>1. cfg.kind \in {"2d_rc", "2d_rc_four", "2d_rc_row", "2d", "2d_row"}
    BY <1>2, <1>6 DEF AdmitsC2R2D
  <2> QED
    BY <1>1, <1>6, <2>1, C2R2DFits DEF Program2D
<1> QED
  BY <1>1, <1>3, <1>4, <1>5, <1>6
\* The steps of the real 3D nodes.
LEMMA InnerSteps3D ==
  ASSUME Configured, cfg.type # "c2c", NEW src, NEW dst, Between(src, Inner, dst, Inner)
  PROVE  /\ Plain(Rows(0, src, dst)) /\ Plain(Rows(1, src, dst))
         /\ Plain(Lines(0, n1 * half, src, dst)) /\ Plain(Lines(1, half, src, dst))
         /\ Plain(ColumnGrid(src, dst)) /\ Plain(Outermost(src, dst))
         /\ Plain(OuterStore(0, n1 * half, src, dst)) /\ Plain(InnerStore(1, half, src, dst))
         /\ Plain(MiddleLeaf(src, dst)) /\ Plain(LastLeaf(src, dst))
         /\ \A o : /\ Plain(Permute3D(o, <<n0, n1, half>>, src, dst))
                   /\ Plain(Permute3D(o, <<n0, half, n1>>, src, dst))
                   /\ Plain(Permute3D(o, <<n1, half, n0>>, src, dst))
<1>1. Width(Inner) = half
  BY Widths
<1>2. /\ Plain(Rows(0, src, dst)) /\ Plain(Rows(1, src, dst))
      /\ Plain(Lines(0, n1 * half, src, dst)) /\ Plain(Lines(1, half, src, dst))
      /\ Plain(ColumnGrid(src, dst))
      /\ Plain(OuterStore(0, n1 * half, src, dst)) /\ Plain(InnerStore(1, half, src, dst))
      /\ Plain([InnerStore(1, half, src, dst) EXCEPT !.load = "strided"])
  BY <1>1, InnerSteps
<1>3. Plain(Outermost(src, dst)) /\ Plain(MiddleLeaf(src, dst)) /\ Plain(LastLeaf(src, dst))
  BY <1>2 DEF Outermost, MiddleLeaf, LastLeaf
<1>4. ASSUME NEW o
      PROVE  /\ Plain(Permute3D(o, <<n0, n1, half>>, src, dst))
             /\ Plain(Permute3D(o, <<n0, half, n1>>, src, dst))
             /\ Plain(Permute3D(o, <<n1, half, n0>>, src, dst))
  BY Turns
<1> QED
  BY <1>2, <1>3, <1>4

\* Nodes of real-to-complex transforms.
LEMMA R2C3DFits ==
  ASSUME Configured, cfg.type = "r2c"
  PROVE  /\ ProgramFits(StridedReal) /\ ProgramFits(<<RealCube("in", Out)>>)
         /\ ProgramFits(PlaneReal) /\ ProgramFits(LeafR2C) /\ ProgramFits(FirstStore)
         /\ ProgramFits(Transposed) /\ ProgramFits(RtrtR2C) /\ ProgramFits(R2C3D)
<1>1. /\ Between("t1", Inner, "t2", Inner) /\ Between("t2", Inner, "t1", Inner)
      /\ Between("t1", Inner, Out, Inner) /\ Between("t2", Inner, Out, Inner)
      /\ Between(Out, Inner, "t1", Inner) /\ Between(Out, Inner, Out, Inner)
  BY Ends
<1>2. /\ Between("in", Given, "t1", Wanted) /\ Between("in", Given, "t2", Wanted)
      /\ Between("in", Given, Out, Wanted)
      /\ Between("in", Given, "row", "full") /\ Between("row", "full", "row", "full")
      /\ Between("row", "full", Out, Wanted)
      /\ Given = "real" /\ Wanted = "half" /\ Forward
  BY Ends, FormNames
<1>3. /\ Plain(BoundaryRows("in", "t1")) /\ Plain(RealPlane("in", "t1"))
      /\ Plain(RealOuterStore("in", "t2")) /\ Plain(RealCube("in", Out))
      /\ Plain(Expand("in", "row")) /\ Plain(FullRows("row", "row")) /\ Plain(Pack("row", Out))
  BY <1>2, BoundarySteps, RealStores, ExpandAndPack
<1>4. /\ ProgramFits(StridedReal) /\ ProgramFits(<<RealCube("in", Out)>>)
      /\ ProgramFits(PlaneReal)
  <2>1. /\ Plain(Lines(1, half, "t1", "t2")) /\ Plain(Lines(0, n1 * half, "t2", Out))
        /\ Plain(Outermost("t1", Out))
    BY <1>1, InnerSteps3D
  <2> QED
    BY <1>2, <1>3, <2>1, OnePlain, TwoPlain, ThreePlain DEF StridedReal, PlaneReal
<1>5. ProgramFits(LeafR2C)
  <2>1. /\ Plain(Permute3D(<<0, 2, 1>>, <<n0, n1, half>>, "t1", "t2"))
        /\ Plain(MiddleLeaf("t2", "t1")) /\ Plain(OuterStore(0, n1 * half, "t1", Out))
        /\ Plain(Permute3D(<<2, 1, 0>>, <<n0, half, n1>>, "t1", "t2"))
        /\ Plain(OuterStore(0, n1 * half, "t2", Out))
    BY <1>1, InnerSteps3D
  <2>2. /\ ProgramFits(<<RealOuterStore("in", "t2")>>)
        /\ ProgramFits(<<BoundaryRows("in", "t1"),
                         Permute3D(<<0, 2, 1>>, <<n0, n1, half>>, "t1", "t2")>>)
        /\ ProgramFits(<<MiddleLeaf("t2", "t1")>>)
        /\ ProgramFits(<<OuterStore(0, n1 * half, "t1", Out)>>)
        /\ ProgramFits(<<Permute3D(<<2, 1, 0>>, <<n0, half, n1>>, "t1", "t2"),
                         OuterStore(0, n1 * half, "t2", Out)>>)
    BY <1>3, <2>1, OnePlain, TwoPlain
  <2> QED
    BY <2>2, Joined DEF LeafR2C
<1>6. ProgramFits(FirstStore) /\ ProgramFits(Transposed) /\ ProgramFits(R2C3D)
  <2>1. /\ Plain(Rows(1, "t2", "t1")) /\ Plain(Rows(0, "t2", "t1"))
        /\ Plain(Rows(1, "t1", "t2")) /\ Plain(Rows(0, "t1", "t2"))
        /\ Plain(Permute3D(<<0, 2, 1>>, <<n0, n1, half>>, "t1", "t2"))
        /\ Plain(Permute3D(<<0, 2, 1>>, <<n0, n1, half>>, Out, "t1"))
        /\ Plain(Permute3D(<<2, 1, 0>>, <<n0, half, n1>>, "t1", "t2"))
        /\ Plain(Permute3D(<<2, 1, 0>>, <<n0, half, n1>>, "t2", "t1"))
        /\ Plain(Permute3D(<<2, 0, 1>>, <<n1, half, n0>>, "t1", Out))
        /\ Plain(Permute3D(<<2, 0, 1>>, <<n1, half, n0>>, "t2", Out))
    BY <1>1, InnerSteps3D
  <2>2. ProgramFits(FirstStore)
    BY <1>3, <2>1, FivePlain DEF FirstStore
  <2>3. ProgramFits(Transposed)
    BY <1>2, <1>3, <2>1, SixPlain DEF Transposed
  <2>4. ProgramFits(R2C3D)
    BY <1>3, <2>1, EightPlain DEF R2C3D
  <2> QED
    BY <2>2, <2>3, <2>4
<1>7. ProgramFits(RtrtR2C)
  <2> DEFINE middle == "middle" \notin cfg.fused
             n0Input == IF middle THEN "t2" ELSE "t1"
             n0Output == IF FusedLast THEN Out ELSE IF middle THEN "t1" ELSE "t2"
             A == IF "first" \in cfg.fused THEN <<RealOuterStore("in", "t2")>>
                  ELSE <<BoundaryRows("in", "t1"),
                         Permute3D(<<0, 2, 1>>, <<n0, n1, half>>, "t1", "t2")>>
             B == IF middle
                  THEN <<Rows(1, "t2", "t1"),
                         Permute3D(<<2, 1, 0>>, <<n0, half, n1>>, "t1", "t2")>>
                  ELSE <<InnerStore(1, half, "t2", "t1")>>
             C == <<LastLeaf(n0Input, n0Output)>>
             D == <<Permute3D(<<2, 0, 1>>, <<n1, half, n0>>, n0Output, Out)>>
  <2>1. /\ Between(n0Input, Inner, n0Output, Inner)
        /\ ~FusedLast => Between(n0Output, Inner, Out, Inner)
    BY <1>1
  <2>2. ProgramFits(A)
    <3>1. Plain(Permute3D(<<0, 2, 1>>, <<n0, n1, half>>, "t1", "t2"))
      BY <1>1, InnerSteps3D
    <3> QED
      BY <1>3, <3>1, OnePlain, TwoPlain
  <2>3. ProgramFits(B)
    <3>1. /\ Plain(Rows(1, "t2", "t1")) /\ Plain(InnerStore(1, half, "t2", "t1"))
          /\ Plain(Permute3D(<<2, 1, 0>>, <<n0, half, n1>>, "t1", "t2"))
      BY <1>1, InnerSteps3D
    <3> QED
      BY <3>1, OnePlain, TwoPlain
  <2>4. ProgramFits(C) /\ (~FusedLast => ProgramFits(D))
    <3> HIDE DEF n0Input, n0Output
    <3> QED
      BY <2>1, InnerSteps3D, OnePlain
  <2>5. RtrtR2C = A \o B \o C \o (IF FusedLast THEN <<>> ELSE D)
    BY DEF RtrtR2C
  <2> HIDE DEF A, B, C, D
  <2>6. ProgramFits(A \o B \o C)
    BY <2>2, <2>3, <2>4, Joined
  <2>7. CASE FusedLast
    <3>1. A \o B \o C \o <<>> = A \o B \o C
      BY <2>6 DEF ProgramFits
    <3> QED
      BY <2>5, <2>6, <2>7, <3>1
  <2>8. CASE ~FusedLast
    BY <2>4, <2>5, <2>6, <2>8, Joined
  <2> QED
    BY <2>7, <2>8
<1> QED
  BY <1>4, <1>5, <1>6, <1>7

\* Nodes of complex-to-real transforms.
LEMMA C2R3DFits ==
  ASSUME Configured, cfg.type = "c2r"
  PROVE  /\ ProgramFits(StridedReal) /\ ProgramFits(PlaneReal) /\ ProgramFits(LeafC2R)
         /\ ProgramFits(Transposed) /\ ProgramFits(RtrtC2R) /\ ProgramFits(C2R3D)
<1>1. /\ Between("t1", Inner, "t2", Inner) /\ Between("t2", Inner, "t1", Inner)
      /\ Between("in", Inner, "t1", Inner) /\ Between("in", Inner, "t2", Inner)
  BY Ends
<1>2. /\ Between("t1", Given, Out, Wanted) /\ Between("t2", Given, Out, Wanted)
      /\ Between("t1", Given, "row", "full") /\ Between("row", "full", "row", "full")
      /\ Between("row", "full", Out, Wanted) /\ ~Forward
  BY Ends, FormNames
<1>3. /\ Plain(BoundaryRows("t1", Out)) /\ Plain(BoundaryRows("t2", Out))
      /\ Plain(RealPlane("t1", Out))
      /\ Plain(Expand("t1", "row")) /\ Plain(FullRows("row", "row")) /\ Plain(Pack("row", Out))
  BY <1>2, BoundarySteps, ExpandAndPack
<1>4. ProgramFits(StridedReal) /\ ProgramFits(PlaneReal)
  <2>1. /\ Plain(Lines(1, half, "in", "t1")) /\ Plain(Lines(0, n1 * half, "t1", "t2"))
        /\ Plain(Outermost("in", "t1"))
    BY <1>1, InnerSteps3D
  <2> QED
    BY <1>2, <1>3, <2>1, TwoPlain, ThreePlain DEF StridedReal, PlaneReal
<1>5. ProgramFits(LeafC2R)
  <2>1. /\ Plain(Permute3D(<<0, 2, 1>>, <<n0, n1, half>>, "in", "t1"))
        /\ Plain(MiddleLeaf("in", "t2")) /\ Plain(MiddleLeaf("t1", "t2"))
        /\ Plain(OuterStore(0, n1 * half, "t2", "t1"))
        /\ Plain(Permute3D(<<2, 1, 0>>, <<n0, half, n1>>, "t2", "t1"))
        /\ Plain(OuterStore(0, n1 * half, "t1", "t2"))
    BY <1>1, InnerSteps3D
  <2>2. /\ ProgramFits(<<MiddleLeaf("in", "t2")>>)
        /\ ProgramFits(<<Permute3D(<<0, 2, 1>>, <<n0, n1, half>>, "in", "t1"),
                         MiddleLeaf("t1", "t2")>>)
        /\ ProgramFits(<<OuterStore(0, n1 * half, "t2", "t1"), BoundaryRows("t1", Out)>>)
        /\ ProgramFits(<<Permute3D(<<2, 1, 0>>, <<n0, half, n1>>, "t2", "t1"),
                         OuterStore(0, n1 * half, "t1", "t2"), BoundaryRows("t2", Out)>>)
    BY <1>3, <2>1, OnePlain, TwoPlain, ThreePlain
  <2> QED
    BY <2>2, Joined DEF LeafC2R
<1>6. ProgramFits(Transposed) /\ ProgramFits(C2R3D)
  <2>1. /\ Plain(Permute3D(<<1, 2, 0>>, <<n0, n1, half>>, "in", "t1"))
        /\ Plain(Rows(0, "t1", "t2")) /\ Plain(Rows(1, "t1", "t2"))
        /\ Plain(Permute3D(<<2, 1, 0>>, <<n1, half, n0>>, "t2", "t1"))
        /\ Plain(Permute3D(<<0, 2, 1>>, <<n0, half, n1>>, "t2", "t1"))
    BY <1>1, InnerSteps3D
  <2>2. ProgramFits(Transposed)
    BY <1>2, <1>3, <2>1, SixPlain DEF Transposed
  <2>3. ProgramFits(C2R3D)
    BY <1>3, <2>1, EightPlain DEF C2R3D
  <2> QED
    BY <2>2, <2>3
<1>7. ProgramFits(RtrtC2R)
  <2>1. /\ Plain(Permute3D(<<0, 2, 1>>, <<n0, n1, half>>, "in", "t1"))
        /\ Plain(Rows(1, "t1", "t2"))
        /\ Plain(Permute3D(<<2, 1, 0>>, <<n0, half, n1>>, "t2", "t1"))
        /\ Plain(LastLeaf("t1", "t2"))
        /\ Plain(Permute3D(<<2, 0, 1>>, <<n1, half, n0>>, "t2", "t1"))
    BY <1>1, InnerSteps3D
  <2>2. /\ ProgramFits(<<Permute3D(<<0, 2, 1>>, <<n0, n1, half>>, "in", "t1"),
                         Rows(1, "t1", "t2"),
                         Permute3D(<<2, 1, 0>>, <<n0, half, n1>>, "t2", "t1"),
                         LastLeaf("t1", "t2")>>)
        /\ ProgramFits(<<BoundaryRows("t2", Out)>>)
        /\ ProgramFits(<<Permute3D(<<2, 0, 1>>, <<n1, half, n0>>, "t2", "t1"),
                         BoundaryRows("t1", Out)>>)
    BY <1>3, <2>1, OnePlain, TwoPlain, FourPlain
  <2> QED
    BY <2>2, Joined DEF RtrtC2R
<1> QED
  BY <1>4, <1>5, <1>6, <1>7
\* A step of a loop over the items of the batch has another one beside it, so
\* that the loop goes back to a step of its own.
Paired(p) ==
  \A i \in 1 .. Len(p) :
    p[i].loop = "item" /\ (i = Len(p) \/ p[i + 1].loop # "item") =>
      i > 1 /\ p[i - 1].loop = "item"

WellFormed(p) ==
  /\ Len(p) \in Pos
  /\ \A i \in 1 .. Len(p) : StepFits(p[i])
  /\ Paired(p)

\* The transposing stores of CompiledRaw3DRealRTRTNode, item by item.
LEMMA ItemSteps ==
  ASSUME Configured, cfg.type # "c2c", NEW src, NEW dst, Between(src, Inner, dst, Inner)
  PROVE  /\ StepFits(PerItem(OuterStore(1, n0 * half, src, dst)))
         /\ StepFits(PerItem(OuterStore(0, n1 * half, src, dst)))
<1> DEFINE B == cfg.batch
<1>1. Inner = "half" /\ Width(Inner) = half /\ Words(Inner) = 2
  BY Widths DEF Inner, Words
<1>2. B \in Pos /\ n0 \in Pos /\ n1 \in Pos /\ half \in Pos /\ n0 * half \in Pos /\ n1 * half \in Pos
  BY Shapes, Products DEF Pos
<1>3. StepFits(PerItem(OuterStore(1, n0 * half, src, dst)))
  <2> DEFINE s == PerItem(OuterStore(1, n0 * half, src, dst))  R == n0 * half
  <2>1. /\ s.op = "lines" /\ s.axes = << 1 >> /\ s.from = Inner /\ s.to = Inner
        /\ s.load = "rows" /\ s.store = "outer" /\ s.span = R
        /\ s.src = src /\ s.dst = dst /\ s.loop = "item"
    BY DEF PerItem, OuterStore, Step
  <2> HIDE DEF s
  <2>2. RowCount(s) = B * n0 * half /\ Length(s, s.from) = n1 /\ Length(s, s.to) = n1
    BY <1>1, <2>1, LineCounts
  <2>3. RowCount(s) = B * R /\ 2 * (R * n1) = 2 * n0 * n1 * half /\ R = 1 * R
    BY <1>2, <2>2 DEF Pos
  <2>4. ItemWords = 2 * n0 * n1 * half /\ R \in Pos
    BY <1>2 DEF ItemWords
  <2> HIDE DEF R, B
  <2>5. Divides(s.span, R)
    BY <2>1, <2>3, <2>4 DEF Divides
  <2>6. ItemByItem(s)
    BY <1>1, <2>1, <2>2, <2>3, <2>4, <2>5 DEF ItemByItem, B
  <2>7. Lined(s)
    BY <2>1 DEF Lined, AxisLists
  <2> QED
    BY <2>1, <2>6, <2>7 DEF StepFits, Between, RoomFor, s
<1>4. StepFits(PerItem(OuterStore(0, n1 * half, src, dst)))
  <2> DEFINE s == PerItem(OuterStore(0, n1 * half, src, dst))  R == n1 * half
  <2>1. /\ s.op = "lines" /\ s.axes = <<0>> /\ s.from = Inner /\ s.to = Inner
        /\ s.load = "rows" /\ s.store = "outer" /\ s.span = R
        /\ s.src = src /\ s.dst = dst /\ s.loop = "item"
    BY DEF PerItem, OuterStore, Step
  <2> HIDE DEF s
  <2>2. RowCount(s) = B * n1 * half /\ Length(s, s.from) = n0 /\ Length(s, s.to) = n0
    BY <1>1, <2>1, LineCounts
  <2>3. RowCount(s) = B * R /\ 2 * (R * n0) = 2 * n0 * n1 * half /\ R = 1 * R
    BY <1>2, <2>2 DEF Pos
  <2>4. ItemWords = 2 * n0 * n1 * half /\ R \in Pos
    BY <1>2 DEF ItemWords
  <2> HIDE DEF R, B
  <2>5. Divides(s.span, R)
    BY <2>1, <2>3, <2>4 DEF Divides
  <2>6. ItemByItem(s)
    BY <1>1, <2>1, <2>2, <2>3, <2>4, <2>5 DEF ItemByItem, B
  <2>7. Lined(s)
    BY <2>1 DEF Lined, AxisLists
  <2> QED
    BY <2>1, <2>6, <2>7 DEF StepFits, Between, RoomFor, s
<1> QED
  BY <1>3, <1>4

LEMMA RtrtOuterFits ==
  ASSUME Configured, cfg.type # "c2c"
  PROVE  WellFormed(RtrtOuter)
<1> DEFINE a == BoundaryRows("in", "t1")
           b == Permute3D(<<2, 0, 1>>, <<n0, n1, half>>, "t1", "t2")
           c == PerItem(OuterStore(1, n0 * half, "t2", "t1"))
           d == PerItem(OuterStore(0, n1 * half, "t1", Out))
           e == Permute3D(<<2, 0, 1>>, <<n0, n1, half>>, "in", "t1")
           f == PerItem(OuterStore(1, n0 * half, "t1", "t2"))
           g == PerItem(OuterStore(0, n1 * half, "t2", "t1"))
           h == BoundaryRows("t1", Out)
<1>1. /\ RtrtOuter = IF Forward THEN <<a, b, c, d>> ELSE <<e, f, g, h>>
      /\ c.loop = "item" /\ d.loop = "item" /\ f.loop = "item" /\ g.loop = "item"
  BY DEF RtrtOuter, PerItem, OuterStore, Step
<1>2. /\ Between("t1", Inner, "t2", Inner) /\ Between("t2", Inner, "t1", Inner)
      /\ cfg.type = "r2c" => /\ Between("t1", Inner, Out, Inner)
                             /\ Between("in", Given, "t1", Wanted)
      /\ cfg.type = "c2r" => /\ Between("in", Inner, "t1", Inner)
                             /\ Between("t1", Given, Out, Wanted)
  BY Ends
<1>3. /\ cfg.type = "r2c" => Plain(a) /\ Plain(b) /\ StepFits(c) /\ StepFits(d)
      /\ cfg.type = "c2r" => Plain(e) /\ StepFits(f) /\ StepFits(g) /\ Plain(h)
  BY <1>2, BoundarySteps, InnerSteps3D, ItemSteps
<1> HIDE DEF a, b, c, d, e, f, g, h
<1>4. CASE Forward
  <2> DEFINE p == <<a, b, c, d>>
  <2>1. Plain(a) /\ Plain(b) /\ StepFits(c) /\ StepFits(d)
    BY <1>3, <1>4, FormNames, Shapes
  <2>2. Len(p) = 4 /\ p[1] = a /\ p[2] = b /\ p[3] = c /\ p[4] = d
    OBVIOUS
  <2> HIDE DEF p
  <2>3. Paired(p)
    BY <1>1, <2>1, <2>2 DEF Paired, Plain
  <2>4. \A i \in 1 .. Len(p) : StepFits(p[i])
    BY <2>1, <2>2 DEF Plain
  <2> QED
    BY <1>1, <1>4, <2>2, <2>3, <2>4 DEF WellFormed, Pos, p
<1>5. CASE ~Forward
  <2> DEFINE p == <<e, f, g, h>>
  <2>1. Plain(e) /\ StepFits(f) /\ StepFits(g) /\ Plain(h)
    BY <1>3, <1>5, FormNames, Shapes
  <2>2. Len(p) = 4 /\ p[1] = e /\ p[2] = f /\ p[3] = g /\ p[4] = h
    OBVIOUS
  <2> HIDE DEF p
  <2>3. Paired(p)
    BY <1>1, <2>1, <2>2 DEF Paired, Plain
  <2>4. \A i \in 1 .. Len(p) : StepFits(p[i])
    BY <2>1, <2>2 DEF Plain
  <2> QED
    BY <1>1, <1>5, <2>2, <2>3, <2>4 DEF WellFormed, Pos, p
<1> QED
  BY <1>4, <1>5

LEMMA ProgramsWellFormed ==
  ASSUME Configured
  PROVE  WellFormed(Program)
<1>1. ASSUME NEW p, ProgramFits(p)
      PROVE  WellFormed(p)
  BY <1>1 DEF ProgramFits, WellFormed, Paired, Plain
<1>2. CASE cfg.rank = 2
  BY <1>1, <1>2, Program2DFits DEF Program
<1>3. CASE cfg.rank # 2
  <2>1. cfg.rank = 3 /\ cfg.type \in {"r2c", "c2r"}
    BY <1>3, Shapes
  <2>2. \/ AdmitsPlane(cfg) \/ AdmitsLeaf(cfg) \/ AdmitsRtrt(cfg) \/ cfg.kind = "3d"
    BY <2>1 DEF Configured, Admits, Admits3D
  <2>3. /\ cfg.kind \in {"strided", "plane", "plane_column", "cube", "leaf", "first_store",
                         "transposed", "rtrt", "rtrt_outer", "rtrt_final", "3d"}
        /\ cfg.kind \in {"cube", "first_store"} => cfg.type = "r2c"
    BY <2>2 DEF AdmitsPlane, AdmitsLeaf, AdmitsRtrt
  <2>4. Program = Program3D
    BY <1>3 DEF Program
  <2>5. CASE cfg.kind = "rtrt_outer"
    <3>1. WellFormed(RtrtOuter)
      BY <2>1, RtrtOuterFits
    <3> QED
      BY <2>4, <2>5, <3>1 DEF Program3D
  <2>6. CASE cfg.kind # "rtrt_outer" /\ cfg.type = "r2c"
    <3>1. Forward
      BY <2>6 DEF Forward
    <3>2. ProgramFits(Program3D)
      BY <2>3, <2>6, <3>1, R2C3DFits DEF Program3D
    <3> QED
      BY <1>1, <2>4, <3>2
  <2>7. CASE cfg.kind # "rtrt_outer" /\ cfg.type = "c2r"
    <3>1. ~Forward
      BY <2>7 DEF Forward
    <3>2. ProgramFits(Program3D)
      BY <2>3, <2>7, <3>1, C2R3DFits DEF Program3D
    <3> QED
      BY <1>1, <2>4, <3>2
  <2> QED
    BY <2>1, <2>5, <2>6, <2>7
<1> QED
  BY <1>2, <1>3
-----------------------------------------------------------------------------
(* What a step leaves alone.                                               *)

LEMMA ShapeFixed ==
  ASSUME cfg' = cfg
  PROVE  /\ n0' = n0 /\ n1' = n1 /\ n2' = n2 /\ half' = half
         /\ Inner' = Inner /\ Given' = Given /\ Wanted' = Wanted /\ Out' = Out
         /\ (Forward' <=> Forward) /\ (FusedLast' <=> FusedLast)
         /\ \A f : Width(f)' = Width(f) /\ Words(f)' = Words(f) /\ Elements(f)' = Elements(f)
         /\ \A b : Size(b)' = Size(b)
         /\ \A s : Rounds(s)' = Rounds(s) /\ Stride(s)' = Stride(s)
         /\ (Admits(cfg)' <=> Admits(cfg)) /\ (Configured' <=> Configured)
<1>1. /\ n0' = n0 /\ n1' = n1 /\ n2' = n2 /\ half' = half
      /\ Inner' = Inner /\ Given' = Given /\ Wanted' = Wanted /\ Out' = Out
      /\ (Forward' <=> Forward) /\ (FusedLast' <=> FusedLast)
  BY DEF n0, n1, n2, half, Inner, Given, Wanted, Out, Forward, FusedLast
<1>2. \A f : Width(f)' = Width(f) /\ Words(f)' = Words(f)
  BY <1>1 DEF Width, Words
<1>3. \A f : Elements(f)' = Elements(f)
  BY <1>1, <1>2 DEF Elements
<1>4. \A b : Size(b)' = Size(b)
  BY <1>1, <1>2, <1>3 DEF Size
<1>5. \A a, f : Extent(a, f)' = Extent(a, f)
  BY <1>1, <1>2 DEF Extent
<1>6. \A s, f : Length(s, f)' = Length(s, f)
  BY <1>1, <1>2, <1>5 DEF Length
<1>7. \A s : RowCount(s)' = RowCount(s)
  BY <1>3, <1>6 DEF RowCount
<1>8. \A s : Rounds(s)' = Rounds(s) /\ Stride(s)' = Stride(s)
  BY <1>7 DEF Rounds, Stride
<1>9. (Admits(cfg)' <=> Admits(cfg)) /\ (Configured' <=> Configured)
  BY DEF Configured
<1> QED
  BY <1>1, <1>2, <1>3, <1>4, <1>8, <1>9

LEMMA StepsFixed ==
  ASSUME cfg' = cfg, NEW a, NEW w, NEW x, NEW y, NEW o, NEW d
  PROVE  /\ Lines(a, w, x, y)' = Lines(a, w, x, y)
         /\ FourStepLines(a, w, x, y)' = FourStepLines(a, w, x, y)
         /\ Rows(a, x, y)' = Rows(a, x, y) /\ BoundaryRows(x, y)' = BoundaryRows(x, y)
         /\ OuterStore(a, w, x, y)' = OuterStore(a, w, x, y)
         /\ InnerStore(a, w, x, y)' = InnerStore(a, w, x, y)
         /\ RealOuterStore(x, y)' = RealOuterStore(x, y)
         /\ RealPlane(x, y)' = RealPlane(x, y)
         /\ Permute3D(o, d, x, y)' = Permute3D(o, d, x, y)
         /\ Transpose(a, w, x, y)' = Transpose(a, w, x, y)
         /\ Expand(x, y)' = Expand(x, y) /\ Pack(x, y)' = Pack(x, y)
         /\ Columns(x, y)' = Columns(x, y) /\ MiddleLeaf(x, y)' = MiddleLeaf(x, y)
         /\ Outermost(x, y)' = Outermost(x, y) /\ LastLeaf(x, y)' = LastLeaf(x, y)
<1>1. /\ n0' = n0 /\ n1' = n1 /\ n2' = n2 /\ half' = half
      /\ Inner' = Inner /\ Given' = Given /\ Wanted' = Wanted
      /\ (Forward' <=> Forward) /\ (FusedLast' <=> FusedLast) /\ Width(Inner)' = Width(Inner)
  <2>1. \A f : Width(f)' = Width(f)
    BY ShapeFixed
  <2> QED
    BY <2>1, ShapeFixed DEF Width
<1>2. /\ Lines(a, w, x, y)' = Lines(a, w, x, y)
      /\ FourStepLines(a, w, x, y)' = FourStepLines(a, w, x, y)
      /\ Rows(a, x, y)' = Rows(a, x, y) /\ BoundaryRows(x, y)' = BoundaryRows(x, y)
      /\ OuterStore(a, w, x, y)' = OuterStore(a, w, x, y)
      /\ InnerStore(a, w, x, y)' = InnerStore(a, w, x, y)
  BY <1>1 DEF Lines, FourStepLines, Rows, BoundaryRows, OuterStore, InnerStore
<1>3. /\ RealOuterStore(x, y)' = RealOuterStore(x, y)
      /\ RealPlane(x, y)' = RealPlane(x, y)
      /\ Permute3D(o, d, x, y)' = Permute3D(o, d, x, y)
      /\ Transpose(a, w, x, y)' = Transpose(a, w, x, y)
      /\ Expand(x, y)' = Expand(x, y) /\ Pack(x, y)' = Pack(x, y)
  BY <1>1 DEF RealOuterStore, RealPlane, Permute3D, Transpose, Permute, Expand, Pack
<1>4. Columns(x, y)' = Columns(x, y)
  BY <1>1, <1>2 DEF Columns, FourStepLines, Lines
<1>5. /\ MiddleLeaf(x, y)' = MiddleLeaf(x, y) /\ Outermost(x, y)' = Outermost(x, y)
      /\ LastLeaf(x, y)' = LastLeaf(x, y)
  BY <1>1 DEF MiddleLeaf, Outermost, LastLeaf, ColumnGrid, Lines, Rows, OuterStore, InnerStore
<1> QED
  BY <1>2, <1>3, <1>4, <1>5
LEMMA ProgramFixed ==
  ASSUME cfg' = cfg
  PROVE  Program' = Program
<1>1. /\ n0' = n0 /\ n1' = n1 /\ n2' = n2 /\ half' = half
      /\ Inner' = Inner /\ Given' = Given /\ Wanted' = Wanted /\ Out' = Out
      /\ (Forward' <=> Forward) /\ (FusedLast' <=> FusedLast)
  BY ShapeFixed
<1>2. As1D' = As1D
  BY <1>1 DEF As1D, Rows, BoundaryRows
<1>3. TwoD' = TwoD /\ TwoDFused' = TwoDFused
  BY <1>1 DEF TwoD, TwoDFused, Rows, Transpose, Permute, OuterStore
<1>4. \A x, y : Columns(x, y)' = Columns(x, y)
  BY StepsFixed
<1>5. TwoDRC' = TwoDRC
  BY <1>1, <1>4 DEF TwoDRC, Rows
<1>6. R2CRow' = R2CRow /\ C2RRow' = C2RRow
  BY <1>1 DEF R2CRow, C2RRow, BoundaryRows, Transpose, Permute, Rows
<1>7. \A x, y : /\ Expand(x, y)' = Expand(x, y) /\ Pack(x, y)' = Pack(x, y)
                /\ BoundaryRows(x, y)' = BoundaryRows(x, y)
  BY StepsFixed
<1>8. R2C' = R2C /\ C2R' = C2R
  BY <1>1, <1>7 DEF R2C, C2R, Transpose, Permute, Rows
<1>9. R2CRC' = R2CRC /\ C2RRC' = C2RRC
  BY <1>1, <1>4, <1>7 DEF R2CRC, C2RRC
<1>10. Program2D' = Program2D
  BY <1>2, <1>3, <1>5, <1>6, <1>8, <1>9 DEF Program2D
<1>11. StridedReal' = StridedReal
  BY <1>1, <1>7 DEF StridedReal, Lines
<1>12. PlaneReal' = PlaneReal /\ <<RealCube("in", Out)>>' = <<RealCube("in", Out)>>
  BY <1>1, StepsFixed DEF PlaneReal, RealCube
<1>13. \A x, y : MiddleLeaf(x, y)' = MiddleLeaf(x, y) /\ LastLeaf(x, y)' = LastLeaf(x, y)
  BY StepsFixed
<1>14. LeafR2C' = LeafR2C /\ LeafC2R' = LeafC2R
  BY <1>1, <1>7, <1>13 DEF LeafR2C, LeafC2R, RealOuterStore, Permute3D, Permute, OuterStore
<1>15. FirstStore' = FirstStore /\ Transposed' = Transposed
  BY <1>1, <1>7 DEF FirstStore, Transposed, RealOuterStore, Permute3D, Permute, Rows
<1>16. RtrtR2C' = RtrtR2C
  BY <1>1, <1>7, <1>13 DEF RtrtR2C, RealOuterStore, Permute3D, Permute, Rows, InnerStore
<1>17. RtrtC2R' = RtrtC2R
  BY <1>1, <1>7, <1>13 DEF RtrtC2R, Permute3D, Permute, Rows
<1>18. RtrtOuter' = RtrtOuter
  BY <1>1, <1>7 DEF RtrtOuter, Permute3D, Permute, OuterStore
<1>19. R2C3D' = R2C3D /\ C2R3D' = C2R3D
  BY <1>1, <1>7 DEF R2C3D, C2R3D, Permute3D, Permute, Rows
<1>20. Program3D' = Program3D
  BY <1>1, <1>11, <1>12, <1>14, <1>15, <1>16, <1>17, <1>18, <1>19 DEF Program3D
<1> QED
  BY <1>10, <1>20 DEF Program
-----------------------------------------------------------------------------
(* The inductive invariant.                                                *)

\* Where execute is in the program, and the buffers it works on.
Control ==
  /\ Configured
  /\ pc \in 1 .. Len(Program)
  /\ offset \in 0 .. Rounds(Now) - 1
  /\ status \in {"running", "success", "failed"}
  /\ DOMAIN mem = Buffers
  /\ \A b \in Buffers : DOMAIN mem[b] = 0 .. Size(b) - 1

IInv == Control /\ CallerInputKept

LEMMA RoundsExist ==
  ASSUME Configured, NEW s, StepFits(s)
  PROVE  /\ Rounds(s) \in Pos /\ Stride(s) \in Pos
         /\ s.loop = "item" => Rounds(s) = cfg.batch /\ Stride(s) = 1
<1>1. cfg.batch \in Pos /\ cfg.chunk \in Pos
  BY Shapes
<1>2. CASE s.op = "perm"
  <2>1. s.loop \in {"none", "batch"}
    BY <1>2 DEF StepFits
  <2> QED
    BY <1>1, <2>1 DEF Rounds, Stride, Pos
<1>3. CASE s.op # "perm"
  <2>1. Lined(s)
    BY <1>3 DEF StepFits
  <2>2. RowCount(s) \in Pos
    BY <2>1, LinesCover
  <2> QED
    BY <1>1, <2>2 DEF Rounds, Stride, Pos
<1> QED
  BY <1>2, <1>3

LEMMA CurrentFits ==
  ASSUME Control
  PROVE  StepFits(Now) /\ Len(Program) \in Pos
BY ProgramsWellFormed DEF Control, WellFormed, Now

LEMMA Initially == Init => IInv
<1> SUFFICES ASSUME Init
             PROVE  IInv
  OBVIOUS
<1>1. Configured /\ pc = 1 /\ offset = 0 /\ status = "running"
  BY DEF Init, Configured
<1>2. WellFormed(Program)
  BY <1>1, ProgramsWellFormed
<1>3. pc \in 1 .. Len(Program)
  BY <1>1, <1>2 DEF WellFormed, Pos
<1>4. Rounds(Now) \in Pos
  BY <1>1, <1>2, <1>3, RoundsExist DEF WellFormed, Now
<1>5. offset \in 0 .. Rounds(Now) - 1
  BY <1>1, <1>4 DEF Pos
<1>6. /\ DOMAIN mem = Buffers
      /\ \A b \in Buffers : DOMAIN mem[b] = 0 .. Size(b) - 1
  BY DEF Init
<1>7. CallerInputKept
  <2> SUFFICES ASSUME ~cfg.inPlace, NEW w \in DOMAIN mem["in"]
               PROVE  mem["in"][w] = Natural(w, Given, {})
    BY DEF CallerInputKept
  <2>1. w \in 0 .. Size("in") - 1 /\ Size("in") = Words(Given) * Elements(Given)
    BY <1>6 DEF Buffers, Size
  <2>2. Words(Given) * Elements(Given) \in Nat
    BY <1>1, FormSizes DEF Pos
  <2>3. "in" \in Buffers /\ w < Words(Given) * Elements(Given)
    BY <2>1, <2>2 DEF Buffers
  <2> QED
    BY <2>1, <2>3 DEF Init
<1> QED
  BY <1>1, <1>3, <1>5, <1>6, <1>7 DEF IInv, Control

\* Advance stays in the program and in the rounds of its steps.
LEMMA Advances ==
  ASSUME Control, status = "running", cfg' = cfg, Advance(Now)
  PROVE  /\ pc' \in 1 .. Len(Program)
         /\ offset' \in 0 .. Rounds(Program[pc']) - 1
         /\ status' \in {"running", "success"}
<1> DEFINE l == Len(Program)  s == Now
<1>1. WellFormed(Program)
  BY ProgramsWellFormed DEF Control
<1>2. l \in Pos /\ pc \in 1 .. l /\ s = Program[pc]
  BY <1>1 DEF Control, WellFormed, Now
<1>3. \A i \in 1 .. l :
        /\ Rounds(Program[i]) \in Pos /\ Stride(Program[i]) \in Pos
        /\ Program[i].loop = "item" => Rounds(Program[i]) = cfg.batch /\ Stride(Program[i]) = 1
  BY <1>1, RoundsExist DEF WellFormed, Control
<1>4. /\ offset \in Nat /\ offset < Rounds(s) /\ Rounds(s) \in Pos /\ Stride(s) \in Pos
      /\ s.loop = "item" => Rounds(s) = cfg.batch /\ Stride(s) = 1
  BY <1>2, <1>3 DEF Control, Pos
<1> DEFINE more == offset + Stride(s) < Rounds(s)
           last == pc = l
           inBody == s.loop = "item" /\ ~last /\ Program[pc + 1].loop = "item"
<1>5. \/ inBody /\ pc' = pc + 1 /\ UNCHANGED <<offset, status>>
      \/ /\ ~inBody /\ s.loop = "item" /\ more
         /\ pc' = pc - 1 /\ offset' = offset + 1 /\ UNCHANGED status
      \/ /\ ~inBody /\ s.loop # "item" /\ more
         /\ offset' = offset + Stride(s) /\ UNCHANGED <<pc, status>>
      \/ /\ ~inBody /\ ~more /\ ~last
         /\ pc' = pc + 1 /\ offset' = 0 /\ UNCHANGED status
      \/ status' = "success" /\ UNCHANGED <<pc, offset>>
  BY DEF Advance
<1> HIDE DEF l, s
<1>6. CASE inBody /\ pc' = pc + 1 /\ UNCHANGED <<offset, status>>
  <2>1. pc' \in 1 .. l
    BY <1>2, <1>6 DEF Pos
  <2>2. Rounds(Program[pc']) = Rounds(s)
    BY <1>3, <1>4, <1>6, <2>1
  <2> QED
    BY <1>4, <1>6, <2>1, <2>2 DEF l, Pos
<1>7. CASE /\ ~inBody /\ s.loop = "item" /\ more
           /\ pc' = pc - 1 /\ offset' = offset + 1 /\ UNCHANGED status
  <2>1. pc > 1 /\ Program[pc - 1].loop = "item"
    BY <1>1, <1>2, <1>7 DEF WellFormed, Paired, l
  <2>2. pc' \in 1 .. l
    BY <1>2, <1>7, <2>1 DEF Pos
  <2>3. Rounds(Program[pc']) = Rounds(s)
    BY <1>3, <1>4, <1>7, <2>1, <2>2
  <2> QED
    BY <1>4, <1>7, <2>2, <2>3 DEF l, Pos
<1>8. CASE /\ ~inBody /\ s.loop # "item" /\ more
           /\ offset' = offset + Stride(s) /\ UNCHANGED <<pc, status>>
  BY <1>2, <1>4, <1>8 DEF l, Pos
<1>9. CASE /\ ~inBody /\ ~more /\ ~last
           /\ pc' = pc + 1 /\ offset' = 0 /\ UNCHANGED status
  <2>1. pc' \in 1 .. l
    BY <1>2, <1>9 DEF Pos
  <2>2. Rounds(Program[pc']) \in Pos
    BY <1>3, <2>1
  <2> QED
    BY <1>9, <2>1, <2>2 DEF l, Pos
<1>10. CASE status' = "success" /\ UNCHANGED <<pc, offset>>
  BY <1>2, <1>4, <1>10 DEF l, Pos
<1> QED
  BY <1>5, <1>6, <1>7, <1>8, <1>9, <1>10
\* A launch writes its destination, word by word.
LEMMA Writes ==
  ASSUME Control, Launch
  PROVE  /\ Now.dst \in Buffers /\ (Now.dst = "in" => cfg.inPlace)
         /\ cfg' = cfg /\ Advance(Now) /\ status = "running"
         /\ DOMAIN mem' = Buffers
         /\ \A b \in Buffers : DOMAIN mem'[b] = DOMAIN mem[b]
         /\ \A b \in Buffers : b # Now.dst => mem'[b] = mem[b]
<1> DEFINE s == Now
           m == IF s.op = "lines" THEN LinesStored(s) ELSE Permuted(s)
<1>1. s.dst \in Buffers /\ (s.dst = "in" => cfg.inPlace)
  BY CurrentFits DEF StepFits
<1>2. /\ mem' = [mem EXCEPT ![s.dst] = m]
      /\ cfg' = cfg /\ Advance(Now) /\ status = "running"
  BY DEF Launch
<1>3. DOMAIN m = DOMAIN mem[s.dst]
  <2>1. DOMAIN LinesStored(s) = DOMAIN mem[s.dst]
    BY DEF LinesStored
  <2>2. DOMAIN Permuted(s) = DOMAIN mem[s.dst]
    BY DEF Permuted
  <2> QED
    BY <2>1, <2>2
<1>4. DOMAIN mem = Buffers
  BY DEF Control
<1> HIDE DEF s, m
<1>5. /\ DOMAIN mem' = Buffers
      /\ \A b \in Buffers : mem'[b] = IF b = s.dst THEN m ELSE mem[b]
  BY <1>1, <1>2, <1>4
<1> QED
  BY <1>1, <1>2, <1>3, <1>5 DEF s

LEMMA InputFixed ==
  ASSUME cfg' = cfg
  PROVE  \A w : Natural(w, Given, {})' = Natural(w, Given, {})
<1>1. n0' = n0 /\ n1' = n1 /\ Given' = Given
  BY ShapeFixed
<1>2. \A f : Width(f)' = Width(f) /\ Words(f)' = Words(f)
  BY ShapeFixed
<1> QED
  BY <1>1, <1>2 DEF Natural

LEMMA Kept == IInv /\ [Next]_vars => IInv'
<1> SUFFICES ASSUME IInv, [Next]_vars
             PROVE  IInv'
  OBVIOUS
<1>1. Control /\ CallerInputKept
  BY DEF IInv
<1>2. cfg' = cfg
  BY DEF Next, Launch, LaunchFails, vars
<1>3. /\ Program' = Program /\ (Configured' <=> Configured)
      /\ \A s : Rounds(s)' = Rounds(s)
      /\ \A b : Size(b)' = Size(b)
  BY <1>2, ProgramFixed, ShapeFixed
<1>4. CASE Launch
  <2>1. /\ Now.dst \in Buffers /\ (Now.dst = "in" => cfg.inPlace)
        /\ Advance(Now) /\ status = "running"
        /\ DOMAIN mem' = Buffers
        /\ \A b \in Buffers : DOMAIN mem'[b] = DOMAIN mem[b]
        /\ \A b \in Buffers : b # Now.dst => mem'[b] = mem[b]
    BY <1>1, <1>4, Writes
  <2>2. /\ pc' \in 1 .. Len(Program)
        /\ offset' \in 0 .. Rounds(Program[pc']) - 1
        /\ status' \in {"running", "success"}
    BY <1>1, <1>2, <2>1, Advances
  <2>3. offset' \in 0 .. Rounds(Now)' - 1
    <3>1. Now' = Program[pc']
      BY <1>3 DEF Now
    <3>2. Rounds(Now)' = Rounds(Now')
      BY <1>2, ShapeFixed DEF Rounds, RowCount, Elements, Length
    <3> QED
      BY <2>2, <3>1, <3>2
  <2>4. \A b \in Buffers : DOMAIN mem'[b] = 0 .. Size(b) - 1
    BY <1>1, <2>1 DEF Control
  <2>5. Control'
    BY <1>1, <1>3, <2>1, <2>2, <2>3, <2>4 DEF Control
  <2>6. CallerInputKept'
    <3> SUFFICES ASSUME ~cfg.inPlace, NEW w \in DOMAIN mem'["in"]
                 PROVE  mem'["in"][w] = Natural(w, Given, {})'
      BY <1>2 DEF CallerInputKept
    <3>1. mem'["in"] = mem["in"]
      BY <2>1 DEF Buffers
    <3>2. mem["in"][w] = Natural(w, Given, {})
      BY <1>1, <3>1 DEF CallerInputKept
    <3> QED
      BY <1>2, <3>1, <3>2, InputFixed
  <2> QED
    BY <2>5, <2>6 DEF IInv
<1>5. CASE LaunchFails \/ UNCHANGED vars
  <2>1. pc' = pc /\ offset' = offset /\ mem' = mem /\ status' \in {status, "failed"}
    BY <1>5 DEF LaunchFails, vars
  <2>2. Rounds(Now)' = Rounds(Now)
    <3>1. Now' = Now
      BY <1>3, <2>1 DEF Now
    <3>2. Rounds(Now)' = Rounds(Now')
      BY <1>2, ShapeFixed DEF Rounds, RowCount, Elements, Length
    <3> QED
      BY <1>3, <3>1, <3>2
  <2>3. Control'
    BY <1>1, <1>3, <2>1, <2>2 DEF Control
  <2>4. CallerInputKept'
    BY <1>1, <1>2, <2>1, InputFixed DEF CallerInputKept
  <2> QED
    BY <2>3, <2>4 DEF IInv
<1> QED
  BY <1>4, <1>5 DEF Next

LEMMA InvariantInside == IInv => AccessInBounds
<1> SUFFICES ASSUME IInv
             PROVE  AccessInBounds
  OBVIOUS
<1>1. Control
  BY DEF IInv
<1>2. TypeOK
  BY <1>1 DEF Control, Configured, TypeOK
<1> DEFINE s == Now
<1>3. Inside(s) /\ StepFits(s)
  BY <1>1, CurrentFits, StepInside DEF Control
<1> HIDE DEF s
<1>4. CASE s.op = "perm"
  BY <1>2, <1>3, <1>4 DEF Inside, AccessInBounds, s
<1>5. CASE s.op # "perm"
  <2>1. SideIn(s, s.load, s.from, LoadBase(s), s.src)
        /\ SideIn(s, s.store, s.to, StoreBase(s), s.dst)
    BY <1>3, <1>5 DEF Inside
  <2>2. \A r \in Launched(s) :
          /\ \A k \in 0 .. Length(s, s.from) - 1 :
               LoadWord(s, r, k) + Words(s.from) <= Size(s.src)
          /\ \A k \in 0 .. Length(s, s.to) - 1 :
               StoreWord(s, r, k) + Words(s.to) <= Size(s.dst)
    BY <2>1 DEF SideIn, LoadWord, StoreWord
  <2> QED
    BY <1>2, <1>5, <2>2 DEF AccessInBounds, s
<1> QED
  BY <1>4, <1>5
-----------------------------------------------------------------------------
(* Theorems.                                                               *)

\* For every shape, batch and chunk, and every 2D node and real 3D node the
\* compiler makes: control state and buffers keep their types, and no launch
\* reads or stores outside the workspaces the compiler allocated or the
\* caller's arrays.
THEOREM GridInBounds == Spec => []AccessInBounds
<1> QED
  BY Initially, Kept, InvariantInside, PTL DEF Spec

\* Out of place, execute of none of these nodes writes the caller's input.
THEOREM GridInputKept == Spec => []CallerInputKept
<1>1. IInv => CallerInputKept
  BY DEF IInv
<1> QED
  BY <1>1, Initially, Kept, PTL DEF Spec
-----------------------------------------------------------------------------
(* Positions in arrays of three axes.                                      *)

\* A number is told by its quotient and remainder, and these by it.
LEMMA Digits ==
  ASSUME NEW q \in Nat, NEW d \in Pos, NEW x \in 0 .. d - 1
  PROVE  /\ q * d + x \in Nat
         /\ (q * d + x) \div d = q /\ (q * d + x) % d = x
BY DEF Pos

LEMMA SameDigits ==
  ASSUME NEW d \in Pos, NEW q \in Nat, NEW p \in Nat,
         NEW x \in 0 .. d - 1, NEW y \in 0 .. d - 1,
         q * d + x = p * d + y
  PROVE  q = p /\ x = y
BY Digits

\* Position of the coordinates x0, x1, x2 of item c in an array of extents
\* d0, d1, d2.
Place3(d0, d1, d2, c, x0, x1, x2) == ((c * d0 + x0) * d1 + x1) * d2 + x2

LEMMA Place3Digits ==
  ASSUME NEW d0 \in Pos, NEW d1 \in Pos, NEW d2 \in Pos, NEW c \in Nat,
         NEW x0 \in 0 .. d0 - 1, NEW x1 \in 0 .. d1 - 1, NEW x2 \in 0 .. d2 - 1,
         NEW a, a = Place3(d0, d1, d2, c, x0, x1, x2)
  PROVE  /\ a \in Nat
         /\ a \div d2 = (c * d0 + x0) * d1 + x1 /\ a % d2 = x2
         /\ a \div (d1 * d2) = c * d0 + x0
         /\ a \div (d0 * d1 * d2) = c
         /\ (a \div d2) % d1 = x1 /\ (a \div (d1 * d2)) % d0 = x0
         /\ a % (d0 * d1 * d2) = (x0 * d1 + x1) * d2 + x2
<1> DEFINE g == c * d0 + x0  h == g * d1 + x1  y == x1 * d2 + x2  z == x0 * (d1 * d2) + y
<1>1. g \in Nat /\ h \in Nat /\ d1 * d2 \in Pos /\ d0 * d1 * d2 \in Pos
  BY Products DEF Pos
<1>2. y \in 0 .. d1 * d2 - 1
  BY DigitBound DEF Pos
<1>3. z \in 0 .. d0 * (d1 * d2) - 1
  <2> HIDE DEF y
  <2>1. d0 \in Nat
    BY DEF Pos
  <2> DEFINE e == d1 * d2
  <2>2. e \in Pos /\ y \in 0 .. e - 1
    BY <1>1, <1>2
  <2> HIDE DEF e
  <2>3. x0 * e + y \in 0 .. d0 * e - 1
    BY <2>1, <2>2, DigitBound
  <2> QED
    BY <2>3 DEF e
<1>4. a = h * d2 + x2
  BY DEF Place3
<1>5. a = g * (d1 * d2) + y
  <2>1. (g * d1 + x1) * d2 = g * (d1 * d2) + x1 * d2
    BY <1>1 DEF Pos
  <2>2. x1 * d2 \in Nat
    BY DEF Pos
  <2> HIDE DEF g
  <2> QED
    BY <1>1, <1>4, <2>1, <2>2 DEF Pos
<1>6. a = c * (d0 * (d1 * d2)) + z
  <2> DEFINE e == d1 * d2
  <2>1. e \in Nat /\ y \in Nat
    BY <1>1, <1>2 DEF Pos
  <2>2. a = (c * d0 + x0) * e + y
    BY <1>5
  <2> HIDE DEF e, y
  <2>3. (c * d0 + x0) * e = c * (d0 * e) + x0 * e
    BY <2>1 DEF Pos
  <2>4. c * (d0 * e) \in Nat /\ x0 * e \in Nat
    BY <2>1 DEF Pos
  <2> QED
    BY <2>1, <2>2, <2>3, <2>4 DEF e
<1>7. d0 * (d1 * d2) = d0 * d1 * d2
  BY DEF Pos
<1>8. z = (x0 * d1 + x1) * d2 + x2
  BY DEF Pos
<1>9. a \in Nat /\ a \div d2 = h /\ a % d2 = x2
  <2> HIDE DEF h
  <2> QED
    BY <1>1, <1>4, Digits
<1>10. h % d1 = x1
  <2> HIDE DEF g
  <2> QED
    BY <1>1, Digits
<1>11. a \div (d1 * d2) = g /\ g % d0 = x0
  <2> DEFINE e == d1 * d2
  <2>1. e \in Pos /\ y \in 0 .. e - 1 /\ a = g * e + y
    BY <1>1, <1>2, <1>5
  <2> HIDE DEF e, y
  <2>2. a \div e = g
    <3> HIDE DEF g
    <3> QED
      BY <1>1, <2>1, Digits
  <2>3. g % d0 = x0
    BY Digits
  <2> QED
    BY <2>2, <2>3 DEF e
<1>12. a \div (d0 * d1 * d2) = c /\ a % (d0 * d1 * d2) = z
  <2> DEFINE e == d0 * d1 * d2
  <2>1. e \in Pos /\ z \in 0 .. e - 1 /\ a = c * e + z
    BY <1>1, <1>3, <1>6, <1>7
  <2> HIDE DEF e, z
  <2>2. a \div e = c /\ a % e = z
    BY <2>1, Digits
  <2> QED
    BY <2>2 DEF e
<1> QED
  BY <1>8, <1>9, <1>10, <1>11, <1>12

\* Index k of row r in an array whose rows are interleaved by the given span.
Spread(span, len, r, k) == (r \div span) * (len * span) + k * span + (r % span)

LEMMA SpreadPlace ==
  ASSUME NEW du \in Pos, NEW dv \in Pos, NEW len \in Pos, NEW c \in Nat,
         NEW xu \in 0 .. du - 1, NEW xv \in 0 .. dv - 1, NEW k \in 0 .. len - 1,
         NEW r, r = (c * du + xu) * dv + xv
  PROVE  /\ r \in Nat
         /\ r * len + k = Place3(du, dv, len, c, xu, xv, k)
         /\ Spread(du * dv, len, r, k) = Place3(len, du, dv, c, k, xu, xv)
         /\ Spread(dv, len, r, k) = Place3(du, len, dv, c, xu, k, xv)
         /\ r \div dv = c * du + xu /\ r % dv = xv
<1> DEFINE h == c * du + xu  x == xu * dv + xv
<1>1. h \in Nat /\ du * dv \in Pos /\ r \in Nat /\ x \in 0 .. du * dv - 1
  BY Products, DigitBound DEF Pos
<1>2. r \div dv = h /\ r % dv = xv
  BY <1>1, Digits
<1>3. r = c * (du * dv) + x
  BY DEF Pos
<1>4. r \div (du * dv) = c /\ r % (du * dv) = x
  <2> DEFINE e == du * dv
  <2> HIDE DEF e, x
  <2>1. e \in Pos /\ x \in 0 .. e - 1 /\ r = c * e + x
    BY <1>1, <1>3 DEF e
  <2>2. r \div e = c /\ r % e = x
    BY <2>1, Digits
  <2> QED
    BY <2>2 DEF e
<1>5. Spread(du * dv, len, r, k) = c * (len * (du * dv)) + k * (du * dv) + x
  <2> HIDE DEF x
  <2> QED
    BY <1>4 DEF Spread
<1>6. Spread(dv, len, r, k) = h * (len * dv) + k * dv + xv
  <2> HIDE DEF h
  <2> QED
    BY <1>2 DEF Spread
<1>7. c * (len * (du * dv)) + k * (du * dv) + x = Place3(len, du, dv, c, k, xu, xv)
  BY DEF Place3, Pos
<1>8. h * (len * dv) + k * dv + xv = Place3(du, len, dv, c, xu, k, xv)
  BY DEF Place3, Pos
<1>9. r * len + k = Place3(du, dv, len, c, xu, xv, k)
  BY DEF Place3, Pos
<1> QED
  BY <1>1, <1>2, <1>5, <1>6, <1>7, <1>8, <1>9

-----------------------------------------------------------------------------
(* Elements: where the element with coordinates i of item c lies in an array  *)
(* of form f whose axes lie in order o, the last one contiguous.             *)

Axes == {0, 1, 2}
Orders == {<<0, 1, 2>>, <<0, 2, 1>>, <<1, 0, 2>>, <<1, 2, 0>>, <<2, 0, 1>>, <<2, 1, 0>>}
Batch == 0 .. cfg.batch - 1
Index(f) == (0 .. n0 - 1) \X (0 .. n1 - 1) \X (0 .. Width(f) - 1)
AddrOf(o, f, c, i) ==
  Place3(Extent(o[1], f), Extent(o[2], f), Extent(o[3], f),
         c, i[o[1] + 1], i[o[2] + 1], i[o[3] + 1])

LEMMA OrderAxes ==
  ASSUME NEW o \in Orders
  PROVE  /\ o[1] \in Axes /\ o[2] \in Axes /\ o[3] \in Axes
         /\ o[1] # o[2] /\ o[1] # o[3] /\ o[2] # o[3]
         /\ \A x \in Axes : x = o[1] \/ x = o[2] \/ x = o[3]
BY DEF Orders, Axes

LEMMA Extents ==
  ASSUME Configured, NEW f
  PROVE  /\ Extent(0, f) = n0 /\ Extent(1, f) = n1 /\ Extent(2, f) = Width(f)
         /\ \A x \in Axes : Extent(x, f) \in Pos
         /\ Width(f) \in Pos /\ n0 \in Pos /\ n1 \in Pos
BY Shapes, FormSizes DEF Extent, Axes

LEMMA Coordinates ==
  ASSUME Configured, NEW f, NEW i \in Index(f)
  PROVE  /\ i = <<i[1], i[2], i[3]>>
         /\ i[1] \in 0 .. n0 - 1 /\ i[2] \in 0 .. n1 - 1 /\ i[3] \in 0 .. Width(f) - 1
         /\ \A x \in Axes : i[x + 1] \in 0 .. Extent(x, f) - 1
<1>1. /\ i = <<i[1], i[2], i[3]>>
      /\ i[1] \in 0 .. n0 - 1 /\ i[2] \in 0 .. n1 - 1 /\ i[3] \in 0 .. Width(f) - 1
  BY DEF Index
<1> QED
  BY <1>1, Extents DEF Axes

LEMMA OrderSize ==
  ASSUME Configured, NEW o \in Orders, NEW f
  PROVE  LET z == Extent(o[1], f) * Extent(o[2], f) * Extent(o[3], f)
         IN  z \in Pos /\ z = n0 * n1 * Width(f) /\ Elements(f) = cfg.batch * z
<1> DEFINE w == Width(f)
<1>1. n0 \in Nat /\ n1 \in Nat /\ w \in Nat /\ cfg.batch \in Nat /\ n0 * n1 * w \in Pos
  BY Extents, FormSizes, Shapes DEF Pos
<1> HIDE DEF w
<1>2. /\ n0 * n1 * w = n0 * w * n1 /\ n0 * n1 * w = n1 * n0 * w
      /\ n0 * n1 * w = n1 * w * n0 /\ n0 * n1 * w = w * n0 * n1
      /\ n0 * n1 * w = w * n1 * n0
  BY <1>1
<1>3. Extent(o[1], f) * Extent(o[2], f) * Extent(o[3], f) = n0 * n1 * w
  BY <1>2, Extents DEF Orders, w
<1>4. cfg.batch * (n0 * n1 * w) = cfg.batch * n0 * n1 * w
  BY <1>1
<1> QED
  BY <1>1, <1>3, <1>4 DEF w, Elements

LEMMA AddressDigits ==
  ASSUME Configured, NEW o \in Orders, NEW f, NEW c \in Batch, NEW i \in Index(f)
  PROVE  LET a == AddrOf(o, f, c, i)
             d0 == Extent(o[1], f)  d1 == Extent(o[2], f)  d2 == Extent(o[3], f)
             x0 == i[o[1] + 1]  x1 == i[o[2] + 1]  x2 == i[o[3] + 1]
         IN  /\ a \in 0 .. Elements(f) - 1
             /\ a \div (n0 * n1 * Width(f)) = c
             /\ a % (n0 * n1 * Width(f)) = (x0 * d1 + x1) * d2 + x2
             /\ (a \div (d1 * d2)) % d0 = x0
             /\ (a \div d2) % d1 = x1
             /\ a % d2 = x2
<1> DEFINE a == AddrOf(o, f, c, i)
           d0 == Extent(o[1], f)  d1 == Extent(o[2], f)  d2 == Extent(o[3], f)
           x0 == i[o[1] + 1]  x1 == i[o[2] + 1]  x2 == i[o[3] + 1]
           z == n0 * n1 * Width(f)  y == (x0 * d1 + x1) * d2 + x2
<1>1. d0 \in Pos /\ d1 \in Pos /\ d2 \in Pos
  BY Extents, OrderAxes
<1>2. x0 \in 0 .. d0 - 1 /\ x1 \in 0 .. d1 - 1 /\ x2 \in 0 .. d2 - 1
  BY Coordinates, OrderAxes
<1>3. c \in 0 .. cfg.batch - 1 /\ cfg.batch \in Nat /\ c \in Nat
  BY Shapes DEF Batch, Pos
<1>4. a = Place3(d0, d1, d2, c, x0, x1, x2)
  BY DEF AddrOf
<1>5. z = d0 * d1 * d2 /\ z \in Pos /\ Elements(f) = cfg.batch * z
  BY OrderSize
<1> HIDE DEF a, d0, d1, d2, x0, x1, x2, z
<1>6. /\ a \in Nat /\ a \div z = c /\ a % z = y
      /\ (a \div (d1 * d2)) % d0 = x0 /\ (a \div d2) % d1 = x1 /\ a % d2 = x2
  <2>1. /\ a \in Nat /\ a % d2 = x2 /\ a \div (d0 * d1 * d2) = c
        /\ (a \div d2) % d1 = x1 /\ (a \div (d1 * d2)) % d0 = x0
        /\ a % (d0 * d1 * d2) = y
    BY <1>1, <1>2, <1>3, <1>4, Place3Digits
  <2> HIDE DEF y
  <2> QED
    BY <1>5, <2>1
<1>7. a \in 0 .. cfg.batch * z - 1
  <2> HIDE DEF y
  <2>1. y \in 0 .. z - 1 /\ a = c * z + y
    BY <1>5, <1>6, Division
  <2> QED
    BY <1>3, <1>5, <2>1, DigitBound
<1> QED
  BY <1>5, <1>6, <1>7 DEF a, d0, d1, d2, x0, x1, x2, z

\* Two elements never share an address.
LEMMA AddressApart ==
  ASSUME Configured, NEW o \in Orders, NEW f, NEW c \in Batch, NEW i \in Index(f),
         NEW d \in Batch, NEW j \in Index(f), AddrOf(o, f, c, i) = AddrOf(o, f, d, j)
  PROVE  c = d /\ i = j
<1>1. c = d
  BY AddressDigits
<1>2. i[o[1] + 1] = j[o[1] + 1] /\ i[o[2] + 1] = j[o[2] + 1] /\ i[o[3] + 1] = j[o[3] + 1]
  BY AddressDigits
<1>3. \A x \in Axes : i[x + 1] = j[x + 1]
  BY <1>2, OrderAxes
<1>4. i[1] = j[1] /\ i[2] = j[2] /\ i[3] = j[3]
  <2>1. 0 \in Axes /\ 1 \in Axes /\ 2 \in Axes
    BY DEF Axes
  <2> QED
    BY <1>3, <2>1
<1>5. i = <<i[1], i[2], i[3]>> /\ j = <<j[1], j[2], j[3]>>
  BY Coordinates
<1> QED
  BY <1>1, <1>4, <1>5

\* Every position of an array is an element of it.
LEMMA AddressExists ==
  ASSUME Configured, NEW f, NEW a \in 0 .. Elements(f) - 1
  PROVE  \E c \in Batch, i \in Index(f) :
           /\ a = AddrOf(<<0, 1, 2>>, f, c, i)
           /\ c = a \div (n0 * n1 * Width(f))
           /\ i = <<(a \div (n1 * Width(f))) % n0, (a \div Width(f)) % n1, a % Width(f)>>
<1> DEFINE w == Width(f)  e == n1 * w  h == a \div w  g == a \div e
           x0 == g % n0  x1 == h % n1  x2 == a % w  c == a \div (n0 * n1 * w)
           i == <<x0, x1, x2>>
<1>1. n0 \in Pos /\ n1 \in Pos /\ w \in Pos /\ e \in Pos /\ n0 * n1 * w \in Pos
  BY Extents, FormSizes
<1>2. cfg.batch \in Nat /\ Elements(f) = cfg.batch * (n0 * n1 * w)
  <2>1. <<0, 1, 2>> \in Orders
    BY DEF Orders
  <2> QED
    BY <2>1, OrderSize, Shapes DEF Pos
<1>3. a \in Nat
  BY <1>1, <1>2 DEF Pos
<1>4. c \in 0 .. cfg.batch - 1
  <2> DEFINE z == n0 * n1 * w
  <2>1. z \in Pos /\ a \in 0 .. cfg.batch * z - 1
    BY <1>1, <1>2
  <2> HIDE DEF z
  <2>2. a \div z \in 0 .. cfg.batch - 1
    BY <1>2, <2>1, QuotientBound
  <2> QED
    BY <2>2 DEF z
<1>5. x0 \in 0 .. n0 - 1 /\ x1 \in 0 .. n1 - 1 /\ x2 \in 0 .. w - 1 /\ h \in Nat /\ g \in Nat
  <2> HIDE DEF e, w
  <2>1. h \in Nat /\ g \in Nat /\ x2 \in 0 .. w - 1
    BY <1>1, <1>3, Division
  <2> HIDE DEF h, g
  <2> QED
    BY <1>1, <2>1, Division
<1>6. i \in Index(f)
  BY <1>5 DEF Index
<1>7. a = Place3(n0, n1, w, c, x0, x1, x2)
  <2> HIDE DEF w
  <2>1. a = h * w + x2
    BY <1>1, <1>3, Division
  <2>2. h = g * n1 + x1
    <3>1. h = (h \div n1) * n1 + x1
      <4> HIDE DEF h
      <4> QED
        BY <1>1, <1>5, Division
    <3>2. h \div n1 = g
      BY <1>1, <1>3 DEF Pos
    <3> QED
      BY <3>1, <3>2
  <2>3. g = c * n0 + x0
    <3>1. g = (g \div n0) * n0 + x0
      <4> HIDE DEF g
      <4> QED
        BY <1>1, <1>5, Division
    <3>2. g \div n0 = c
      BY <1>1, <1>3 DEF Pos
    <3> QED
      BY <3>1, <3>2
  <2> HIDE DEF h, g, x0, x1, x2, c
  <2> QED
    BY <2>1, <2>2, <2>3 DEF Place3
<1>8. a = AddrOf(<<0, 1, 2>>, f, c, i)
  BY <1>7, Extents DEF AddrOf
<1> QED
  BY <1>4, <1>6, <1>8 DEF Batch

\* What a buffer holds of an element.
Cell(c, i, done, f, p) == [item |-> c, at |-> i, done |-> done, form |-> f, part |-> p]
Parts(f) == 0 .. Words(f) - 1
WordOf(o, f, c, i, p) == Words(f) * AddrOf(o, f, c, i) + p

LEMMA WordDigits ==
  ASSUME Configured, NEW o \in Orders, NEW f, NEW c \in Batch, NEW i \in Index(f),
         NEW p \in Parts(f)
  PROVE  /\ WordOf(o, f, c, i, p) \in 0 .. Words(f) * Elements(f) - 1
         /\ WordOf(o, f, c, i, p) \div Words(f) = AddrOf(o, f, c, i)
         /\ WordOf(o, f, c, i, p) % Words(f) = p
<1> DEFINE a == AddrOf(o, f, c, i)  e == Elements(f)  w == Words(f)
<1>1. a \in 0 .. e - 1
  BY AddressDigits
<1>2. e \in Nat /\ w \in {1, 2} /\ p \in 0 .. w - 1
  BY FormSizes DEF Pos, Parts
<1> HIDE DEF a, e, w
<1>3. /\ w * a + p \in 0 .. w * e - 1
      /\ (w * a + p) \div w = a /\ (w * a + p) % w = p
  BY <1>1, <1>2
<1> QED
  BY <1>3 DEF WordOf, a, e, w

LEMMA WordApart ==
  ASSUME Configured, NEW o \in Orders, NEW f, NEW c \in Batch, NEW i \in Index(f),
         NEW d \in Batch, NEW j \in Index(f), NEW p \in Parts(f), NEW q \in Parts(f),
         WordOf(o, f, c, i, p) = WordOf(o, f, d, j, q)
  PROVE  c = d /\ i = j /\ p = q
<1>1. AddrOf(o, f, c, i) = AddrOf(o, f, d, j) /\ p = q
  BY WordDigits
<1> QED
  BY <1>1, AddressApart

LEMMA NaturalCell ==
  ASSUME Configured, NEW f, NEW c \in Batch, NEW i \in Index(f), NEW p \in Parts(f), NEW done
  PROVE  Natural(WordOf(<<0, 1, 2>>, f, c, i, p), f, done) = Cell(c, i, done, f, p)
<1> DEFINE o == <<0, 1, 2>>  w == WordOf(o, f, c, i, p)  e == w \div Words(f)
<1>1. o \in Orders
  BY DEF Orders
<1>2. e = AddrOf(o, f, c, i) /\ w % Words(f) = p
  BY <1>1, WordDigits
<1>3. /\ e \div (n0 * n1 * Width(f)) = c
      /\ (e \div (n1 * Width(f))) % n0 = i[1]
      /\ (e \div Width(f)) % n1 = i[2] /\ e % Width(f) = i[3]
  BY <1>1, <1>2, AddressDigits, Extents
<1>4. i = <<i[1], i[2], i[3]>>
  BY Coordinates
<1> QED
  BY <1>2, <1>3, <1>4 DEF Natural, Cell

LEMMA NaturalExists ==
  ASSUME Configured, NEW f, NEW w \in 0 .. Words(f) * Elements(f) - 1
  PROVE  \E c \in Batch, i \in Index(f), p \in Parts(f) : w = WordOf(<<0, 1, 2>>, f, c, i, p)
<1> DEFINE n == Words(f)  e == Elements(f)  a == w \div n  p == w % n
<1>1. n \in {1, 2} /\ e \in Nat
  BY FormSizes DEF Pos
<1> HIDE DEF n, e
<1>2. a \in 0 .. e - 1 /\ p \in 0 .. n - 1 /\ w = n * a + p
  BY <1>1 DEF n, e
<1>3. PICK c \in Batch, i \in Index(f) : a = AddrOf(<<0, 1, 2>>, f, c, i)
  BY <1>2, AddressExists DEF e
<1> QED
  BY <1>2, <1>3 DEF WordOf, Parts, n

-----------------------------------------------------------------------------
(* Layouts: which array a buffer holds, with which axes transformed.        *)

Layout(b, o, f, D) == [buf |-> b, order |-> o, form |-> f, done |-> D]

\* Buffer contents m have element i of item c in its place.
Has(m, L, c, i) ==
  \A p \in Parts(L.form) :
    m[WordOf(L.order, L.form, c, i, p)] = Cell(c, i, L.done, L.form, p)
Holds(m, L) == \A c \in Batch, i \in Index(L.form) : Has(m, L, c, i)

LEMMA HoldsNatural ==
  ASSUME Configured, NEW m, NEW L, L.order = <<0, 1, 2>>
  PROVE  Holds(m, L) <=> \A w \in 0 .. Words(L.form) * Elements(L.form) - 1 :
                           m[w] = Natural(w, L.form, L.done)
<1>1. <<0, 1, 2>> \in Orders
  BY DEF Orders
<1>2. ASSUME Holds(m, L), NEW w \in 0 .. Words(L.form) * Elements(L.form) - 1
      PROVE  m[w] = Natural(w, L.form, L.done)
  BY <1>2, NaturalExists, NaturalCell DEF Holds, Has
<1>3. ASSUME \A w \in 0 .. Words(L.form) * Elements(L.form) - 1 :
               m[w] = Natural(w, L.form, L.done)
      PROVE  Holds(m, L)
  BY <1>1, <1>3, WordDigits, NaturalCell DEF Holds, Has
<1> QED
  BY <1>2, <1>3

\* Coordinate of an element along one axis, and an element moved along it.
Along(i, x) == i[x + 1]

LEMMA MovedAlong ==
  ASSUME Configured, NEW a \in Axes, NEW f, NEW g, a # 2 => Width(f) = Width(g),
         NEW i \in Index(f), NEW k \in 0 .. Extent(a, g) - 1
  PROVE  /\ Moved(i, <<a>>, g, k) \in Index(g)
         /\ Along(Moved(i, <<a>>, g, k), a) = k
         /\ \A x \in Axes : x # a => Along(Moved(i, <<a>>, g, k), x) = Along(i, x)
<1>1. i = <<i[1], i[2], i[3]>>
  BY Coordinates
<1> DEFINE x0 == i[1]  x1 == i[2]  x2 == i[3]  m == Moved(i, <<a>>, g, k)
<1>2. i = <<x0, x1, x2>>
  BY <1>1
<1>3. x0 \in 0 .. n0 - 1 /\ x1 \in 0 .. n1 - 1 /\ x2 \in 0 .. Width(f) - 1
  BY Coordinates
<1>4. m = [i EXCEPT ![a + 1] = k]
  <2>1. Len(<<a>>) = 1 /\ << a >>[1] = a
    OBVIOUS
  <2> QED
    BY <2>1 DEF Moved
<1> HIDE DEF x0, x1, x2, m
<1>5. CASE a = 0
  <2>1. m = <<k, x1, x2>>
    BY <1>2, <1>4, <1>5
  <2>2. k \in 0 .. n0 - 1 /\ Width(f) = Width(g)
    BY <1>5, Extents
  <2> QED
    BY <1>2, <1>3, <1>5, <2>1, <2>2 DEF Index, Axes, Along, m
<1>6. CASE a = 1
  <2>1. m = <<x0, k, x2>>
    BY <1>2, <1>4, <1>6
  <2>2. k \in 0 .. n1 - 1 /\ Width(f) = Width(g)
    BY <1>6, Extents
  <2> QED
    BY <1>2, <1>3, <1>6, <2>1, <2>2 DEF Index, Axes, Along, m
<1>7. CASE a = 2
  <2>1. m = <<x0, x1, k>>
    BY <1>2, <1>4, <1>7
  <2>2. k \in 0 .. Width(g) - 1
    BY <1>7, Extents
  <2> QED
    BY <1>2, <1>3, <1>7, <2>1, <2>2 DEF Index, Axes, Along, m
<1> QED
  BY <1>5, <1>6, <1>7 DEF Axes

-----------------------------------------------------------------------------
(* Launches along lines.                                                   *)

\* The round of a step's loop in which it works on element i of item c, and
\* whether that is in the launch at hand.
Turn(s, c, i) == CASE s.loop = "rows" -> (c * n0 + i[1]) * n1 + i[2]
                   [] s.loop \in {"batch", "item"} -> c
                   [] OTHER -> 0
Due(s, c, i) == offset <= Turn(s, c, i) /\ Turn(s, c, i) < offset + Stride(s)

Places(s, f) == 0 .. Length(s, f) - 1

\* Row r of the launch is the line through element i of item c.
LineAt(s, L, M, r, c, i) ==
  /\ \A k \in Places(s, L.form) :
       LET j == Moved(i, s.axes, L.form, k)
       IN  /\ j \in Index(L.form) /\ Due(s, c, j)
           /\ LoadWord(s, r, k) = WordOf(L.order, L.form, c, j, 0)
  /\ \A k \in Places(s, M.form) :
       LET j == Moved(i, s.axes, M.form, k)
       IN  /\ j \in Index(M.form) /\ Due(s, c, j)
           /\ StoreWord(s, r, k) = WordOf(M.order, M.form, c, j, 0)

\* The launch reads whole lines of an array laid out as L and stores them as
\* M says: every element that is due is on a row, and no two stores meet.
Rowed(s, L, M) ==
  /\ Length(s, L.form) \in Pos
  /\ \A r \in Launched(s) : \E c \in Batch, i \in Index(L.form) : LineAt(s, L, M, r, c, i)
  /\ \A c \in Batch, j \in Index(M.form) : Due(s, c, j) =>
       \E r \in Launched(s), i \in Index(L.form), k \in Places(s, M.form) :
         LineAt(s, L, M, r, c, i) /\ Moved(i, s.axes, M.form, k) = j
  /\ \A r, q \in Launched(s), j, k \in Places(s, M.form) :
       StoreWord(s, r, j) = StoreWord(s, q, k) => r = q /\ j = k
  /\ \E z \in Nat : StoreBase(s) = Words(M.form) * z

Marks(s) == IF s.done THEN Nontrivial(Over(s)) ELSE {}

\* What the kernel asks of the cells it loads, and makes of them.
Transforms(s, L, M) ==
  /\ s.from = L.form /\ s.to = M.form
  /\ s.done => L.done \cap Over(s) = {}
  /\ s.from = "half" /\ s.to # "half" => Nontrivial({0, 1} \ Over(s)) \subseteq L.done
  /\ InPlaceSafe(s)
  /\ M.done = L.done \cup Marks(s)

LEMMA MovedTwice ==
  ASSUME NEW i, DOMAIN i = 1 .. 3, NEW axes \in AxisLists, NEW f, NEW g, NEW j, NEW k
  PROVE  Moved(Moved(i, axes, f, j), axes, g, k) = Moved(i, axes, g, k)
<1>1. \A z : [[i EXCEPT ![z] = j] EXCEPT ![z] = k] = [i EXCEPT ![z] = k]
  OBVIOUS
<1>2. CASE axes \in {<< 0 >>, << 1 >>, << 2 >>}
  <2> DEFINE z == axes[1] + 1
  <2>1. Len(axes) = 1
    BY <1>2
  <2>2. \A x, h, y : Moved(x, axes, h, y) = [x EXCEPT ![z] = y]
    BY <2>1 DEF Moved
  <2> HIDE DEF z
  <2> QED
    BY <1>1, <2>2
<1>3. CASE axes = <<1, 2>>
  BY <1>3 DEF Moved
<1>4. CASE axes = <<0, 1, 2>>
  BY <1>4 DEF Moved
<1> QED
  BY <1>2, <1>3, <1>4 DEF AxisLists

LEMMA WordParts ==
  ASSUME Configured, NEW o \in Orders, NEW f, NEW c \in Batch, NEW i \in Index(f)
  PROVE  /\ 0 \in Parts(f)
         /\ \A p \in Parts(f) : WordOf(o, f, c, i, 0) + p = WordOf(o, f, c, i, p)
         /\ Words(f) \in {1, 2}
<1>1. Words(f) \in {1, 2} /\ AddrOf(o, f, c, i) \in Nat
  BY FormSizes, AddressDigits DEF Pos
<1> QED
  BY <1>1 DEF Parts, WordOf

\* The buffers of a launch take the arrays the layouts name.
Fitting(s, L, M) ==
  /\ L.order \in Orders /\ M.order \in Orders
  /\ RoomFor(s.src, L.form) /\ RoomFor(s.dst, M.form)
  /\ DOMAIN mem[s.src] = 0 .. Size(s.src) - 1
  /\ DOMAIN mem[s.dst] = 0 .. Size(s.dst) - 1

LEMMA WordInside ==
  ASSUME Configured, NEW b, NEW o \in Orders, NEW f, RoomFor(b, f),
         NEW c \in Batch, NEW i \in Index(f), NEW p \in Parts(f)
  PROVE  WordOf(o, f, c, i, p) \in 0 .. Size(b) - 1
<1>1. WordOf(o, f, c, i, p) \in 0 .. Words(f) * Elements(f) - 1
  BY WordDigits
<1>2. Words(f) \in {1, 2} /\ Elements(f) \in Nat /\ Size(b) \in Nat
  BY FormSizes, SizesTyped DEF Pos, RoomFor
<1>3. Words(f) * Elements(f) \in Nat /\ Words(f) * Elements(f) <= Size(b)
  BY <1>2 DEF RoomFor
<1> QED
  BY <1>1, <1>2, <1>3

\* A cell moved to other coordinates, and as a kernel stores it.
MovedCell(r, axes, g, k, q) == [r EXCEPT !.at = Moved(@, axes, g, k), !.part = q]
StoredCell(r, axes, g, k, E, h, q) ==
  [r EXCEPT !.at = Moved(@, axes, g, k), !.done = @ \cup E, !.form = h, !.part = q]

LEMMA CellMoved ==
  ASSUME NEW c, NEW i, NEW D, NEW f, NEW p, NEW axes, NEW g, NEW k, NEW q
  PROVE  MovedCell(Cell(c, i, D, f, p), axes, g, k, q) = Cell(c, Moved(i, axes, g, k), D, f, q)
<1> DEFINE r == Cell(c, i, D, f, p)  x == Moved(i, axes, g, k)
           r1 == [r EXCEPT !.at = Moved(r.at, axes, g, k)]
<1>1. MovedCell(r, axes, g, k, q) = [r1 EXCEPT !.part = q]
  BY DEF MovedCell
<1>2. r1 = Cell(c, x, D, f, p)
  <2>1. r.at = i
    BY DEF Cell
  <2> QED
    BY <2>1 DEF Cell
<1> HIDE DEF r1, x
<1>3. [r1 EXCEPT !.part = q] = Cell(c, x, D, f, q)
  BY <1>2 DEF Cell
<1> HIDE DEF r
<1>4. MovedCell(r, axes, g, k, q) = Cell(c, x, D, f, q)
  BY <1>1, <1>3
<1> QED
  BY <1>4 DEF x, r

LEMMA CellStored ==
  ASSUME NEW c, NEW i, NEW D, NEW f, NEW p, NEW axes, NEW g, NEW k, NEW E, NEW h, NEW q
  PROVE  StoredCell(Cell(c, i, D, f, p), axes, g, k, E, h, q)
           = Cell(c, Moved(i, axes, g, k), D \cup E, h, q)
<1> DEFINE r == Cell(c, i, D, f, p)  x == Moved(i, axes, g, k)  F == D \cup E
           r1 == [r EXCEPT !.at = Moved(r.at, axes, g, k)]
           r2 == [r1 EXCEPT !.done = r.done \cup E]
           r3 == [r2 EXCEPT !.form = h]
<1>1. StoredCell(r, axes, g, k, E, h, q) = [r3 EXCEPT !.part = q]
  BY DEF StoredCell
<1>2. r1 = Cell(c, x, D, f, p)
  <2>1. r.at = i
    BY DEF Cell
  <2> QED
    BY <2>1 DEF Cell
<1> HIDE DEF r1, x
<1>3. r2 = Cell(c, x, F, f, p)
  <2>1. r.done = D
    BY DEF Cell
  <2> QED
    BY <1>2, <2>1 DEF Cell
<1> HIDE DEF r2, F
<1>4. r3 = Cell(c, x, F, h, p)
  BY <1>3 DEF Cell
<1> HIDE DEF r3
<1>5. [r3 EXCEPT !.part = q] = Cell(c, x, F, h, q)
  BY <1>4 DEF Cell
<1> HIDE DEF r
<1>6. StoredCell(r, axes, g, k, E, h, q) = Cell(c, x, F, h, q)
  BY <1>1, <1>5
<1> QED
  BY <1>6 DEF x, F, r

\* A kernel finds the line it is meant for.
LEMMA LineFound ==
  ASSUME Configured, NEW s, NEW L, NEW M, Fitting(s, L, M), s.axes \in AxisLists,
         Transforms(s, L, M), Length(s, L.form) \in Pos,
         NEW r, NEW c \in Batch, NEW i \in Index(L.form), LineAt(s, L, M, r, c, i),
         \A j \in Index(L.form) : Due(s, c, j) => Has(mem[s.src], L, c, j)
  PROVE  Found(s, r) = Cell(c, Moved(i, s.axes, L.form, 0), L.done, L.form, 0)
<1> DEFINE f == L.form  At(k) == Moved(i, s.axes, f, k)
           first == Load(s.src, LoadWord(s, r, 0))
<1>1. s.from = f
  BY DEF Transforms
<1>2. \A k \in Places(s, f) :
        /\ At(k) \in Index(f) /\ Due(s, c, At(k))
        /\ LoadWord(s, r, k) = WordOf(L.order, f, c, At(k), 0)
  BY DEF LineAt
<1>3. \A k \in Places(s, f), p \in Parts(f) :
        Load(s.src, LoadWord(s, r, k) + p) = Cell(c, At(k), L.done, f, p)
  <2> SUFFICES ASSUME NEW k \in Places(s, f), NEW p \in Parts(f)
               PROVE  Load(s.src, LoadWord(s, r, k) + p) = Cell(c, At(k), L.done, f, p)
    OBVIOUS
  <2> DEFINE w == WordOf(L.order, f, c, At(k), p)
  <2>1. At(k) \in Index(f) /\ L.order \in Orders
    BY <1>2 DEF Fitting
  <2>2. LoadWord(s, r, k) + p = w
    BY <1>2, <2>1, WordParts
  <2>3. w \in DOMAIN mem[s.src]
    BY <2>1, WordInside DEF Fitting
  <2>4. mem[s.src][w] = Cell(c, At(k), L.done, f, p)
    BY <1>2 DEF Has
  <2> QED
    BY <2>2, <2>3, <2>4 DEF Load
<1>4. 0 \in Places(s, f) /\ 0 \in Parts(f)
  BY FormSizes DEF Places, Parts, Pos
<1>5. first = Cell(c, At(0), L.done, f, 0)
  <2>1. LoadWord(s, r, 0) + 0 = LoadWord(s, r, 0)
    <3>1. LoadWord(s, r, 0) = WordOf(L.order, f, c, At(0), 0) /\ At(0) \in Index(f)
      BY <1>2, <1>4
    <3>2. WordOf(L.order, f, c, At(0), 0) \in Nat
      BY <1>4, <3>1, WordInside, SizesTyped DEF Fitting, RoomFor
    <3> QED
      BY <3>1, <3>2
  <2> QED
    BY <1>3, <1>4, <2>1
<1> HIDE DEF first
<1>6. \A k, p : MovedCell(first, s.axes, f, k, p) = Cell(c, At(k), L.done, f, p)
  <2> TAKE k, p
  <2>1. Moved(At(0), s.axes, f, k) = At(k)
    <3>1. DOMAIN i = 1 .. 3
      BY DEF Index
    <3> QED
      BY <3>1, MovedTwice
  <2>2. MovedCell(first, s.axes, f, k, p)
          = Cell(c, Moved(At(0), s.axes, f, k), L.done, f, p)
    BY <1>5, CellMoved
  <2> QED
    BY <2>1, <2>2
<1>7. ASSUME NEW k \in 0 .. Length(s, s.from) - 1, NEW p \in 0 .. Words(s.from) - 1
      PROVE  Load(s.src, LoadWord(s, r, k) + p)
               = [first EXCEPT !.at = Moved(@, s.axes, s.from, k), !.part = p]
  <2>1. Load(s.src, LoadWord(s, r, k) + p) = Cell(c, At(k), L.done, f, p)
    BY <1>1, <1>3 DEF Places, Parts
  <2>2. MovedCell(first, s.axes, s.from, k, p) = Cell(c, At(k), L.done, f, p)
    BY <1>1, <1>6
  <2>3. Load(s.src, LoadWord(s, r, k) + p) = MovedCell(first, s.axes, s.from, k, p)
    BY <2>1, <2>2
  <2> QED
    BY <2>3 DEF MovedCell
<1>8. /\ first.form = s.from
      /\ first.done \cap Over(s) = {} \/ ~s.done
      /\ (IF s.from = "half" /\ s.to # "half"
          THEN Nontrivial({0, 1} \ Over(s)) ELSE {}) \subseteq first.done
      /\ InPlaceSafe(s)
  <2>1. first.form = f /\ first.done = L.done
    BY <1>5 DEF Cell
  <2> HIDE DEF first
  <2> QED
    BY <1>1, <2>1 DEF Transforms
<1>9. Found(s, r) = first
  BY <1>7, <1>8 DEF Found, first
<1> QED
  BY <1>5, <1>9

\* Which part of an element a word is, counted from the start of a launch.
LEMMA PartOf ==
  ASSUME NEW n \in {1, 2}, NEW a \in Nat, NEW y \in Nat, NEW q \in 0 .. n - 1
  PROVE  (n * a + q - n * y) % n = q /\ (n * a + q) - q = n * a + 0
<1>1. CASE n = 1
  BY <1>1
<1>2. CASE n = 2
  <2>1. q \in {0, 1} /\ a - y \in Int
    BY <1>2
  <2>2. 2 * a + q - 2 * y = 2 * (a - y) + q
    BY <2>1
  <2>3. (2 * (a - y) + q) % 2 = q
    BY <2>1
  <2> QED
    BY <1>2, <2>1, <2>2, <2>3
<1> QED
  BY <1>1, <1>2

\* Which word of which element a store goes to.
LEMMA StoredPart ==
  ASSUME Configured, NEW s, NEW L, NEW M, Rowed(s, L, M), M.order \in Orders, s.to = M.form,
         NEW c \in Batch, NEW j \in Index(M.form), NEW q \in Parts(M.form)
  PROVE  /\ (WordOf(M.order, M.form, c, j, q) - StoreBase(s)) % Words(s.to) = q
         /\ WordOf(M.order, M.form, c, j, q) - q = WordOf(M.order, M.form, c, j, 0)
<1> DEFINE a == AddrOf(M.order, M.form, c, j)  n == Words(M.form)
<1>1. PICK z \in Nat : StoreBase(s) = n * z
  BY DEF Rowed
<1>2. a \in Nat /\ n \in {1, 2} /\ q \in 0 .. n - 1
  <2>1. a \in 0 .. Elements(M.form) - 1
    BY AddressDigits
  <2> QED
    BY <2>1, FormSizes DEF Parts
<1> HIDE DEF a, n
<1>3. (n * a + q - n * z) % n = q /\ (n * a + q) - q = n * a + 0
  BY <1>1, <1>2, PartOf
<1>4. /\ WordOf(M.order, M.form, c, j, q) = n * a + q
      /\ WordOf(M.order, M.form, c, j, 0) = n * a + 0
      /\ Words(s.to) = n
  BY DEF WordOf, a, n
<1> QED
  BY <1>1, <1>2, <1>3, <1>4

\* A word is stored by the row it belongs to, and by no other.
LEMMA LineStored ==
  ASSUME Configured, NEW s, NEW L, NEW M, Fitting(s, L, M), s.axes \in AxisLists,
         Transforms(s, L, M), Rowed(s, L, M),
         NEW r \in Launched(s), NEW c \in Batch, NEW i \in Index(L.form), LineAt(s, L, M, r, c, i),
         \A j \in Index(L.form) : Due(s, c, j) => Has(mem[s.src], L, c, j),
         NEW k \in Places(s, M.form), NEW q \in Parts(M.form)
  PROVE  LET j == Moved(i, s.axes, M.form, k)
         IN  LinesStored(s)[WordOf(M.order, M.form, c, j, q)] = Cell(c, j, M.done, M.form, q)
<1> DEFINE j == Moved(i, s.axes, M.form, k)
           w == WordOf(M.order, M.form, c, j, q)
           found == [x \in Launched(s) |-> Found(s, x)]
           len == Length(s, s.to)
           place == [p \in Launched(s) \X (0 .. len - 1) |-> StoreWord(s, p[1], p[2])]
           marks == Marks(s)
           part == (w - StoreBase(s)) % Words(s.to)
           here == {p \in DOMAIN place : place[p] = w - part}
           t == CHOOSE p \in here : TRUE
<1>1. s.to = M.form /\ M.done = L.done \cup marks
  BY DEF Transforms
<1>2. j \in Index(M.form) /\ StoreWord(s, r, k) = WordOf(M.order, M.form, c, j, 0)
  BY DEF LineAt
<1>3. part = q /\ w - part = StoreWord(s, r, k)
  <2>1. M.order \in Orders /\ s.to = M.form
    BY <1>1 DEF Fitting
  <2> HIDE DEF j
  <2>2. part = q /\ w - q = WordOf(M.order, M.form, c, j, 0)
    BY <1>2, <2>1, StoredPart
  <2> HIDE DEF w, part
  <2> QED
    BY <1>2, <2>2
<1>4. w \in DOMAIN mem[s.dst]
  <2> HIDE DEF j
  <2> QED
    BY <1>2, WordInside DEF Fitting
<1>5. here = {<<r, k>>}
  <2>1. <<r, k>> \in DOMAIN place /\ place[<<r, k>>] = StoreWord(s, r, k)
    BY <1>1 DEF Places
  <2>2. ASSUME NEW p \in DOMAIN place, place[p] = StoreWord(s, r, k)
        PROVE  p = <<r, k>>
    <3>1. /\ p[1] \in Launched(s) /\ p[2] \in Places(s, M.form) /\ p = <<p[1], p[2]>>
          /\ StoreWord(s, p[1], p[2]) = StoreWord(s, r, k)
      BY <1>1, <2>2 DEF Places
    <3>2. p[1] = r /\ p[2] = k
      BY <3>1 DEF Rowed
    <3> QED
      BY <3>1, <3>2
  <2> HIDE DEF place, w, part
  <2> QED
    BY <1>3, <2>1, <2>2
<1>6. Cardinality(here) = 1 /\ here # {} /\ t[1] = r /\ t[2] = k
  <2>1. t \in here
    BY <1>5
  <2> HIDE DEF here, t
  <2>2. t = <<r, k>>
    BY <1>5, <2>1
  <2> QED
    BY <1>5, <2>2, FS_Singleton
<1>7. found[r] = Cell(c, Moved(i, s.axes, L.form, 0), L.done, L.form, 0)
  <2>1. Length(s, L.form) \in Pos
    BY DEF Rowed
  <2> QED
    BY <2>1, LineFound
<1>8. found[r] # Junk
  <2>1. found[r].item = c /\ Junk.item = -1 /\ c >= 0
    BY <1>7, Shapes DEF Cell, Junk, Batch, Pos
  <2> QED
    BY <2>1
<1>9. StoredCell(found[r], s.axes, s.to, k, marks, s.to, part) = Cell(c, j, M.done, M.form, q)
  <2>1. DOMAIN i = 1 .. 3
    BY DEF Index
  <2>2. Moved(Moved(i, s.axes, L.form, 0), s.axes, M.form, k) = j
    BY <2>1, MovedTwice
  <2> HIDE DEF found, marks, part, j
  <2> QED
    BY <1>1, <1>3, <1>7, <2>2, CellStored
<1>10. LinesStored(s)[w] = StoredCell(found[t[1]], s.axes, s.to, t[2], marks, s.to, part)
  <2>1. LinesStored(s)[w]
          = IF here = {} THEN mem[s.dst][w]
            ELSE IF Cardinality(here) > 1 \/ found[t[1]] = Junk THEN Junk
            ELSE [found[t[1]] EXCEPT !.at = Moved(@, s.axes, s.to, t[2]),
                    !.done = @ \cup marks, !.form = s.to, !.part = part]
    BY <1>4 DEF LinesStored, Marks
  <2> HIDE DEF here, found, t, marks, part, w
  <2>2. found[t[1]] # Junk
    BY <1>6, <1>8
  <2>3. ~(here = {}) /\ ~(Cardinality(here) > 1 \/ found[t[1]] = Junk)
    BY <1>6, <2>2
  <2> QED
    BY <2>1, <2>3, SMTT(40) DEF StoredCell
<1> HIDE DEF found, marks, part, w, t
<1> QED
  BY <1>6, <1>9, <1>10 DEF w

\* A word of no element that is due is left as it was.
LEMMA LineUntouched ==
  ASSUME Configured, NEW s, NEW L, NEW M, Transforms(s, L, M), Rowed(s, L, M),
         NEW w \in DOMAIN mem[s.dst],
         \A c \in Batch, j \in Index(M.form) : Due(s, c, j) =>
           WordOf(M.order, M.form, c, j, 0) # w - ((w - StoreBase(s)) % Words(s.to))
  PROVE  LinesStored(s)[w] = mem[s.dst][w]
<1> DEFINE found == [x \in Launched(s) |-> Found(s, x)]
           len == Length(s, s.to)
           place == [p \in Launched(s) \X (0 .. len - 1) |-> StoreWord(s, p[1], p[2])]
           marks == Marks(s)
           part == (w - StoreBase(s)) % Words(s.to)
           here == {p \in DOMAIN place : place[p] = w - part}
           t == CHOOSE p \in here : TRUE
<1>1. here = {}
  <2> SUFFICES ASSUME NEW p \in DOMAIN place, place[p] = w - part
               PROVE  FALSE
    OBVIOUS
  <2>1. /\ p[1] \in Launched(s) /\ p[2] \in Places(s, M.form)
        /\ place[p] = StoreWord(s, p[1], p[2])
    BY DEF Places, Transforms
  <2>2. PICK c \in Batch, i \in Index(L.form) : LineAt(s, L, M, p[1], c, i)
    BY <2>1 DEF Rowed
  <2> DEFINE j == Moved(i, s.axes, M.form, p[2])
  <2>3. /\ j \in Index(M.form) /\ Due(s, c, j)
        /\ StoreWord(s, p[1], p[2]) = WordOf(M.order, M.form, c, j, 0)
    BY <2>1, <2>2 DEF LineAt
  <2>4. StoreWord(s, p[1], p[2]) = w - part
    BY <2>1, SMTT(40)
  <2> HIDE DEF j, place
  <2> QED
    BY <2>3, <2>4
<1>2. LinesStored(s)[w]
        = IF here = {} THEN mem[s.dst][w]
          ELSE IF Cardinality(here) > 1 \/ found[t[1]] = Junk THEN Junk
          ELSE [found[t[1]] EXCEPT !.at = Moved(@, s.axes, s.to, t[2]),
                  !.done = @ \cup marks, !.form = s.to, !.part = part]
  BY DEF LinesStored, Marks
<1> HIDE DEF here, found, t, marks, part
<1> QED
  BY <1>1, <1>2

\* A launch brings what is due into the new layout, and leaves the rest.
LEMMA LinesLaunched ==
  ASSUME Configured, NEW s, NEW L, NEW M, Fitting(s, L, M), s.axes \in AxisLists,
         Transforms(s, L, M), Rowed(s, L, M),
         \A c \in Batch, i \in Index(L.form) : Due(s, c, i) => Has(mem[s.src], L, c, i)
  PROVE  /\ \A c \in Batch, j \in Index(M.form) :
              Due(s, c, j) \/ Has(mem[s.dst], M, c, j) => Has(LinesStored(s), M, c, j)
         /\ \A N : \A c \in Batch, i \in Index(M.form) :
              /\ N.order \in Orders /\ N.form = M.form
              /\ \A j \in Index(M.form) : ~Due(s, c, j)
              /\ Has(mem[s.dst], N, c, i)
              => Has(LinesStored(s), N, c, i)
<1>1. ASSUME NEW c \in Batch, NEW j \in Index(M.form), Due(s, c, j), NEW q \in Parts(M.form)
      PROVE  LinesStored(s)[WordOf(M.order, M.form, c, j, q)] = Cell(c, j, M.done, M.form, q)
  <2>1. PICK r \in Launched(s), i \in Index(L.form), k \in Places(s, M.form) :
          LineAt(s, L, M, r, c, i) /\ Moved(i, s.axes, M.form, k) = j
    BY <1>1 DEF Rowed
  <2> QED
    BY <2>1, LineStored, SMTT(40)
<1>2. ASSUME NEW c \in Batch, NEW j \in Index(M.form), ~Due(s, c, j), NEW q \in Parts(M.form)
      PROVE  LinesStored(s)[WordOf(M.order, M.form, c, j, q)]
               = mem[s.dst][WordOf(M.order, M.form, c, j, q)]
  <2> DEFINE w == WordOf(M.order, M.form, c, j, q)
  <2>1. M.order \in Orders /\ s.to = M.form
    BY DEF Fitting, Transforms
  <2>2. w \in DOMAIN mem[s.dst]
    BY WordInside DEF Fitting
  <2>3. (w - StoreBase(s)) % Words(s.to) = q /\ w - q = WordOf(M.order, M.form, c, j, 0)
    BY <2>1, StoredPart
  <2>4. ASSUME NEW d \in Batch, NEW h \in Index(M.form), Due(s, d, h)
        PROVE  WordOf(M.order, M.form, d, h, 0) # w - ((w - StoreBase(s)) % Words(s.to))
    <3>1. 0 \in Parts(M.form)
      BY FormSizes DEF Parts
    <3>2. c # d \/ j # h
      BY <1>2, <2>4
    <3>3. WordOf(M.order, M.form, d, h, 0) # WordOf(M.order, M.form, c, j, 0)
      BY <2>1, <3>1, <3>2, WordApart
    <3> HIDE DEF w
    <3> QED
      BY <2>3, <3>3
  <2> HIDE DEF w
  <2> QED
    BY <2>2, <2>4, LineUntouched DEF w
<1>3. ASSUME NEW o \in Orders, NEW c \in Batch, NEW i \in Index(M.form), NEW q \in Parts(M.form),
             \A j \in Index(M.form) : ~Due(s, c, j)
      PROVE  LinesStored(s)[WordOf(o, M.form, c, i, q)] = mem[s.dst][WordOf(o, M.form, c, i, q)]
  <2> DEFINE w == WordOf(o, M.form, c, i, q)  n == Words(M.form)
             z == n0 * n1 * Width(M.form)
  <2>1. w \in DOMAIN mem[s.dst] /\ s.to = M.form /\ M.order \in Orders
    BY WordInside DEF Fitting, Transforms
  <2>2. (w - StoreBase(s)) % Words(s.to) = q /\ w - q = WordOf(o, M.form, c, i, 0)
    <3> DEFINE a == AddrOf(o, M.form, c, i)
    <3>1. PICK y \in Nat : StoreBase(s) = n * y
      BY DEF Rowed
    <3>2. a \in Nat /\ n \in {1, 2} /\ q \in 0 .. n - 1
      <4>1. a \in 0 .. Elements(M.form) - 1
        BY AddressDigits
      <4> QED
        BY <4>1, FormSizes DEF Parts
    <3>3. w = n * a + q /\ WordOf(o, M.form, c, i, 0) = n * a + 0 /\ Words(s.to) = n
      BY <2>1 DEF WordOf
    <3> HIDE DEF a, n, w
    <3>4. (n * a + q - n * y) % n = q /\ (n * a + q) - q = n * a + 0
      BY <3>1, <3>2, PartOf
    <3> QED
      BY <3>1, <3>2, <3>3, <3>4
  <2>3. ASSUME NEW d \in Batch, NEW h \in Index(M.form), Due(s, d, h)
        PROVE  WordOf(M.order, M.form, d, h, 0) # w - ((w - StoreBase(s)) % Words(s.to))
    <3>1. 0 \in Parts(M.form)
      BY FormSizes DEF Parts
    <3>2. c # d
      BY <1>3, <2>3
    <3>3. /\ (WordOf(M.order, M.form, d, h, 0) \div n) \div z = d
          /\ (WordOf(o, M.form, c, i, 0) \div n) \div z = c
      <4>1. /\ WordOf(M.order, M.form, d, h, 0) \div n = AddrOf(M.order, M.form, d, h)
            /\ WordOf(o, M.form, c, i, 0) \div n = AddrOf(o, M.form, c, i)
        BY <2>1, <3>1, WordDigits
      <4>2. AddrOf(M.order, M.form, d, h) \div z = d /\ AddrOf(o, M.form, c, i) \div z = c
        BY <2>1, AddressDigits
      <4> QED
        BY <4>1, <4>2
    <3> HIDE DEF w, n, z
    <3> QED
      BY <2>2, <3>2, <3>3
  <2> HIDE DEF w
  <2> QED
    BY <2>1, <2>3, LineUntouched DEF w
<1>4. ASSUME NEW c \in Batch, NEW j \in Index(M.form), Due(s, c, j) \/ Has(mem[s.dst], M, c, j)
      PROVE  Has(LinesStored(s), M, c, j)
  BY <1>1, <1>2, <1>4 DEF Has
<1>5. ASSUME NEW N, NEW c \in Batch, NEW i \in Index(M.form), N.order \in Orders,
             N.form = M.form, \A j \in Index(M.form) : ~Due(s, c, j), Has(mem[s.dst], N, c, i)
      PROVE  Has(LinesStored(s), N, c, i)
  BY <1>3, <1>5 DEF Has
<1> QED
  BY <1>4, <1>5

-----------------------------------------------------------------------------
(* Rows of lines along one axis.                                           *)

\* Number of the row on which element i of item c lies, with the axes u and v
\* counting the rows.
RowNo(f, c, i, u, v) == (c * Extent(u, f) + i[u + 1]) * Extent(v, f) + i[v + 1]

LEMMA RowRange ==
  ASSUME Configured, NEW f, NEW u \in Axes, NEW v \in Axes, NEW c \in Batch, NEW i \in Index(f)
  PROVE  /\ RowNo(f, c, i, u, v) \in 0 .. cfg.batch * Extent(u, f) * Extent(v, f) - 1
         /\ c * (Extent(u, f) * Extent(v, f)) <= RowNo(f, c, i, u, v)
         /\ RowNo(f, c, i, u, v) < (c + 1) * (Extent(u, f) * Extent(v, f))
<1> DEFINE du == Extent(u, f)  dv == Extent(v, f)  xu == i[u + 1]  xv == i[v + 1]
           B == cfg.batch  h == c * du + xu
<1>1. du \in Pos /\ dv \in Pos /\ B \in Pos /\ c \in 0 .. B - 1
  BY Extents, Shapes DEF Batch
<1>2. xu \in 0 .. du - 1 /\ xv \in 0 .. dv - 1
  BY Coordinates
<1> HIDE DEF du, dv, xu, xv, B
<1>3. h \in 0 .. B * du - 1 /\ B * du \in Nat
  BY <1>1, <1>2, DigitBound, Products DEF Pos
<1>4. h * dv + xv \in 0 .. B * du * dv - 1
  <2> HIDE DEF h
  <2> QED
    BY <1>1, <1>2, <1>3, DigitBound
<1>5. h * dv = c * (du * dv) + xu * dv /\ xu * dv \in Nat /\ du * dv \in Nat
  BY <1>1, <1>2 DEF Pos
<1>6. xu * dv + xv \in 0 .. du * dv - 1
  BY <1>1, <1>2, DigitBound DEF Pos
<1>7. (c + 1) * (du * dv) = c * (du * dv) + du * dv /\ c * (du * dv) \in Nat
  BY <1>1, <1>5 DEF Pos
<1>8. RowNo(f, c, i, u, v) = h * dv + xv
  BY DEF RowNo, h, du, dv, xu, xv
<1> HIDE DEF h
<1> QED
  BY <1>1, <1>2, <1>3, <1>4, <1>5, <1>6, <1>7, <1>8 DEF du, dv, B, Pos

LEMMA RowExists ==
  ASSUME Configured, NEW f, NEW u \in Axes, NEW v \in Axes, u # v,
         NEW g \in 0 .. cfg.batch * Extent(u, f) * Extent(v, f) - 1
  PROVE  \E c \in Batch, i \in Index(f) : RowNo(f, c, i, u, v) = g
<1> DEFINE du == Extent(u, f)  dv == Extent(v, f)  B == cfg.batch
           h == g \div dv  xv == g % dv  c == h \div du  xu == h % du
<1>1. du \in Pos /\ dv \in Pos /\ B \in Pos
  BY Extents, Shapes
<1>2. g \in Nat /\ B * du \in Nat
  BY <1>1, Products DEF Pos
<1>3. h \in 0 .. B * du - 1 /\ xv \in 0 .. dv - 1 /\ g = h * dv + xv
  <2> HIDE DEF du, dv, B
  <2>1. g \in 0 .. (B * du) * dv - 1
    BY DEF du, dv, B
  <2> QED
    <3> DEFINE m == B * du
    <3>1. m \in Nat /\ dv \in Pos /\ g \in 0 .. m * dv - 1
      BY <1>1, <1>2, <2>1
    <3> HIDE DEF m
    <3>2. h \in 0 .. m - 1
      BY <3>1, QuotientBound
    <3>3. g \in Nat /\ dv \in Pos
      BY <1>1, <1>2
    <3>4. xv \in 0 .. dv - 1 /\ g = h * dv + xv
      BY <3>3, Division
    <3> QED
      BY <3>2, <3>4 DEF m
<1>4. c \in 0 .. B - 1 /\ xu \in 0 .. du - 1 /\ h = c * du + xu
  <2> HIDE DEF du, dv, B, h
  <2>1. B \in Nat /\ h \in Nat /\ h \in 0 .. B * du - 1
    BY <1>1, <1>2, <1>3 DEF Pos
  <2>2. c \in 0 .. B - 1
    BY <1>1, <2>1, QuotientBound
  <2>3. xu \in 0 .. du - 1 /\ h = c * du + xu
    BY <1>1, <2>1, Division
  <2> QED
    BY <2>2, <2>3
<1> DEFINE i0 == <<0, 0, 0>>
           i1 == Moved(i0, <<u>>, f, xu)
           i2 == Moved(i1, <<v>>, f, xv)
<1>5. i0 \in Index(f)
  BY Extents DEF Index, Pos
<1> HIDE DEF h, xv, c, xu, i0
<1>6. i1 \in Index(f) /\ i1[u + 1] = xu
  BY <1>4, <1>5, MovedAlong DEF Along
<1> HIDE DEF i1
<1>7. i2 \in Index(f) /\ i2[v + 1] = xv /\ i2[u + 1] = xu
  BY <1>3, <1>6, MovedAlong DEF Along
<1> HIDE DEF i2
<1>8. RowNo(f, c, i2, u, v) = g
  BY <1>3, <1>4, <1>7 DEF RowNo
<1> QED
  BY <1>4, <1>7, <1>8 DEF Batch, B

\* Where the rows of a side lie: each layout of a kernel's lines reads or
\* makes the array in one order of its axes.
Lies(layout, span, a, u, v, f, o) ==
  \/ layout = "rows" /\ o = <<u, v, a>>
  \/ layout = "rows" /\ Extent(v, f) = 1 /\ o = <<u, a, v>>
  \/ layout = "padded" /\ o = <<u, v, a>>
     /\ cfg.batch = 1 /\ Extent(u, f) = 1 /\ Extent(v, f) = 1
  \/ layout \in {"strided", "outer"} /\ span = Extent(u, f) * Extent(v, f) /\ o = <<a, u, v>>
  \/ layout \in {"strided", "outer"} /\ span = Extent(v, f) /\ o = <<u, a, v>>
  \/ layout = "inner" /\ span = Extent(v, f) /\ cfg.batch = 1 /\ o = <<a, v, u>>

LEMMA LiesAt ==
  ASSUME Configured, NEW s, NEW f, NEW a \in Axes, NEW u \in Axes, NEW v \in Axes,
         NEW layout, NEW o, Lies(layout, s.span, a, u, v, f, o),
         RowCount(s) = cfg.batch * Extent(u, f) * Extent(v, f),
         NEW c \in Batch, NEW j \in Index(f)
  PROVE  Place(s, layout, Extent(a, f), RowNo(f, c, j, u, v), Along(j, a)) = AddrOf(o, f, c, j)
<1> DEFINE du == Extent(u, f)  dv == Extent(v, f)  len == Extent(a, f)
           xu == j[u + 1]  xv == j[v + 1]  k == j[a + 1]
           r == RowNo(f, c, j, u, v)
           place == Place(s, layout, len, r, k)
<1>1. du \in Pos /\ dv \in Pos /\ len \in Pos
  BY Extents
<1>2. xu \in 0 .. du - 1 /\ xv \in 0 .. dv - 1 /\ k \in 0 .. len - 1
  BY Coordinates
<1>3. c \in Nat /\ (cfg.batch = 1 => c = 0)
  BY Shapes DEF Batch, Pos
<1>4. r = (c * du + xu) * dv + xv
  BY DEF RowNo
<1>5. /\ o = <<u, v, a>> => AddrOf(o, f, c, j) = Place3(du, dv, len, c, xu, xv, k)
      /\ o = <<u, a, v>> => AddrOf(o, f, c, j) = Place3(du, len, dv, c, xu, k, xv)
      /\ o = <<a, u, v>> => AddrOf(o, f, c, j) = Place3(len, du, dv, c, k, xu, xv)
      /\ o = <<a, v, u>> => AddrOf(o, f, c, j) = Place3(len, dv, du, c, k, xv, xu)
  BY DEF AddrOf
<1>6. /\ layout = "rows" => place = r * len + k
      /\ layout = "padded" => place = r * 2 * half + k
      /\ layout \in {"strided", "outer"} => place = Spread(s.span, len, r, k)
      /\ layout = "inner" => place = k * RowCount(s) + (r % s.span) * (RowCount(s) \div s.span)
                                       + r \div s.span
  BY DEF Place, Spread
<1>7. Lies(layout, s.span, a, u, v, f, o)
  OBVIOUS
<1>8. \/ layout = "rows" /\ o = <<u, v, a>>
      \/ layout = "rows" /\ dv = 1 /\ o = <<u, a, v>>
      \/ layout = "padded" /\ o = <<u, v, a>> /\ cfg.batch = 1 /\ du = 1 /\ dv = 1
      \/ layout \in {"strided", "outer"} /\ s.span = du * dv /\ o = <<a, u, v>>
      \/ layout \in {"strided", "outer"} /\ s.span = dv /\ o = <<u, a, v>>
      \/ layout = "inner" /\ s.span = dv /\ cfg.batch = 1 /\ o = <<a, v, u>>
  BY <1>7 DEF Lies
<1>9. RowCount(s) = cfg.batch * du * dv
  OBVIOUS
<1> HIDE DEF du, dv, len, xu, xv, k, r, place
<1>10. /\ r \in Nat
       /\ r * len + k = Place3(du, dv, len, c, xu, xv, k)
       /\ Spread(du * dv, len, r, k) = Place3(len, du, dv, c, k, xu, xv)
       /\ Spread(dv, len, r, k) = Place3(du, len, dv, c, xu, k, xv)
       /\ r \div dv = c * du + xu /\ r % dv = xv
  BY <1>1, <1>2, <1>3, <1>4, SpreadPlace
<1>11. place = AddrOf(o, f, c, j)
  <2>1. CASE layout = "rows" /\ o = <<u, v, a>>
    BY <1>5, <1>6, <1>10, <2>1
  <2>2. CASE layout = "rows" /\ dv = 1 /\ o = <<u, a, v>>
    <3>1. Place3(du, len, dv, c, xu, k, xv) = Place3(du, dv, len, c, xu, xv, k)
      BY <1>1, <1>2, <1>3, <2>2 DEF Place3, Pos
    <3> QED
      BY <1>5, <1>6, <1>10, <2>2, <3>1
  <2>3. CASE layout = "padded" /\ o = <<u, v, a>> /\ cfg.batch = 1 /\ du = 1 /\ dv = 1
    <3>1. r = 0
      BY <1>2, <1>3, <1>4, <2>3
    <3>2. 0 * 2 * half + k = k /\ 0 * len + k = k
      BY <1>1, <1>2, Shapes DEF Pos
    <3> QED
      BY <1>5, <1>6, <1>10, <2>3, <3>1, <3>2
  <2>4. CASE layout \in {"strided", "outer"} /\ s.span = du * dv /\ o = <<a, u, v>>
    BY <1>5, <1>6, <1>10, <2>4
  <2>5. CASE layout \in {"strided", "outer"} /\ s.span = dv /\ o = <<u, a, v>>
    BY <1>5, <1>6, <1>10, <2>5
  <2>6. CASE layout = "inner" /\ s.span = dv /\ cfg.batch = 1 /\ o = <<a, v, u>>
    <3>1. RowCount(s) = du * dv /\ RowCount(s) \div dv = du
      <4>1. RowCount(s) = du * dv
        BY <1>1, <1>9, <2>6 DEF Pos
      <4> QED
        BY <1>1, <4>1, ExactQuotient DEF Pos
    <3>2. place = k * (du * dv) + xv * du + (c * du + xu)
      BY <1>6, <1>10, <2>6, <3>1
    <3>3. k * (du * dv) + xv * du + (c * du + xu) = Place3(len, dv, du, c, k, xv, xu)
      <4>1. c = 0
        BY <1>3, <2>6
      <4> QED
        BY <1>1, <1>2, <4>1 DEF Place3, Pos
    <3> QED
      BY <1>5, <2>6, <3>2, <3>3
  <2> QED
    BY <1>8, <2>1, <2>2, <2>3, <2>4, <2>5, <2>6
<1> QED
  BY <1>11 DEF place, len, r, k, Along

\* Launches along axis a, whose rows are counted by u and v.
AlongAxis(s, L, M, a, u, v) ==
  /\ s.axes = <<a>> /\ a \in Axes /\ u \in Axes /\ v \in Axes
  /\ a # u /\ a # v /\ u # v
  /\ s.from = L.form /\ s.to = M.form /\ (a # 2 => Width(L.form) = Width(M.form))
  /\ Lies(s.load, s.span, a, u, v, L.form, L.order)
  /\ Lies(s.store, s.span, a, u, v, M.form, M.order)

\* The launch works on the rows from g on, and these are the ones that are due.
Numbered(s, L, M, a, u, v, g) ==
  /\ \A r \in Launched(s) :
       /\ r \in Nat /\ g + r \in 0 .. RowCount(s) - 1
       /\ \A k \in Places(s, L.form) :
            LoadWord(s, r, k)
              = Words(L.form) * Place(s, s.load, Extent(a, L.form), g + r, k)
       /\ \A k \in Places(s, M.form) :
            StoreWord(s, r, k)
              = Words(M.form) * Place(s, s.store, Extent(a, M.form), g + r, k)
       /\ \A f \in {L.form, M.form} : \A c \in Batch, i \in Index(f) :
            RowNo(f, c, i, u, v) = g + r => Due(s, c, i)
  /\ \A c \in Batch, i \in Index(M.form) : Due(s, c, i) =>
       \E r \in Launched(s) : RowNo(M.form, c, i, u, v) = g + r
  /\ \E z \in Nat : StoreBase(s) = Words(M.form) * z

LEMMA AxisRows ==
  ASSUME Configured, NEW s, NEW L, NEW M, NEW a, NEW u, NEW v, AlongAxis(s, L, M, a, u, v)
  PROVE  /\ RowCount(s) = cfg.batch * Extent(u, L.form) * Extent(v, L.form)
         /\ Extent(u, M.form) = Extent(u, L.form) /\ Extent(v, M.form) = Extent(v, L.form)
         /\ Length(s, L.form) = Extent(a, L.form) /\ Length(s, M.form) = Extent(a, M.form)
         /\ RowCount(s) \in Pos
<1>1. /\ s.axes = <<a>> /\ a \in Axes /\ u \in Axes /\ v \in Axes
      /\ a # u /\ a # v /\ u # v
      /\ s.from = L.form /\ s.to = M.form /\ (a # 2 => Width(L.form) = Width(M.form))
  BY DEF AlongAxis
<1>2. \A f : \A x \in Axes : Extent(x, f) \in Pos
  BY Extents
<1>3. \A f : Extent(0, f) = n0 /\ Extent(1, f) = n1 /\ Extent(2, f) = Width(f)
  BY Extents
<1>4. Extent(u, M.form) = Extent(u, L.form) /\ Extent(v, M.form) = Extent(v, L.form)
  BY <1>1, <1>3 DEF Axes
<1>5. \A f : Length(s, f) = Extent(a, f)
  BY <1>1 DEF Length
<1>6. /\ a = 0 => RowCount(s) = cfg.batch * n1 * Width(L.form)
      /\ a = 1 => RowCount(s) = cfg.batch * n0 * Width(L.form)
      /\ a = 2 => RowCount(s) = cfg.batch * n0 * n1
  BY <1>1, LineCounts
<1>7. cfg.batch \in Pos /\ n0 \in Pos /\ n1 \in Pos /\ Width(L.form) \in Pos
  BY Shapes, FormSizes
<1> DEFINE B == cfg.batch  w == Width(L.form)
<1> HIDE DEF B, w
<1>8. B * n1 * w = B * w * n1 /\ B * n0 * w = B * w * n0 /\ B * n0 * n1 = B * n1 * n0
  BY <1>7 DEF Pos, B, w
<1>9. RowCount(s) = B * Extent(u, L.form) * Extent(v, L.form)
  BY <1>1, <1>3, <1>6, <1>8 DEF Axes, B, w
<1>10. B * Extent(u, L.form) * Extent(v, L.form) \in Pos
  <2> DEFINE x == Extent(u, L.form)  y == Extent(v, L.form)
  <2>1. x \in Pos /\ y \in Pos /\ B \in Pos
    BY <1>1, <1>2, <1>7 DEF B
  <2> HIDE DEF x, y
  <2>2. B * x \in Pos
    BY <2>1, Products DEF Pos
  <2>3. B * x * y \in Pos
    BY <2>1, <2>2, Products DEF Pos
  <2> QED
    BY <2>3 DEF x, y
<1> QED
  BY <1>4, <1>5, <1>9, <1>10 DEF B

LEMMA OnRows ==
  ASSUME Configured, NEW s, NEW L, NEW M, NEW a, NEW u, NEW v, AlongAxis(s, L, M, a, u, v),
         L.order \in Orders, M.order \in Orders,
         NEW g \in Nat, Numbered(s, L, M, a, u, v, g)
  PROVE  Rowed(s, L, M)
<1> DEFINE from == L.form  to == M.form
<1>1. /\ s.axes = <<a>> /\ a \in Axes /\ u \in Axes /\ v \in Axes
      /\ a # u /\ a # v /\ u # v
      /\ s.from = from /\ s.to = to /\ (a # 2 => Width(from) = Width(to))
      /\ Lies(s.load, s.span, a, u, v, from, L.order)
      /\ Lies(s.store, s.span, a, u, v, to, M.order)
  BY DEF AlongAxis
<1>2. /\ RowCount(s) = cfg.batch * Extent(u, from) * Extent(v, from)
      /\ Extent(u, to) = Extent(u, from) /\ Extent(v, to) = Extent(v, from)
      /\ Length(s, from) = Extent(a, from) /\ Length(s, to) = Extent(a, to)
  BY AxisRows
<1>3. Extent(a, from) \in Pos /\ Extent(a, to) \in Pos
  BY <1>1, Extents
<1>4. ASSUME NEW i \in Index(from) \cup Index(to), NEW e \in {from, to}, NEW k \in Places(s, e)
      PROVE  /\ Moved(i, s.axes, e, k) \in Index(e)
             /\ Moved(i, s.axes, e, k)[a + 1] = k
             /\ \A x \in Axes : x # a => Moved(i, s.axes, e, k)[x + 1] = i[x + 1]
  <2>1. k \in 0 .. Extent(a, e) - 1
    BY <1>2 DEF Places
  <2>2. PICK d \in {from, to} : i \in Index(d)
    OBVIOUS
  <2>3. a # 2 => Width(d) = Width(e)
    BY <1>1
  <2>4. /\ Moved(i, <<a>>, e, k) \in Index(e)
        /\ Along(Moved(i, <<a>>, e, k), a) = k
        /\ \A x \in Axes : x # a => Along(Moved(i, <<a>>, e, k), x) = Along(i, x)
    <3>1. a \in Axes
      BY <1>1
    <3> HIDE DEF from, to
    <3> QED
      BY <2>1, <2>2, <2>3, <3>1, MovedAlong
  <2> QED
    BY <1>1, <2>4 DEF Along
<1>5. ASSUME NEW c \in Batch, NEW i \in Index(from) \cup Index(to), NEW e \in {from, to},
             NEW k \in Places(s, e), NEW d \in {from, to}
      PROVE  RowNo(d, c, Moved(i, s.axes, e, k), u, v) = RowNo(from, c, i, u, v)
  <2>1. /\ Moved(i, s.axes, e, k)[u + 1] = i[u + 1]
        /\ Moved(i, s.axes, e, k)[v + 1] = i[v + 1]
    BY <1>1, <1>4
  <2>2. Extent(u, d) = Extent(u, from) /\ Extent(v, d) = Extent(v, from)
    BY <1>2
  <2> QED
    BY <2>1, <2>2 DEF RowNo
<1>6. ASSUME NEW r \in Launched(s), NEW c \in Batch, NEW i \in Index(from),
             RowNo(from, c, i, u, v) = g + r
      PROVE  LineAt(s, L, M, r, c, i)
  <2>1. ASSUME NEW k \in Places(s, from)
        PROVE  LET j == Moved(i, s.axes, from, k)
               IN  /\ j \in Index(from) /\ Due(s, c, j)
                   /\ LoadWord(s, r, k) = WordOf(L.order, from, c, j, 0)
    <3> DEFINE j == Moved(i, s.axes, from, k)
    <3>1. j \in Index(from) /\ j[a + 1] = k /\ RowNo(from, c, j, u, v) = g + r
      BY <1>4, <1>5, <1>6
    <3> HIDE DEF j
    <3>2. Due(s, c, j)
      BY <3>1 DEF Numbered
    <3>3. LoadWord(s, r, k) = Words(from) * Place(s, s.load, Extent(a, from), g + r, k)
      BY DEF Numbered
    <3>4. RowCount(s) = cfg.batch * Extent(u, from) * Extent(v, from)
      BY <1>2
    <3>5. Place(s, s.load, Extent(a, from), g + r, k) = AddrOf(L.order, from, c, j)
      <4>1. /\ Lies(s.load, s.span, a, u, v, from, L.order)
            /\ a \in Axes /\ u \in Axes /\ v \in Axes
        BY <1>1
      <4>2. Place(s, s.load, Extent(a, from), RowNo(from, c, j, u, v), Along(j, a)) = AddrOf(L.order, from, c, j)
        BY <3>1, <3>4, <4>1, LiesAt
      <4> QED
        BY <3>1, <4>2 DEF Along
    <3>6. LoadWord(s, r, k) = WordOf(L.order, from, c, j, 0)
      BY <3>1, <3>3, <3>5, WordParts, AddressDigits, FormSizes DEF WordOf
    <3> QED
      BY <3>1, <3>2, <3>6 DEF j
  <2>2. ASSUME NEW k \in Places(s, to)
        PROVE  LET j == Moved(i, s.axes, to, k)
               IN  /\ j \in Index(to) /\ Due(s, c, j)
                   /\ StoreWord(s, r, k) = WordOf(M.order, to, c, j, 0)
    <3> DEFINE j == Moved(i, s.axes, to, k)
    <3>1. j \in Index(to) /\ j[a + 1] = k /\ RowNo(to, c, j, u, v) = g + r
      BY <1>4, <1>5, <1>6
    <3> HIDE DEF j
    <3>2. Due(s, c, j)
      BY <3>1 DEF Numbered
    <3>3. StoreWord(s, r, k) = Words(to) * Place(s, s.store, Extent(a, to), g + r, k)
      BY DEF Numbered
    <3>4. RowCount(s) = cfg.batch * Extent(u, to) * Extent(v, to)
      BY <1>2
    <3>5. Place(s, s.store, Extent(a, to), g + r, k) = AddrOf(M.order, to, c, j)
      <4>1. /\ Lies(s.store, s.span, a, u, v, to, M.order)
            /\ a \in Axes /\ u \in Axes /\ v \in Axes
        BY <1>1
      <4>2. Place(s, s.store, Extent(a, to), RowNo(to, c, j, u, v), Along(j, a)) = AddrOf(M.order, to, c, j)
        BY <3>1, <3>4, <4>1, LiesAt
      <4> QED
        BY <3>1, <4>2 DEF Along
    <3>6. StoreWord(s, r, k) = WordOf(M.order, to, c, j, 0)
      BY <3>1, <3>3, <3>5, WordParts, AddressDigits, FormSizes DEF WordOf
    <3> QED
      BY <3>1, <3>2, <3>6 DEF j
  <2> QED
    BY <2>1, <2>2 DEF LineAt
<1>7. ASSUME NEW r \in Launched(s)
      PROVE  \E c \in Batch, i \in Index(from) :
               RowNo(from, c, i, u, v) = g + r /\ LineAt(s, L, M, r, c, i)
  <2>1. g + r \in 0 .. cfg.batch * Extent(u, from) * Extent(v, from) - 1
    BY <1>2 DEF Numbered
  <2>2. PICK c \in Batch, i \in Index(from) : RowNo(from, c, i, u, v) = g + r
    BY <1>1, <2>1, RowExists
  <2> QED
    BY <1>6, <2>2
<1>8. ASSUME NEW c \in Batch, NEW j \in Index(to), Due(s, c, j)
      PROVE  \E r \in Launched(s), i \in Index(from), k \in Places(s, to) :
               LineAt(s, L, M, r, c, i) /\ Moved(i, s.axes, to, k) = j
  <2>1. PICK r \in Launched(s) : RowNo(to, c, j, u, v) = g + r
    BY <1>8 DEF Numbered
  <2> DEFINE i == Moved(j, s.axes, from, 0)  k == j[a + 1]
  <2>2. 0 \in Places(s, from) /\ k \in Places(s, to)
    BY <1>1, <1>2, <1>3, Coordinates DEF Places, Pos
  <2>3. i \in Index(from)
    BY <1>4, <2>2
  <2>4. RowNo(from, c, i, u, v) = g + r
    <3>1. RowNo(from, c, i, u, v) = RowNo(from, c, j, u, v)
      BY <1>5, <2>2
    <3>2. RowNo(from, c, j, u, v) = RowNo(to, c, j, u, v)
      BY <1>2 DEF RowNo
    <3> QED
      BY <2>1, <3>1, <3>2
  <2>5. Moved(i, s.axes, to, k) = j
    <3>1. j = <<j[1], j[2], j[3]>> /\ DOMAIN j = 1 .. 3
      BY Coordinates DEF Index
    <3>2. s.axes \in AxisLists
      BY <1>1 DEF AxisLists, Axes
    <3>3. Moved(i, s.axes, to, k) = Moved(j, s.axes, to, k)
      BY <3>1, <3>2, MovedTwice
    <3>4. Moved(j, s.axes, to, k) = [j EXCEPT ![a + 1] = k]
      BY <1>1 DEF Moved
    <3>5. [j EXCEPT ![a + 1] = k] = j
      BY <3>1
    <3> QED
      BY <3>3, <3>4, <3>5
  <2> HIDE DEF i, k
  <2>6. LineAt(s, L, M, r, c, i)
    BY <1>6, <2>3, <2>4
  <2> QED
    BY <2>2, <2>3, <2>5, <2>6
<1>9. ASSUME NEW r \in Launched(s), NEW q \in Launched(s),
             NEW j \in Places(s, to), NEW k \in Places(s, to),
             StoreWord(s, r, j) = StoreWord(s, q, k)
      PROVE  r = q /\ j = k
  <2>1. PICK c \in Batch, i \in Index(from) :
          RowNo(from, c, i, u, v) = g + r /\ LineAt(s, L, M, r, c, i)
    BY <1>7
  <2>2. PICK d \in Batch, y \in Index(from) :
          RowNo(from, d, y, u, v) = g + q /\ LineAt(s, L, M, q, d, y)
    BY <1>7
  <2> DEFINE x == Moved(i, s.axes, to, j)  z == Moved(y, s.axes, to, k)
  <2>3. x \in Index(to) /\ StoreWord(s, r, j) = WordOf(M.order, to, c, x, 0)
    BY <2>1 DEF LineAt
  <2>4. z \in Index(to) /\ StoreWord(s, q, k) = WordOf(M.order, to, d, z, 0)
    BY <2>2 DEF LineAt
  <2>5. x[a + 1] = j /\ z[a + 1] = k
    BY <1>4
  <2>6. RowNo(from, c, x, u, v) = g + r /\ RowNo(from, d, z, u, v) = g + q
    BY <1>5, <2>1, <2>2
  <2> HIDE DEF x, z
  <2>7. c = d /\ x = z
    <3>1. WordOf(M.order, to, c, x, 0) = WordOf(M.order, to, d, z, 0) /\ 0 \in Parts(to)
      BY <1>9, <2>3, <2>4, WordParts
    <3> QED
      BY <2>3, <2>4, <3>1, WordApart
  <2>8. r \in Nat /\ q \in Nat
    BY DEF Numbered
  <2> QED
    BY <2>5, <2>6, <2>7, <2>8
<1>10. /\ Length(s, from) \in Pos
       /\ \E z \in Nat : StoreBase(s) = Words(to) * z
  BY <1>2, <1>3 DEF Numbered
<1> QED
  BY <1>7, <1>8, <1>9, <1>10 DEF Rowed

-----------------------------------------------------------------------------
(* Rows and rounds: which rows a launch of each kind of loop works on.      *)

LEMMA WholeLaunch ==
  ASSUME Configured, NEW s, s.loop \in {"none", "columns"}, RowCount(s) \in Pos,
         s.loop = "columns" => s.span \in Pos
  PROVE  Launched(s) = 0 .. RowCount(s) - 1
<1>1. CASE s.loop = "none"
  BY <1>1 DEF Launched
<1>2. CASE s.loop = "columns"
  <2> DEFINE d == s.span  h == cfg.chunk  R == RowCount(s)  m == CeilDiv(d, h)
  <2>1. d \in Pos /\ h \in Pos /\ R \in Pos
    BY <1>2, Shapes
  <2>2. Launched(s) = {r \in 0 .. R - 1 : (r % d) \div h < m}
    BY <1>2 DEF Launched
  <2> HIDE DEF d, h, R, m
  <2>3. ASSUME NEW r \in 0 .. R - 1
        PROVE  (r % d) \div h < m
    <3> DEFINE x == r % d  q == x \div h
    <3>1. x \in 0 .. d - 1 /\ x \in Nat
      BY <2>1, <2>3, Division DEF Pos
    <3> HIDE DEF x
    <3>2. q \in Nat /\ q * h <= x
      <4>1. q \in Nat /\ x % h \in 0 .. h - 1 /\ x = q * h + (x % h)
        BY <2>1, <3>1, Division
      <4>2. q * h \in Nat
        BY <2>1, <4>1 DEF Pos
      <4> HIDE DEF q
      <4> QED
        BY <4>1, <4>2
    <3> HIDE DEF q
    <3> DEFINE y == d + h - 1  p == y \div h
    <3>3. y \in Nat /\ (q + 1) * h <= y
      <4>1. (q + 1) * h = q * h + h
        BY <2>1, <3>2 DEF Pos
      <4> QED
        BY <2>1, <3>1, <3>2, <4>1 DEF Pos
    <3> HIDE DEF y
    <3>4. p \in Nat /\ y < (p + 1) * h
      <4>1. p \in Nat /\ y % h \in 0 .. h - 1 /\ y = p * h + (y % h)
        BY <2>1, <3>3, Division
      <4> HIDE DEF p
      <4>2. (p + 1) * h = p * h + h /\ p * h \in Nat
        BY <2>1, <4>1 DEF Pos
      <4> QED
        BY <2>1, <4>1, <4>2 DEF Pos
    <3> HIDE DEF p
    <3>5. q + 1 <= p
      <4> SUFFICES ASSUME p + 1 <= q + 1
                   PROVE  FALSE
        BY <3>2, <3>4
      <4>1. (p + 1) * h <= (q + 1) * h
        BY <2>1, <3>2, <3>4, Ordered DEF Pos
      <4>2. (p + 1) * h \in Nat /\ (q + 1) * h \in Nat
        BY <2>1, <3>2, <3>4 DEF Pos
      <4> QED
        BY <3>3, <3>4, <4>1, <4>2
    <3>6. p = m
      BY DEF p, y, m, CeilDiv
    <3> QED
      BY <3>2, <3>4, <3>5, <3>6 DEF q, x
  <2> QED
    BY <2>2, <2>3 DEF R
<1> QED
  BY <1>1, <1>2

LEMMA PlaceTyped ==
  ASSUME Configured, NEW s, NEW L, NEW M, NEW a, NEW u, NEW v, AlongAxis(s, L, M, a, u, v),
         NEW r \in Nat, NEW k \in Nat
  PROVE  /\ Place(s, s.load, Extent(a, L.form), r, k) \in Nat
         /\ Place(s, s.store, Extent(a, M.form), r, k) \in Nat
<1>1. /\ a \in Axes /\ u \in Axes /\ v \in Axes /\ RowCount(s) \in Nat
      /\ Lies(s.load, s.span, a, u, v, L.form, L.order)
      /\ Lies(s.store, s.span, a, u, v, M.form, M.order)
  BY AxisRows DEF AlongAxis, Pos
<1>2. \A f : \A x \in Axes : Extent(x, f) \in Pos
  BY Extents
<1>3. ASSUME NEW layout, NEW f, NEW o, Lies(layout, s.span, a, u, v, f, o)
      PROVE  Place(s, layout, Extent(a, f), r, k) \in Nat
  <2> DEFINE du == Extent(u, f)  dv == Extent(v, f)  len == Extent(a, f)  d == s.span
             R == RowCount(s)
  <2>1. du \in Pos /\ dv \in Pos /\ len \in Pos /\ du * dv \in Pos /\ half \in Pos /\ R \in Nat
    BY <1>1, <1>2, Shapes, Products DEF Pos
  <2>2. \/ layout \in {"rows", "padded"}
        \/ layout \in {"strided", "outer", "inner"} /\ d \in Pos
    BY <1>3, <2>1 DEF Lies
  <2>3. /\ layout = "rows" => Place(s, layout, len, r, k) = r * len + k
        /\ layout = "padded" => Place(s, layout, len, r, k) = r * 2 * half + k
        /\ layout \in {"strided", "outer"} =>
             Place(s, layout, len, r, k) = (r \div d) * (len * d) + k * d + (r % d)
        /\ layout = "inner" =>
             Place(s, layout, len, r, k) = k * R + (r % d) * (R \div d) + r \div d
    BY DEF Place
  <2> HIDE DEF du, dv, len, d, R
  <2>4. r * len + k \in Nat /\ r * 2 * half + k \in Nat
    BY <2>1 DEF Pos
  <2>5. ASSUME d \in Pos
        PROVE  /\ (r \div d) * (len * d) + k * d + (r % d) \in Nat
               /\ k * R + (r % d) * (R \div d) + r \div d \in Nat
    <3> DEFINE q == r \div d  x == r % d  y == R \div d
    <3>1. q \in Nat /\ x \in Nat /\ y \in Nat
      BY <2>1, <2>5, Division DEF Pos
    <3> HIDE DEF q, x, y
    <3>2. q * (len * d) + k * d + x \in Nat /\ k * R + x * y + q \in Nat
      BY <2>1, <2>5, <3>1 DEF Pos
    <3> QED
      BY <3>2 DEF q, x, y
  <2>6. Place(s, layout, len, r, k) \in Nat
    BY <2>2, <2>3, <2>4, <2>5
  <2> QED
    BY <2>6 DEF len
<1> QED
  BY <1>1, <1>3

\* All rows in one launch.
LEMMA WholeNumbered ==
  ASSUME Configured, NEW s, NEW L, NEW M, NEW a, NEW u, NEW v, AlongAxis(s, L, M, a, u, v),
         s.loop \in {"none", "columns"}, s.loop = "columns" => s.span \in Pos, offset = 0
  PROVE  Numbered(s, L, M, a, u, v, 0)
<1>1. /\ RowCount(s) = cfg.batch * Extent(u, L.form) * Extent(v, L.form)
      /\ Extent(u, M.form) = Extent(u, L.form) /\ Extent(v, M.form) = Extent(v, L.form)
      /\ Length(s, L.form) = Extent(a, L.form) /\ Length(s, M.form) = Extent(a, M.form)
      /\ RowCount(s) \in Pos
  BY AxisRows
<1>2. Launched(s) = 0 .. RowCount(s) - 1
  BY <1>1, WholeLaunch
<1>3. \A c, i : Due(s, c, i)
  BY DEF Due, Turn, Stride
<1>4. LoadBase(s) = 0 /\ StoreBase(s) = 0
  BY DEF LoadBase, StoreBase
<1>5. s.from = L.form /\ s.to = M.form /\ u \in Axes /\ v \in Axes
  BY DEF AlongAxis
<1>6. Words(L.form) \in {1, 2} /\ Words(M.form) \in {1, 2}
  BY FormSizes
<1>7. ASSUME NEW r \in Launched(s)
      PROVE  r \in Nat /\ 0 + r = r /\ 0 + r \in 0 .. RowCount(s) - 1
  BY <1>1, <1>2 DEF Pos
<1>8. ASSUME NEW r \in Launched(s), NEW k \in Places(s, L.form)
      PROVE  LoadWord(s, r, k) = Words(L.form) * Place(s, s.load, Extent(a, L.form), 0 + r, k)
  <2>1. k \in Nat /\ r \in Nat
    BY <1>7 DEF Places
  <2>2. Place(s, s.load, Extent(a, L.form), r, k) \in Nat
    BY <2>1, PlaceTyped
  <2> QED
    BY <1>1, <1>4, <1>5, <1>6, <1>7, <2>2 DEF LoadWord
<1>9. ASSUME NEW r \in Launched(s), NEW k \in Places(s, M.form)
      PROVE  StoreWord(s, r, k) = Words(M.form) * Place(s, s.store, Extent(a, M.form), 0 + r, k)
  <2>1. k \in Nat /\ r \in Nat
    BY <1>7 DEF Places
  <2>2. Place(s, s.store, Extent(a, M.form), r, k) \in Nat
    BY <2>1, PlaceTyped
  <2> QED
    BY <1>1, <1>4, <1>5, <1>6, <1>7, <2>2 DEF StoreWord
<1>10. ASSUME NEW c \in Batch, NEW i \in Index(M.form)
       PROVE  \E r \in Launched(s) : RowNo(M.form, c, i, u, v) = 0 + r
  <2> DEFINE r == RowNo(M.form, c, i, u, v)
  <2>1. r \in 0 .. cfg.batch * Extent(u, M.form) * Extent(v, M.form) - 1
    BY <1>5, RowRange
  <2> HIDE DEF r
  <2>2. r \in Launched(s)
    BY <1>1, <1>2, <2>1
  <2> QED
    BY <1>7, <2>2 DEF r
<1>11. \E z \in Nat : StoreBase(s) = Words(M.form) * z
  <2>1. StoreBase(s) = Words(M.form) * 0
    BY <1>4, <1>6
  <2> QED
    BY <2>1
<1> QED
  BY <1>3, <1>7, <1>8, <1>9, <1>10, <1>11 DEF Numbered

\* The rows of one chunk.
LEMMA ChunkNumbered ==
  ASSUME Configured, NEW s, NEW L, NEW M, AlongAxis(s, L, M, 2, 0, 1), InChunks(s),
         offset \in 0 .. RowCount(s) - 1
  PROVE  Numbered(s, L, M, 2, 0, 1, offset)
<1>1. /\ RowCount(s) = cfg.batch * Extent(0, L.form) * Extent(1, L.form)
      /\ Length(s, L.form) = Extent(2, L.form) /\ Length(s, M.form) = Extent(2, M.form)
      /\ RowCount(s) \in Pos
  BY AxisRows
<1>2. /\ s.loop = "rows" /\ s.load = "rows" /\ s.store = "rows"
      /\ s.from = L.form /\ s.to = M.form
      /\ s.perRow[1] = Words(L.form) * Length(s, L.form)
      /\ s.perRow[2] = Words(M.form) * Length(s, M.form)
  BY DEF InChunks, AlongAxis
<1>3. cfg.chunk \in Pos /\ RowCount(s) \in Nat /\ offset \in Nat
  BY <1>1, Shapes DEF Pos
<1>4. Launched(s) = 0 .. Least(cfg.chunk, RowCount(s) - offset) - 1
  BY <1>2 DEF Launched
<1>5. ASSUME NEW r \in Launched(s)
      PROVE  r \in Nat /\ r < cfg.chunk /\ offset + r \in 0 .. RowCount(s) - 1
  BY <1>3, <1>4 DEF Least, Pos
<1>6. ASSUME NEW f, NEW c \in Batch, NEW i \in Index(f)
      PROVE  /\ Turn(s, c, i) = RowNo(f, c, i, 0, 1)
             /\ RowNo(f, c, i, 0, 1) \in 0 .. RowCount(s) - 1
  <2>1. Extent(0, f) = n0 /\ Extent(1, f) = n1 /\ Extent(0, L.form) = n0 /\ Extent(1, L.form) = n1
    BY Extents
  <2>2. Turn(s, c, i) = (c * n0 + i[1]) * n1 + i[2]
    BY <1>2 DEF Turn
  <2>3. RowNo(f, c, i, 0, 1) = (c * n0 + i[1]) * n1 + i[2]
    BY <2>1 DEF RowNo
  <2>4. 0 \in Axes /\ 1 \in Axes
    BY DEF Axes
  <2> QED
    BY <1>1, <2>1, <2>2, <2>3, <2>4, RowRange
<1>7. ASSUME NEW f, NEW c \in Batch, NEW i \in Index(f)
      PROVE  Due(s, c, i) <=> /\ offset <= RowNo(f, c, i, 0, 1)
                              /\ RowNo(f, c, i, 0, 1) < offset + cfg.chunk
  <2>1. Stride(s) = cfg.chunk
    BY <1>2 DEF Stride
  <2> QED
    BY <1>6, <2>1 DEF Due
<1>8. ASSUME NEW W \in {1, 2}, NEW len \in Pos, NEW r \in Nat, NEW k \in Nat
      PROVE  offset * (W * len) + W * (r * len + k) = W * ((offset + r) * len + k)
  <2>1. (offset + r) * len = offset * len + r * len /\ offset * len \in Nat /\ r * len \in Nat
    BY <1>3, <1>8 DEF Pos
  <2>2. offset * (W * len) = W * (offset * len)
    BY <1>3, <1>8 DEF Pos
  <2> DEFINE x == offset * len  y == r * len
  <2> HIDE DEF x, y
  <2>3. W * x + W * (y + k) = W * (x + y + k)
    BY <1>8, <2>1 DEF x, y
  <2> QED
    BY <2>1, <2>2, <2>3 DEF x, y
<1>9. ASSUME NEW r \in Launched(s), NEW k \in Places(s, L.form)
      PROVE  LoadWord(s, r, k)
               = Words(L.form) * Place(s, s.load, Extent(2, L.form), offset + r, k)
  <2> DEFINE W == Words(L.form)  len == Extent(2, L.form)
  <2>1. W \in {1, 2} /\ len \in Pos
    BY FormSizes, Extents DEF Axes
  <2>2. r \in Nat /\ k \in Nat
    BY <1>5 DEF Places
  <2>3. LoadWord(s, r, k) = offset * (W * len) + W * (r * len + k)
    BY <1>1, <1>2 DEF LoadWord, LoadBase, Place
  <2>4. Place(s, s.load, len, offset + r, k) = (offset + r) * len + k
    BY <1>2 DEF Place
  <2> HIDE DEF W, len
  <2>5. offset * (W * len) + W * (r * len + k) = W * ((offset + r) * len + k)
    BY <1>8, <2>1, <2>2
  <2> QED
    BY <2>3, <2>4, <2>5 DEF W, len
<1>10. ASSUME NEW r \in Launched(s), NEW k \in Places(s, M.form)
       PROVE  StoreWord(s, r, k)
                = Words(M.form) * Place(s, s.store, Extent(2, M.form), offset + r, k)
  <2> DEFINE W == Words(M.form)  len == Extent(2, M.form)
  <2>1. W \in {1, 2} /\ len \in Pos
    BY FormSizes, Extents DEF Axes
  <2>2. r \in Nat /\ k \in Nat
    BY <1>5 DEF Places
  <2>3. StoreWord(s, r, k) = offset * (W * len) + W * (r * len + k)
    BY <1>1, <1>2 DEF StoreWord, StoreBase, Place
  <2>4. Place(s, s.store, len, offset + r, k) = (offset + r) * len + k
    BY <1>2 DEF Place
  <2> HIDE DEF W, len
  <2>5. offset * (W * len) + W * (r * len + k) = W * ((offset + r) * len + k)
    BY <1>8, <2>1, <2>2
  <2> QED
    BY <2>3, <2>4, <2>5 DEF W, len
<1>11. ASSUME NEW c \in Batch, NEW i \in Index(M.form), Due(s, c, i)
       PROVE  \E r \in Launched(s) : RowNo(M.form, c, i, 0, 1) = offset + r
  <2> DEFINE x == RowNo(M.form, c, i, 0, 1)
  <2>1. x \in 0 .. RowCount(s) - 1 /\ offset <= x /\ x < offset + cfg.chunk
    BY <1>6, <1>7, <1>11
  <2> HIDE DEF x
  <2>2. x - offset \in Launched(s) /\ x = offset + (x - offset)
    BY <1>3, <1>4, <2>1 DEF Least, Pos
  <2> QED
    BY <2>2 DEF x
<1>12. ASSUME NEW r \in Launched(s), NEW f, NEW c \in Batch, NEW i \in Index(f),
              RowNo(f, c, i, 0, 1) = offset + r
       PROVE  Due(s, c, i)
  <2>1. r \in Nat /\ r < cfg.chunk
    BY <1>5
  <2>2. offset <= offset + r /\ offset + r < offset + cfg.chunk
    BY <1>3, <2>1 DEF Pos
  <2> QED
    BY <1>7, <1>12, <2>2
<1>13. \E z \in Nat : StoreBase(s) = Words(M.form) * z
  <2> DEFINE W == Words(M.form)  len == Extent(2, M.form)
  <2>1. W \in {1, 2} /\ len \in Pos
    BY FormSizes, Extents DEF Axes
  <2>2. StoreBase(s) = offset * (W * len)
    BY <1>1, <1>2 DEF StoreBase
  <2> HIDE DEF W, len
  <2>3. offset * (W * len) = W * (offset * len) /\ offset * len \in Nat
    BY <1>3, <2>1 DEF Pos
  <2> QED
    BY <2>2, <2>3 DEF W
<1> QED
  BY <1>5, <1>9, <1>10, <1>11, <1>12, <1>13 DEF Numbered

\* The rows of one item.
LEMMA ItemNumbered ==
  ASSUME Configured, NEW s, NEW L, NEW M, NEW a, NEW u, NEW v, AlongAxis(s, L, M, a, u, v),
         ItemByItem(s), s.span = Extent(u, L.form) * Extent(v, L.form),
         offset \in 0 .. cfg.batch - 1
  PROVE  Numbered(s, L, M, a, u, v, offset * s.span)
<1> DEFINE B == cfg.batch  R == s.span
<1>1. /\ RowCount(s) = B * Extent(u, L.form) * Extent(v, L.form)
      /\ Extent(u, M.form) = Extent(u, L.form) /\ Extent(v, M.form) = Extent(v, L.form)
      /\ Length(s, L.form) = Extent(a, L.form) /\ Length(s, M.form) = Extent(a, M.form)
  BY AxisRows
<1>2. /\ s.loop = "item" /\ s.load = "rows" /\ s.store = "outer"
      /\ s.from = L.form /\ s.to = M.form /\ a \in Axes /\ u \in Axes /\ v \in Axes
  BY DEF ItemByItem, AlongAxis
<1>3. B \in Pos /\ R \in Pos /\ RowCount(s) = B * R /\ offset \in 0 .. B - 1 /\ offset \in Nat
  <2> DEFINE du == Extent(u, L.form)  dv == Extent(v, L.form)
  <2>1. du \in Pos /\ dv \in Pos /\ B \in Pos
    BY <1>2, Extents, Shapes
  <2>2. RowCount(s) = B * du * dv /\ R = du * dv
    BY <1>1
  <2> HIDE DEF du, dv, B, R
  <2>3. du * dv \in Pos /\ B * du * dv = B * (du * dv)
    BY <2>1, Products DEF Pos
  <2>4. offset \in 0 .. B - 1
    BY DEF B
  <2> QED
    BY <2>1, <2>2, <2>3, <2>4 DEF Pos
<1>4. RowCount(s) \div B = R
  <2>1. RowCount(s) = R * B
    BY <1>3 DEF Pos
  <2> QED
    BY <1>3, <2>1, ExactQuotient DEF Pos
<1>5. /\ Words(L.form) * (R * Extent(a, L.form)) = ItemWords
      /\ Words(M.form) * (R * Extent(a, M.form)) = ItemWords
  <2>1. PICK Q \in Pos : /\ RowCount(s) = B * Q
                         /\ Words(L.form) * (Q * Length(s, L.form)) = ItemWords
                         /\ Words(M.form) * (Q * Length(s, M.form)) = ItemWords
    BY <1>2 DEF ItemByItem
  <2>2. RowCount(s) = Q * B
    BY <1>3, <2>1 DEF Pos
  <2>3. RowCount(s) \div B = Q
    BY <1>3, <2>2, ExactQuotient DEF Pos
  <2> QED
    BY <1>1, <1>4, <2>1, <2>3
<1>6. Launched(s) = 0 .. R - 1
  BY <1>2, <1>4 DEF Launched
<1> HIDE DEF B, R
<1>7. ASSUME NEW r \in Launched(s)
      PROVE  r \in Nat /\ r \in 0 .. R - 1 /\ offset * R + r \in 0 .. RowCount(s) - 1
  <2>1. r \in Nat /\ r \in 0 .. R - 1
    BY <1>3, <1>6
  <2>2. offset * R + r \in 0 .. B * R - 1
    BY <1>3, <2>1, DigitBound DEF Pos
  <2> QED
    BY <1>3, <2>1, <2>2
<1>8. \A c, i : Due(s, c, i) <=> offset <= c /\ c < offset + 1
  BY <1>2 DEF Due, Turn, Stride
<1>9. ASSUME NEW f \in {L.form, M.form}, NEW c \in Batch, NEW i \in Index(f)
      PROVE  /\ c \in Nat
             /\ c * R <= RowNo(f, c, i, u, v) /\ RowNo(f, c, i, u, v) < (c + 1) * R
             /\ RowNo(f, c, i, u, v) \in Nat
  <2>1. R = Extent(u, f) * Extent(v, f)
    BY <1>1 DEF R
  <2>2. c \in Nat
    BY <1>3 DEF Batch, B
  <2> DEFINE x == RowNo(f, c, i, u, v)  m == Extent(u, f) * Extent(v, f)
  <2>3. x \in Nat /\ c * m <= x /\ x < (c + 1) * m
    BY <1>2, RowRange
  <2>4. R = m
    BY <2>1
  <2> HIDE DEF x, m
  <2>5. c * R <= x /\ x < (c + 1) * R
    BY <2>3, <2>4
  <2> QED
    BY <2>2, <2>3, <2>5 DEF x
<1>10. ASSUME NEW r \in Launched(s), NEW f \in {L.form, M.form}, NEW c \in Batch,
              NEW i \in Index(f), RowNo(f, c, i, u, v) = offset * R + r
       PROVE  Due(s, c, i)
  <2>1. c \in Nat /\ c * R <= offset * R + r /\ offset * R + r < (c + 1) * R
    BY <1>9, <1>10
  <2>2. r \in Nat /\ r < R /\ R \in Pos
    BY <1>3, <1>7 DEF Pos
  <2>3. (offset + 1) * R = offset * R + R /\ offset * R \in Nat /\ c * R \in Nat /\ (c + 1) * R \in Nat
    BY <1>3, <2>1 DEF Pos
  <2>4. ~(offset + 1 <= c)
    <3> SUFFICES ASSUME offset + 1 <= c
                 PROVE  FALSE
      OBVIOUS
    <3>1. (offset + 1) * R <= c * R
      BY <1>3, <2>1, Ordered DEF Pos
    <3> QED
      BY <2>1, <2>2, <2>3, <3>1 DEF Pos
  <2>5. ~(c + 1 <= offset)
    <3> SUFFICES ASSUME c + 1 <= offset
                 PROVE  FALSE
      OBVIOUS
    <3>1. (c + 1) * R <= offset * R
      BY <1>3, <2>1, Ordered DEF Pos
    <3> QED
      BY <2>1, <2>2, <2>3, <3>1 DEF Pos
  <2>6. offset <= c /\ c < offset + 1
    BY <1>3, <2>1, <2>4, <2>5
  <2> QED
    BY <1>8, <2>6
<1>11. ASSUME NEW c \in Batch, NEW i \in Index(M.form), Due(s, c, i)
       PROVE  \E r \in Launched(s) : RowNo(M.form, c, i, u, v) = offset * R + r
  <2> DEFINE x == RowNo(M.form, c, i, u, v)
  <2>1. c = offset
    BY <1>3, <1>8, <1>9, <1>11
  <2>2. offset * R <= x /\ x < (offset + 1) * R /\ x \in Nat
    BY <1>9, <2>1
  <2> HIDE DEF x
  <2>3. (offset + 1) * R = offset * R + R /\ offset * R \in Nat
    BY <1>3 DEF Pos
  <2>4. x - offset * R \in 0 .. R - 1 /\ x = offset * R + (x - offset * R)
    BY <1>3, <2>2, <2>3 DEF Pos
  <2> QED
    BY <1>6, <2>4 DEF x
<1>12. ASSUME NEW r \in Launched(s), NEW k \in Places(s, L.form)
       PROVE  LoadWord(s, r, k)
                = Words(L.form) * Place(s, s.load, Extent(a, L.form), offset * R + r, k)
  <2> DEFINE W == Words(L.form)  len == Extent(a, L.form)
  <2>1. W \in {1, 2} /\ len \in Pos
    BY <1>2, FormSizes, Extents
  <2>2. r \in Nat /\ k \in Nat
    BY <1>7 DEF Places
  <2>3. LoadWord(s, r, k) = offset * (W * (R * len)) + W * (r * len + k)
    BY <1>1, <1>2, <1>5 DEF LoadWord, LoadBase, Place
  <2>4. Place(s, s.load, len, offset * R + r, k) = (offset * R + r) * len + k
    BY <1>2 DEF Place
  <2> HIDE DEF W, len
  <2> DEFINE x == offset * (R * len)  y == r * len
  <2>5. (offset * R + r) * len = x + y /\ x \in Nat /\ y \in Nat
    BY <1>3, <2>1, <2>2 DEF Pos
  <2>6. offset * (W * (R * len)) = W * x
    BY <1>3, <2>1, <2>2 DEF Pos
  <2> HIDE DEF x
  <2>7. W * x + W * (y + k) = W * (x + y + k)
    BY <2>1, <2>2, <2>5
  <2> QED
    BY <2>3, <2>4, <2>5, <2>6, <2>7 DEF W, len
<1>13. ASSUME NEW r \in Launched(s), NEW k \in Places(s, M.form)
       PROVE  StoreWord(s, r, k)
                = Words(M.form) * Place(s, s.store, Extent(a, M.form), offset * R + r, k)
  <2> DEFINE W == Words(M.form)  len == Extent(a, M.form)  g == offset * R + r
  <2>1. W \in {1, 2} /\ len \in Pos
    BY <1>2, FormSizes, Extents
  <2>2. r \in Nat /\ k \in Nat /\ r \in 0 .. R - 1
    BY <1>7 DEF Places
  <2>3. r \div R = 0 /\ r % R = r
    BY <1>3, <2>2 DEF Pos
  <2>4. g \div R = offset /\ g % R = r
    BY <1>3, <2>2, Digits
  <2>5. Place(s, s.store, len, r, k) = (r \div R) * (len * R) + k * R + (r % R)
    BY <1>2 DEF Place, R
  <2>6. Place(s, s.store, len, g, k) = (g \div R) * (len * R) + k * R + (g % R)
    BY <1>2 DEF Place, R
  <2>7. StoreWord(s, r, k) = offset * (W * (R * len)) + W * Place(s, s.store, len, r, k)
    BY <1>1, <1>2, <1>5 DEF StoreWord, StoreBase
  <2> HIDE DEF W, len, g
  <2> DEFINE x == offset * (len * R)  y == k * R
  <2>8. x \in Nat /\ y \in Nat /\ 0 * (len * R) + y + r = y + r
    BY <1>3, <2>1, <2>2 DEF Pos
  <2>9. offset * (W * (R * len)) = W * x
    BY <1>3, <2>1, <2>2 DEF Pos
  <2> HIDE DEF x, y
  <2>10. W * x + W * (y + r) = W * (x + y + r)
    BY <2>1, <2>2, <2>8
  <2>11. Place(s, s.store, len, r, k) = y + r /\ Place(s, s.store, len, g, k) = x + y + r
    BY <2>3, <2>4, <2>5, <2>6, <2>8 DEF x, y
  <2>12. StoreWord(s, r, k) = W * Place(s, s.store, len, g, k)
    BY <2>7, <2>9, <2>10, <2>11
  <2> QED
    BY <2>12 DEF W, len, g
<1>14. \E z \in Nat : StoreBase(s) = Words(M.form) * z
  <2> DEFINE W == Words(M.form)  len == Extent(a, M.form)
  <2>1. W \in {1, 2} /\ len \in Pos
    BY <1>2, FormSizes, Extents
  <2>2. StoreBase(s) = offset * (W * (R * len))
    BY <1>2, <1>5 DEF StoreBase
  <2> HIDE DEF W, len
  <2>3. offset * (W * (R * len)) = W * (offset * (R * len)) /\ offset * (R * len) \in Nat
    BY <1>3, <2>1 DEF Pos
  <2> QED
    BY <2>2, <2>3 DEF W
<1>15. Numbered(s, L, M, a, u, v, offset * R)
  BY <1>7, <1>10, <1>11, <1>12, <1>13, <1>14 DEF Numbered
<1> QED
  BY <1>15 DEF R

-----------------------------------------------------------------------------
(* Rows of planes and of cubes.                                            *)

Straight == <<0, 1, 2>>

\* Rows that follow each other in an array in natural order.
LEMMA OnWholes ==
  ASSUME Configured, NEW s, NEW L, NEW M, Lined(s), s.from = L.form, s.to = M.form,
         s.loop = "none", offset = 0, s.load = "rows", s.store = "rows",
         L.order = Straight, M.order = Straight,
         \A r \in 0 .. RowCount(s) - 1 : \E c \in Batch, i \in Index(L.form) :
           \A f \in {L.form, M.form} : \A k \in Places(s, f) :
             /\ Moved(i, s.axes, f, k) \in Index(f)
             /\ AddrOf(Straight, f, c, Moved(i, s.axes, f, k)) = r * Length(s, f) + k
  PROVE  Rowed(s, L, M)
<1> DEFINE from == L.form  to == M.form  R == RowCount(s)
<1>1. /\ R \in Pos /\ Length(s, from) \in Pos /\ Length(s, to) \in Pos
      /\ R * Length(s, to) = Elements(to)
  BY LinesCover
<1>2. Launched(s) = 0 .. R - 1
  BY <1>1, WholeLaunch
<1>3. \A c, i : Due(s, c, i)
  BY DEF Due, Turn, Stride
<1>4. Straight \in Orders
  BY DEF Straight, Orders
<1>5. Words(from) \in {1, 2} /\ Words(to) \in {1, 2}
  BY FormSizes
<1>6. ASSUME NEW r \in Launched(s), NEW k
      PROVE  /\ LoadWord(s, r, k) = 0 + Words(from) * (r * Length(s, from) + k)
             /\ StoreWord(s, r, k) = 0 + Words(to) * (r * Length(s, to) + k)
  BY DEF LoadWord, StoreWord, LoadBase, StoreBase, Place
<1>7. ASSUME NEW r \in Launched(s)
      PROVE  \E c \in Batch, i \in Index(from) :
               /\ LineAt(s, L, M, r, c, i)
               /\ \A k \in Places(s, to) :
                    AddrOf(Straight, to, c, Moved(i, s.axes, to, k)) = r * Length(s, to) + k
  <2>1. PICK c \in Batch, i \in Index(from) :
          \A f \in {from, to} : \A k \in Places(s, f) :
            /\ Moved(i, s.axes, f, k) \in Index(f)
            /\ AddrOf(Straight, f, c, Moved(i, s.axes, f, k)) = r * Length(s, f) + k
    BY <1>2
  <2>2. ASSUME NEW f \in {from, to}, NEW k \in Places(s, f)
        PROVE  0 + Words(f) * (r * Length(s, f) + k)
                 = WordOf(Straight, f, c, Moved(i, s.axes, f, k), 0)
    <3> DEFINE a == AddrOf(Straight, f, c, Moved(i, s.axes, f, k))
    <3>1. a \in 0 .. Elements(f) - 1 /\ a = r * Length(s, f) + k
      BY <1>4, <2>1, AddressDigits
    <3>2. WordOf(Straight, f, c, Moved(i, s.axes, f, k), 0) = Words(f) * a + 0
      BY DEF WordOf
    <3>3. Words(f) \in {1, 2} /\ a \in Nat
      BY <1>5, <3>1
    <3> HIDE DEF a
    <3> QED
      BY <3>1, <3>2, <3>3
  <2>3. LineAt(s, L, M, r, c, i)
    BY <1>3, <1>6, <2>1, <2>2 DEF LineAt
  <2> QED
    BY <2>1, <2>3
<1>8. ASSUME NEW c \in Batch, NEW j \in Index(to)
      PROVE  \E r \in Launched(s), i \in Index(from), k \in Places(s, to) :
               LineAt(s, L, M, r, c, i) /\ Moved(i, s.axes, to, k) = j
  <2> DEFINE a == AddrOf(Straight, to, c, j)  n == Length(s, to)  r == a \div n  k == a % n
  <2>1. a \in 0 .. R * n - 1 /\ n \in Pos /\ R \in Nat
    BY <1>1, <1>4, AddressDigits DEF Pos
  <2> HIDE DEF a, n, R
  <2>2. r \in 0 .. R - 1
    BY <2>1, QuotientBound
  <2>3. k \in 0 .. n - 1 /\ a = r * n + k
    <3>1. R * n \in Nat
      BY <2>1 DEF Pos
    <3>2. a \in Nat
      BY <2>1, <3>1
    <3> QED
      BY <2>1, <3>2, Division
  <2> HIDE DEF r, k
  <2>4. k \in Places(s, to) /\ r \in Launched(s)
    BY <1>2, <2>2, <2>3 DEF Places, n
  <2>5. PICK d \in Batch, i \in Index(from) :
          /\ LineAt(s, L, M, r, d, i)
          /\ \A h \in Places(s, to) :
               AddrOf(Straight, to, d, Moved(i, s.axes, to, h)) = r * Length(s, to) + h
    BY <1>7, <2>4
  <2> DEFINE y == Moved(i, s.axes, to, k)
  <2>6. y \in Index(to) /\ AddrOf(Straight, to, d, y) = a
    BY <2>3, <2>4, <2>5 DEF LineAt, n
  <2> HIDE DEF y
  <2>7. c = d /\ j = y
    BY <1>4, <2>6, AddressApart DEF a
  <2> QED
    BY <2>4, <2>5, <2>7 DEF y
<1>9. ASSUME NEW r \in Launched(s), NEW q \in Launched(s),
             NEW j \in Places(s, to), NEW k \in Places(s, to),
             StoreWord(s, r, j) = StoreWord(s, q, k)
      PROVE  r = q /\ j = k
  <2> DEFINE n == Length(s, to)  W == Words(to)
  <2>1. /\ n \in Pos /\ W \in {1, 2} /\ r \in Nat /\ q \in Nat
        /\ j \in 0 .. n - 1 /\ k \in 0 .. n - 1
    BY <1>1, <1>2, <1>5 DEF Places
  <2>2. 0 + W * (r * n + j) = 0 + W * (q * n + k)
    BY <1>6, <1>9
  <2> HIDE DEF n, W
  <2>3. r * n + j \in Nat /\ q * n + k \in Nat
    BY <2>1, Digits
  <2>4. r * n + j = q * n + k
    <3> DEFINE x == r * n + j  y == q * n + k
    <3>1. x \in Nat /\ y \in Nat /\ 0 + W * x = 0 + W * y
      BY <2>2, <2>3
    <3> HIDE DEF x, y
    <3>2. x = y
      BY <2>1, <3>1
    <3> QED
      BY <3>2 DEF x, y
  <2> QED
    BY <2>1, <2>4, SameDigits
<1>10. \E z \in Nat : StoreBase(s) = Words(to) * z
  <2>1. StoreBase(s) = Words(to) * 0
    BY <1>5 DEF StoreBase
  <2> QED
    BY <2>1
<1>11. \A r \in Launched(s) : \E c \in Batch, i \in Index(from) : LineAt(s, L, M, r, c, i)
  BY <1>7
<1> QED
  BY <1>1, <1>8, <1>9, <1>10, <1>11 DEF Rowed

\* The planes of a fused kernel, and its cubes.
LEMMA OnPlanes ==
  ASSUME Configured, NEW s, NEW L, NEW M, s.axes = <<1, 2>>, s.from = L.form, s.to = M.form,
         s.loop = "none", offset = 0, s.load = "rows", s.store = "rows",
         L.order = Straight, M.order = Straight
  PROVE  Rowed(s, L, M)
<1>1. Lined(s)
  BY DEF Lined, AxisLists
<1>2. /\ RowCount(s) = cfg.batch * n0 /\ n0 \in Pos /\ n1 \in Pos /\ cfg.batch \in Pos
      /\ \A f \in {L.form, M.form} : Length(s, f) = n1 * Width(f)
  BY LineCounts, Shapes
<1>3. ASSUME NEW r \in 0 .. RowCount(s) - 1
      PROVE  \E c \in Batch, i \in Index(L.form) :
               \A f \in {L.form, M.form} : \A k \in Places(s, f) :
                 /\ Moved(i, s.axes, f, k) \in Index(f)
                 /\ AddrOf(Straight, f, c, Moved(i, s.axes, f, k)) = r * Length(s, f) + k
  <2> DEFINE B == cfg.batch  c == r \div n0  x == r % n0  i == <<x, 0, 0>>
  <2>1. r \in 0 .. B * n0 - 1 /\ B \in Nat /\ B * n0 \in Nat
    BY <1>2, Products DEF Pos
  <2> HIDE DEF B
  <2>2. c \in 0 .. B - 1
    BY <1>2, <2>1, QuotientBound
  <2>3. x \in 0 .. n0 - 1 /\ r = c * n0 + x
    <3>1. r \in Nat
      BY <2>1
    <3> QED
      BY <1>2, <3>1, Division
  <2> HIDE DEF c, x
  <2>4. i \in Index(L.form)
    BY <1>2, <2>3, Extents DEF Index, Pos
  <2>5. ASSUME NEW f \in {L.form, M.form}, NEW k \in Places(s, f)
        PROVE  /\ Moved(i, s.axes, f, k) \in Index(f)
               /\ AddrOf(Straight, f, c, Moved(i, s.axes, f, k)) = r * Length(s, f) + k
    <3> DEFINE w == Width(f)  y == k \div w  z == k % w
    <3>1. w \in Pos /\ k \in 0 .. n1 * w - 1 /\ n1 \in Nat /\ n1 * w \in Nat
      BY <1>2, Extents, Products DEF Places, Pos
    <3>2. Moved(i, s.axes, f, k) = <<x, y, z>>
      BY DEF Moved
    <3> HIDE DEF w, i
    <3>3. y \in 0 .. n1 - 1
      BY <3>1, QuotientBound
    <3>4. z \in 0 .. w - 1 /\ k = y * w + z
      <4>1. k \in Nat
        BY <3>1
      <4> QED
        BY <3>1, <4>1, Division
    <3> HIDE DEF y, z
    <3>5. <<x, y, z>> \in Index(f)
      BY <2>3, <3>3, <3>4 DEF Index, w
    <3>6. AddrOf(Straight, f, c, <<x, y, z>>) = Place3(n0, n1, w, c, x, y, z)
      BY Extents DEF AddrOf, Straight, w
    <3>7. Place3(n0, n1, w, c, x, y, z) = r * (n1 * w) + k
      <4>1. (r * n1 + y) * w = r * (n1 * w) + y * w
        BY <2>1, <3>1, <3>3 DEF Pos
      <4>2. Place3(n0, n1, w, c, x, y, z) = (r * n1 + y) * w + z
        BY <2>3 DEF Place3
      <4>3. r * (n1 * w) \in Nat /\ y * w \in Nat /\ z \in Nat
        BY <2>1, <3>1, <3>3, <3>4 DEF Pos
      <4> DEFINE g == r * (n1 * w)  h == y * w
      <4> HIDE DEF g, h
      <4>4. (g + h) + z = g + (h + z)
        BY <4>3 DEF g, h
      <4> QED
        BY <3>4, <4>1, <4>2, <4>4 DEF g, h
    <3> QED
      BY <1>2, <3>2, <3>5, <3>6, <3>7 DEF w
  <2> QED
    BY <2>2, <2>4, <2>5 DEF Batch, B
<1> QED
  BY <1>1, <1>3, OnWholes

LEMMA OnCubes ==
  ASSUME Configured, NEW s, NEW L, NEW M, s.axes = <<0, 1, 2>>, s.from = L.form, s.to = M.form,
         s.loop = "none", offset = 0, s.load = "rows", s.store = "rows",
         L.order = Straight, M.order = Straight
  PROVE  Rowed(s, L, M)
<1>1. Lined(s)
  BY DEF Lined, AxisLists
<1>2. /\ RowCount(s) = cfg.batch /\ n0 \in Pos /\ n1 \in Pos /\ cfg.batch \in Pos
      /\ \A f \in {L.form, M.form} : Length(s, f) = n0 * n1 * Width(f)
  BY LineCounts, Shapes
<1>3. ASSUME NEW r \in 0 .. RowCount(s) - 1
      PROVE  \E c \in Batch, i \in Index(L.form) :
               \A f \in {L.form, M.form} : \A k \in Places(s, f) :
                 /\ Moved(i, s.axes, f, k) \in Index(f)
                 /\ AddrOf(Straight, f, c, Moved(i, s.axes, f, k)) = r * Length(s, f) + k
  <2> DEFINE i == <<0, 0, 0>>
  <2>1. r \in Batch /\ r \in Nat
    BY <1>2 DEF Batch
  <2>2. i \in Index(L.form)
    BY <1>2, Extents DEF Index, Pos
  <2>3. ASSUME NEW f \in {L.form, M.form}, NEW k \in Places(s, f)
        PROVE  /\ Moved(i, s.axes, f, k) \in Index(f)
               /\ AddrOf(Straight, f, r, Moved(i, s.axes, f, k)) = r * Length(s, f) + k
    <3> DEFINE w == Width(f)  m == n1 * w  z == k % w  h == k \div w  y == h % n1  x == k \div m
    <3>1. w \in Pos /\ m \in Pos /\ n0 \in Nat /\ k \in 0 .. n0 * n1 * w - 1
      BY <1>2, Extents, Products DEF Places, Pos
    <3>2. Moved(i, s.axes, f, k) = <<x, y, z>>
      BY DEF Moved
    <3>3. n0 * n1 * w = n0 * m /\ n0 * m \in Nat
      BY <1>2, <3>1 DEF Pos
    <3> HIDE DEF m, w, i
    <3>4. k \in Nat /\ x \in 0 .. n0 - 1
      BY <3>1, <3>3, QuotientBound
    <3>5. z \in 0 .. w - 1 /\ k = h * w + z /\ h \in Nat
      BY <3>1, <3>4, Division
    <3>6. y \in 0 .. n1 - 1 /\ h = (h \div n1) * n1 + y
      <4> HIDE DEF h
      <4> QED
        BY <1>2, <3>5, Division
    <3>7. h \div n1 = x
      BY <1>2, <3>1, <3>4 DEF m, Pos
    <3>8. h = x * n1 + y
      BY <3>6, <3>7
    <3> HIDE DEF h, x, y, z
    <3>9. <<x, y, z>> \in Index(f)
      BY <3>4, <3>5, <3>6 DEF Index, w
    <3>10. AddrOf(Straight, f, r, <<x, y, z>>) = Place3(n0, n1, w, r, x, y, z)
      BY Extents DEF AddrOf, Straight, w
    <3>11. Place3(n0, n1, w, r, x, y, z) = r * (n0 * m) + k
      <4> DEFINE u == r * n0
      <4>1. u \in Nat /\ r * (n0 * m) = u * m /\ x \in Nat /\ y \in Nat /\ n1 \in Nat /\ w \in Nat
        BY <1>2, <2>1, <3>1, <3>4, <3>6 DEF Pos
      <4>2. Place3(n0, n1, w, r, x, y, z) = ((u + x) * n1 + y) * w + z
        BY DEF Place3
      <4> HIDE DEF u
      <4>3. ((u + x) * n1 + y) * w = u * (n1 * w) + (x * n1 + y) * w
        BY <4>1
      <4>4. u * (n1 * w) \in Nat /\ h * w \in Nat /\ z \in Nat
        BY <3>1, <3>5, <4>1 DEF Pos
      <4> DEFINE g == u * (n1 * w)  e == h * w
      <4> HIDE DEF g, e
      <4>5. (g + e) + z = g + (e + z)
        BY <4>4 DEF g, e
      <4> QED
        BY <3>5, <3>8, <4>1, <4>2, <4>3, <4>5 DEF g, e, m
    <3>12. AddrOf(Straight, f, r, <<x, y, z>>) = r * Length(s, f) + k
      BY <1>2, <3>3, <3>10, <3>11 DEF w
    <3> QED
      BY <3>2, <3>9, <3>12
  <2> QED
    BY <2>1, <2>2, <2>3
<1> QED
  BY <1>1, <1>3, OnWholes

-----------------------------------------------------------------------------
(* Permutations.                                                           *)

\* The axes of an array in order o, taken in order x.
Reordered(o, x) == <<o[x[1] + 1], o[x[2] + 1], o[x[3] + 1]>>

LEMMA DigitsOfItem ==
  ASSUME NEW d0 \in Pos, NEW d1 \in Pos, NEW d2 \in Pos, NEW x0 \in 0 .. d0 - 1,
         NEW x1 \in 0 .. d1 - 1, NEW x2 \in 0 .. d2 - 1, NEW e, e = (x0 * d1 + x1) * d2 + x2
  PROVE  e \div (d1 * d2) = x0 /\ (e \div d2) % d1 = x1 /\ e % d2 = x2
<1>1. x0 * d1 + x1 \in Nat
  BY Digits
<1>2. e \div d2 = x0 * d1 + x1 /\ e % d2 = x2
  <2> DEFINE h == x0 * d1 + x1
  <2>1. h \in Nat /\ e = h * d2 + x2
    BY <1>1
  <2> HIDE DEF h
  <2>2. e \div d2 = h /\ e % d2 = x2
    BY <2>1, Digits
  <2> QED
    BY <2>2 DEF h
<1>3. (x0 * d1 + x1) % d1 = x1
  BY Digits
<1>4. e \div (d1 * d2) = x0
  <2> DEFINE m == d1 * d2  y == x1 * d2 + x2
  <2>1. y \in 0 .. m - 1
    BY DigitBound DEF Pos
  <2>2. e = x0 * m + y /\ m \in Pos
    <3>1. (x0 * d1 + x1) * d2 = x0 * (d1 * d2) + x1 * d2 /\ x1 * d2 \in Nat /\ x0 * (d1 * d2) \in Nat
      BY DEF Pos
    <3>2. d1 * d2 \in Pos
      BY Products DEF Pos
    <3> QED
      BY <3>1, <3>2
  <2> HIDE DEF m, y
  <2>3. e \div m = x0
    BY <2>1, <2>2, Digits
  <2> QED
    BY <2>3 DEF m
<1> QED
  BY <1>2, <1>3, <1>4

\* The element of the source from which a permutation takes an element of its
\* result: each axis of the source gets the digit it has in the result.
LEMMA SourceOf ==
  ASSUME NEW s, NEW o \in Orders, s.order = o,
         NEW d \in [1 .. 3 -> Pos], s.dims = <<d[1], d[2], d[3]>>,
         NEW y \in [1 .. 3 -> Nat], \A z \in 1 .. 3 : y[z] \in 0 .. d[z] - 1,
         NEW e, e = (y[o[1] + 1] * d[o[2] + 1] + y[o[2] + 1]) * d[o[3] + 1] + y[o[3] + 1]
  PROVE  PermuteSource(s, e) = (y[1] * d[2] + y[2]) * d[3] + y[3]
<1> DEFINE a == o[1] + 1  b == o[2] + 1  c == o[3] + 1
           da == d[a]  db == d[b]  dc == d[c]  ya == y[a]  yb == y[b]  yc == y[c]
<1>1. a \in 1 .. 3 /\ b \in 1 .. 3 /\ c \in 1 .. 3
  BY OrderAxes DEF Axes
<1>2. /\ da \in Pos /\ db \in Pos /\ dc \in Pos
      /\ ya \in 0 .. da - 1 /\ yb \in 0 .. db - 1 /\ yc \in 0 .. dc - 1
  BY <1>1
<1>3. e = (ya * db + yb) * dc + yc
  OBVIOUS
<1> HIDE DEF da, db, dc, ya, yb, yc
<1>4. e \div (db * dc) = ya /\ (e \div dc) % db = yb /\ e % dc = yc
  BY <1>2, <1>3, DigitsOfItem
<1> DEFINE D == [x \in 0 .. 2 |-> s.dims[x + 1]]
           O == [x \in 0 .. 2 |-> s.order[x + 1]]
           Y == [z \in 0 .. 2 |-> CASE z = O[0] -> e \div (D[O[1]] * D[O[2]])
                                    [] z = O[1] -> (e \div D[O[2]]) % D[O[1]]
                                    [] z = O[2] -> e % D[O[2]]]
<1>5. PermuteSource(s, e) = (Y[0] * D[1] + Y[1]) * D[2] + Y[2]
  BY DEF PermuteSource
<1>6. D[0] = d[1] /\ D[1] = d[2] /\ D[2] = d[3]
  OBVIOUS
<1>7. O[0] = o[1] /\ O[1] = o[2] /\ O[2] = o[3]
  OBVIOUS
<1>8. D[O[1]] = db /\ D[O[2]] = dc
  <2>1. \A x \in 0 .. 2 : D[x] = d[x + 1]
    BY <1>6
  <2>2. o[2] \in 0 .. 2 /\ o[3] \in 0 .. 2
    BY OrderAxes DEF Axes
  <2> QED
    BY <1>7, <2>1, <2>2 DEF db, dc
<1> HIDE DEF D, O
<1>9. \A z \in 0 .. 2 : Y[z] = CASE z = o[1] -> ya [] z = o[2] -> yb [] z = o[3] -> yc
  BY <1>4, <1>7, <1>8
<1> HIDE DEF Y
<1>10. Y[0] = y[1] /\ Y[1] = y[2] /\ Y[2] = y[3]
  <2>1. o[1] \in {0, 1, 2} /\ o[2] \in {0, 1, 2} /\ o[3] \in {0, 1, 2}
        /\ o[1] # o[2] /\ o[1] # o[3] /\ o[2] # o[3]
    BY OrderAxes DEF Axes
  <2>2. Y[o[1]] = y[o[1] + 1] /\ Y[o[2]] = y[o[2] + 1] /\ Y[o[3]] = y[o[3] + 1]
    BY <1>9, <2>1 DEF ya, yb, yc
  <2> QED
    BY <2>1, <2>2
<1> QED
  BY <1>5, <1>6, <1>10

\* A permutation of an array laid out as L into one laid out as M.
Reorders(s, L, M) ==
  /\ s.op = "perm" /\ s.loop \in {"none", "batch"}
  /\ L.form = M.form /\ Words(L.form) = 2 /\ L.done = M.done
  /\ L.order \in Orders /\ s.order \in Orders /\ M.order = Reordered(L.order, s.order)
  /\ s.dims = <<Extent(L.order[1], L.form), Extent(L.order[2], L.form),
                Extent(L.order[3], L.form)>>

LEMMA OrdersReordered ==
  ASSUME NEW o \in Orders, NEW x \in Orders
  PROVE  Reordered(o, x) \in Orders
BY DEF Reordered, Orders

LEMMA PermuteLaunched ==
  ASSUME Configured, NEW s, NEW L, NEW M, Reorders(s, L, M), Fitting(s, L, M),
         offset \in 0 .. Rounds(s) - 1,
         \A c \in Batch, i \in Index(L.form) : Due(s, c, i) => Has(mem[s.src], L, c, i)
  PROVE  \A c \in Batch, i \in Index(M.form) :
           Due(s, c, i) \/ Has(mem[s.dst], M, c, i) => Has(Permuted(s), M, c, i)
<1> DEFINE o == L.order  p == M.order  x == s.order  f == L.form
           d == [z \in 1 .. 3 |-> Extent(o[z], f)]  size == n0 * n1 * Width(f)
<1>1. /\ o \in Orders /\ x \in Orders /\ p = Reordered(o, x) /\ p \in Orders
      /\ M.form = f /\ Words(f) = 2 /\ s.dims = <<d[1], d[2], d[3]>>
  BY OrdersReordered DEF Reorders
<1>2. \A z \in 1 .. 3 : d[z] \in Pos /\ o[z] \in Axes
  <2>1. \A z \in 1 .. 3 : o[z] \in Axes
    BY <1>1, OrderAxes
  <2> QED
    BY <2>1, Extents
<1>3. size \in Pos /\ s.dims[1] * s.dims[2] * s.dims[3] = size
  BY <1>1, OrderSize
<1>4. ASSUME NEW c \in Batch, NEW i
      PROVE  c \in Items(s) <=> Due(s, c, i)
  <2>1. c \in Nat /\ c < cfg.batch /\ cfg.batch \in Pos /\ cfg.chunk \in Pos
    BY Shapes DEF Batch, Pos
  <2>2. s.loop \in {"none", "batch"}
    BY DEF Reorders
  <2>3. CASE s.loop = "none"
    <3>1. offset = 0
      BY <2>3 DEF Rounds
    <3>2. Turn(s, c, i) = 0 /\ Stride(s) = 1
      BY <2>3 DEF Turn, Stride
    <3>3. c \in Items(s)
      BY <2>3 DEF Items, Batch
    <3> QED
      BY <3>1, <3>2, <3>3 DEF Due
  <2>4. CASE s.loop = "batch"
    <3>1. Turn(s, c, i) = c /\ Stride(s) = cfg.chunk
      BY <2>4 DEF Turn, Stride
    <3>2. Items(s) = offset .. Least(offset + cfg.chunk, cfg.batch) - 1
      BY <2>4 DEF Items
    <3>3. offset \in Nat
      BY <2>1, <2>4 DEF Rounds, Pos
    <3> QED
      BY <2>1, <3>1, <3>2, <3>3 DEF Due, Least, Pos
  <2> QED
    BY <2>2, <2>3, <2>4
<1>5. ASSUME NEW c \in Batch, NEW i \in Index(f), NEW q \in Parts(f)
      PROVE  LET w == WordOf(p, f, c, i, q)
             IN  /\ w \in DOMAIN mem[s.dst] /\ w \div (2 * size) = c
                 /\ 2 * (c * size + PermuteSource(s, (w \div 2) % size)) + (w % 2)
                      = WordOf(o, f, c, i, q)
  <2> DEFINE w == WordOf(p, f, c, i, q)  a == AddrOf(p, f, c, i)  e == a % size
             y == [z \in 1 .. 3 |-> i[o[z] + 1]]
  <2>1. w \in DOMAIN mem[s.dst]
    BY <1>1, WordInside DEF Fitting
  <2>2. a \in Nat /\ w \div 2 = a /\ w % 2 = q /\ a \div size = c /\ c \in Nat
        /\ q \in {0, 1} /\ w = 2 * a + q
    <3>1. Elements(f) \in Nat /\ a \in 0 .. Elements(f) - 1
      BY <1>1, AddressDigits, FormSizes DEF Pos
    <3>2. cfg.batch \in Nat
      BY Shapes DEF Pos
    <3> QED
      BY <1>1, <3>1, <3>2, WordDigits, AddressDigits DEF Parts, Batch, WordOf
  <2>3. \A z \in 1 .. 3 : y[z] \in 0 .. d[z] - 1
    BY <1>2, Coordinates
  <2>4. y \in [1 .. 3 -> Nat] /\ d \in [1 .. 3 -> Pos]
    BY <1>2, <2>3
  <2>5. e = (y[x[1] + 1] * d[x[2] + 1] + y[x[2] + 1]) * d[x[3] + 1] + y[x[3] + 1]
    <3>1. x[1] + 1 \in 1 .. 3 /\ x[2] + 1 \in 1 .. 3 /\ x[3] + 1 \in 1 .. 3
      BY <1>1, OrderAxes DEF Axes
    <3>2. p[1] = o[x[1] + 1] /\ p[2] = o[x[2] + 1] /\ p[3] = o[x[3] + 1]
      BY <1>1 DEF Reordered
    <3>3. e = (i[p[1] + 1] * Extent(p[2], f) + i[p[2] + 1]) * Extent(p[3], f) + i[p[3] + 1]
      BY <1>1, AddressDigits
    <3> QED
      BY <3>1, <3>2, <3>3
  <2>6. AddrOf(o, f, c, i) = c * size + ((y[1] * d[2] + y[2]) * d[3] + y[3])
    <3> DEFINE b == AddrOf(o, f, c, i)
    <3>1. b \in Nat /\ b \div size = c
      <4>1. Elements(f) \in Nat /\ b \in 0 .. Elements(f) - 1
        BY <1>1, AddressDigits, FormSizes DEF Pos
      <4> QED
        BY <1>1, <4>1, AddressDigits
    <3>2. b % size = (y[1] * d[2] + y[2]) * d[3] + y[3]
      BY <1>1, AddressDigits
    <3> HIDE DEF b, y, d, size
    <3>3. b = c * size + (b % size)
      BY <1>3, <3>1, Division
    <3> QED
      BY <3>2, <3>3 DEF b
  <2> HIDE DEF y, d, e
  <2>7. PermuteSource(s, e) = (y[1] * d[2] + y[2]) * d[3] + y[3]
    BY <1>1, <2>3, <2>4, <2>5, SourceOf
  <2>8. w \div (2 * size) = c
    <3> HIDE DEF w, a, size
    <3>1. (2 * a + q) \div (2 * size) = a \div size
      <4>1. a = (a \div size) * size + (a % size) /\ a % size \in 0 .. size - 1
            /\ a \div size \in Nat
        BY <1>3, <2>2, Division
      <4> DEFINE u == a \div size  v == a % size
      <4>2. u \in Nat /\ v \in 0 .. size - 1 /\ a = u * size + v
        BY <4>1
      <4> HIDE DEF u, v
      <4>3. 2 * a + q = u * (2 * size) + (2 * v + q)
        BY <1>3, <2>2, <4>2 DEF Pos
      <4>4. 2 * v + q \in 0 .. 2 * size - 1 /\ 2 * size \in Pos
        BY <1>3, <2>2, <4>2 DEF Pos
      <4> DEFINE g == 2 * size  h == 2 * v + q
      <4>5. g \in Pos /\ h \in 0 .. g - 1 /\ 2 * a + q = u * g + h
        BY <4>3, <4>4
      <4> HIDE DEF g, h
      <4>6. (2 * a + q) \div g = u
        BY <4>2, <4>5, Digits
      <4> QED
        BY <4>6 DEF g, u
    <3> QED
      BY <2>2, <3>1
  <2>9. 2 * (c * size + PermuteSource(s, e)) + (w % 2) = WordOf(o, f, c, i, q)
    <3>1. WordOf(o, f, c, i, q) = 2 * AddrOf(o, f, c, i) + q
      BY <1>1 DEF WordOf
    <3> QED
      BY <2>2, <2>6, <2>7, <3>1
  <2>10. (w \div 2) % size = e
    BY <2>2 DEF e
  <2> QED
    BY <2>1, <2>8, <2>9, <2>10
<1>6. ASSUME NEW c \in Batch, NEW i \in Index(f), NEW q \in Parts(f)
      PROVE  Permuted(s)[WordOf(p, f, c, i, q)]
               = IF Due(s, c, i) THEN mem[s.src][WordOf(o, f, c, i, q)]
                 ELSE mem[s.dst][WordOf(p, f, c, i, q)]
  <2> DEFINE w == WordOf(p, f, c, i, q)
  <2>1. /\ w \in DOMAIN mem[s.dst] /\ w \div (2 * size) = c
        /\ 2 * (c * size + PermuteSource(s, (w \div 2) % size)) + (w % 2)
             = WordOf(o, f, c, i, q)
    BY <1>5
  <2>2. WordOf(o, f, c, i, q) \in DOMAIN mem[s.src]
    BY <1>1, WordInside DEF Fitting
  <2> HIDE DEF w, size
  <2>3. Permuted(s)[w]
          = IF c \notin Items(s) THEN mem[s.dst][w]
            ELSE Load(s.src, WordOf(o, f, c, i, q))
    BY <1>3, <2>1 DEF Permuted
  <2> QED
    BY <1>4, <2>2, <2>3 DEF Load, w
<1>7. ASSUME NEW c \in Batch, NEW i \in Index(f)
      PROVE  Due(s, c, i) \/ Has(mem[s.dst], M, c, i) => Has(Permuted(s), M, c, i)
  <2>1. CASE Due(s, c, i)
    <3>1. Has(mem[s.src], L, c, i)
      BY <2>1
    <3>2. \A q \in Parts(f) : Permuted(s)[WordOf(p, f, c, i, q)] = Cell(c, i, L.done, f, q)
      BY <1>6, <2>1, <3>1 DEF Has
    <3> QED
      BY <1>1, <3>2 DEF Has, Reorders
  <2>2. CASE ~Due(s, c, i)
    <3>1. \A q \in Parts(f) :
            Permuted(s)[WordOf(p, f, c, i, q)] = mem[s.dst][WordOf(p, f, c, i, q)]
      BY <1>6, <2>2
    <3> QED
      BY <1>1, <2>2, <3>1 DEF Has
  <2> QED
    BY <2>1, <2>2
<1> QED
  BY <1>1, <1>7

-----------------------------------------------------------------------------
(* A step takes an array from one layout to the next.                       *)

\* How the rows of lines along axis a are spread over launches.
Looped(s, a, u, v, f) ==
  \/ s.loop = "none"
  \/ s.loop = "columns" /\ s.span \in Pos
  \/ InChunks(s) /\ a = 2 /\ u = 0 /\ v = 1
  \/ ItemByItem(s) /\ s.span = Extent(u, f) * Extent(v, f)

AxisTaken(s, L, M) ==
  \E a, u, v \in Axes : AlongAxis(s, L, M, a, u, v) /\ Looped(s, a, u, v, L.form)

WholeTaken(s, L, M) ==
  /\ s.axes \in {<<1, 2>>, <<0, 1, 2>>}
  /\ s.loop = "none" /\ s.load = "rows" /\ s.store = "rows"
  /\ L.order = Straight /\ M.order = Straight

Takes(s, L, M) ==
  /\ s.src = L.buf /\ s.dst = M.buf
  /\ RoomFor(L.buf, L.form) /\ RoomFor(M.buf, M.form)
  /\ L.order \in Orders /\ M.order \in Orders
  /\ s.loop \notin {"none", "columns"} => L.buf # M.buf
  /\ s.loop = "item" => L.form = M.form
  /\ \/ Reorders(s, L, M)
     \/ /\ s.op = "lines" /\ Transforms(s, L, M)
        /\ AxisTaken(s, L, M) \/ WholeTaken(s, L, M)

LEMMA TakenRows ==
  ASSUME Configured, NEW s, NEW L, NEW M, s.op = "lines", Transforms(s, L, M),
         L.order \in Orders, M.order \in Orders,
         AxisTaken(s, L, M) \/ WholeTaken(s, L, M), offset \in 0 .. Rounds(s) - 1
  PROVE  Rowed(s, L, M) /\ s.axes \in AxisLists
<1>1. CASE AxisTaken(s, L, M)
  <2>1. PICK a \in Axes, u \in Axes, v \in Axes :
          AlongAxis(s, L, M, a, u, v) /\ Looped(s, a, u, v, L.form)
    BY <1>1 DEF AxisTaken
  <2>2. s.axes \in AxisLists
    BY <2>1 DEF AlongAxis, Axes, AxisLists
  <2>3. CASE s.loop = "none" \/ (s.loop = "columns" /\ s.span \in Pos)
    <3>1. offset = 0 /\ 0 \in Nat
      BY <2>3 DEF Rounds
    <3>2. Numbered(s, L, M, a, u, v, 0)
      BY <2>1, <2>3, <3>1, WholeNumbered
    <3> QED
      BY <2>1, <2>2, <3>1, <3>2, OnRows
  <2>4. CASE InChunks(s) /\ a = 2 /\ u = 0 /\ v = 1
    <3>1. RowCount(s) \in Pos
      BY <2>1, AxisRows
    <3>2. offset \in 0 .. RowCount(s) - 1 /\ offset \in Nat
      BY <2>4, <3>1 DEF Rounds, InChunks, Pos
    <3>3. AlongAxis(s, L, M, 2, 0, 1) /\ Numbered(s, L, M, 2, 0, 1, offset)
      BY <2>1, <2>4, <3>2, ChunkNumbered
    <3> QED
      BY <2>2, <3>2, <3>3, OnRows
  <2>5. CASE ItemByItem(s) /\ s.span = Extent(u, L.form) * Extent(v, L.form)
    <3>1. offset \in 0 .. cfg.batch - 1 /\ offset \in Nat
      BY <2>5, Shapes DEF Rounds, ItemByItem, Pos
    <3>2. Numbered(s, L, M, a, u, v, offset * s.span)
      BY <2>1, <2>5, <3>1, ItemNumbered
    <3>3. offset * s.span \in Nat
      <4>1. s.span \in Nat
        <5>1. Extent(u, L.form) \in Pos /\ Extent(v, L.form) \in Pos
          BY Extents
        <5> QED
          BY <2>5, <5>1, Products DEF Pos
      <4> QED
        BY <3>1, <4>1
    <3> QED
      BY <2>1, <2>2, <3>2, <3>3, OnRows
  <2> QED
    BY <2>1, <2>3, <2>4, <2>5 DEF Looped
<1>2. CASE WholeTaken(s, L, M)
  <2>1. offset = 0 /\ s.from = L.form /\ s.to = M.form
    BY <1>2 DEF WholeTaken, Rounds, Transforms
  <2>2. /\ s.axes \in {<<1, 2>>, <<0, 1, 2>>}
        /\ s.loop = "none" /\ s.load = "rows" /\ s.store = "rows"
        /\ L.order = Straight /\ M.order = Straight
    BY <1>2 DEF WholeTaken
  <2>3. s.axes \in AxisLists
    BY <2>2 DEF AxisLists
  <2> QED
    BY <2>1, <2>2, <2>3, OnPlanes, OnCubes
<1> QED
  BY <1>1, <1>2

\* What a launch leaves in its destination.
Stored(s) == IF s.op = "lines" THEN LinesStored(s) ELSE Permuted(s)

LEMMA StepTaken ==
  ASSUME Configured, NEW s, NEW L, NEW M, Takes(s, L, M),
         \A b \in Buffers : DOMAIN mem[b] = 0 .. Size(b) - 1,
         offset \in 0 .. Rounds(s) - 1,
         \A c \in Batch, i \in Index(L.form) : Due(s, c, i) => Has(mem[L.buf], L, c, i)
  PROVE  /\ \A c \in Batch, i \in Index(M.form) :
              Due(s, c, i) \/ Has(mem[M.buf], M, c, i) => Has(Stored(s), M, c, i)
         /\ s.op = "lines" =>
              \A N : \A c \in Batch, i \in Index(M.form) :
                /\ N.order \in Orders /\ N.form = M.form
                /\ \A j \in Index(M.form) : ~Due(s, c, j)
                /\ Has(mem[M.buf], N, c, i)
                => Has(Stored(s), N, c, i)
<1>1. s.src = L.buf /\ s.dst = M.buf /\ L.order \in Orders /\ M.order \in Orders
  BY DEF Takes
<1>2. Fitting(s, L, M)
  BY <1>1 DEF Takes, Fitting, RoomFor
<1>3. \A c \in Batch, i \in Index(L.form) : Due(s, c, i) => Has(mem[s.src], L, c, i)
  BY <1>1
<1>4. CASE s.op = "lines"
  <2>1. Transforms(s, L, M) /\ (AxisTaken(s, L, M) \/ WholeTaken(s, L, M))
    BY <1>4 DEF Takes, Reorders
  <2>2. Rowed(s, L, M) /\ s.axes \in AxisLists
    BY <1>1, <1>4, <2>1, TakenRows
  <2>3. Stored(s) = LinesStored(s)
    BY <1>4 DEF Stored
  <2>4. /\ \A c \in Batch, j \in Index(M.form) :
             Due(s, c, j) \/ Has(mem[s.dst], M, c, j) => Has(LinesStored(s), M, c, j)
        /\ \A N : \A c \in Batch, i \in Index(M.form) :
             /\ N.order \in Orders /\ N.form = M.form
             /\ \A j \in Index(M.form) : ~Due(s, c, j)
             /\ Has(mem[s.dst], N, c, i)
             => Has(LinesStored(s), N, c, i)
    BY <1>2, <1>3, <2>1, <2>2, LinesLaunched
  <2> QED
    BY <1>1, <2>3, <2>4
<1>5. CASE s.op # "lines"
  <2>1. Reorders(s, L, M)
    BY <1>5 DEF Takes
  <2>2. Stored(s) = Permuted(s)
    BY <1>5 DEF Stored
  <2>3. \A c \in Batch, i \in Index(M.form) :
          Due(s, c, i) \/ Has(mem[s.dst], M, c, i) => Has(Permuted(s), M, c, i)
    BY <1>2, <1>3, <2>1, PermuteLaunched
  <2> QED
    BY <1>1, <1>5, <2>2, <2>3
<1> QED
  BY <1>4, <1>5

-----------------------------------------------------------------------------
(* What the steps of the programs take, and to what.                        *)

\* An array of the given form whose axes lie in order o, transformed along the
\* axes in S.
At(b, o, f, S) == Layout(b, o, f, Nontrivial(S))

LEMMA MarksJoin ==
  ASSUME NEW S \in SUBSET Axes, NEW T \in SUBSET Axes
  PROVE  /\ Nontrivial(S \cup T) = Nontrivial(S) \cup Nontrivial(T)
         /\ S \subseteq T => Nontrivial(S) \subseteq Nontrivial(T)
         /\ S \cap T = {} => Nontrivial(S) \cap T = {}
BY DEF Nontrivial

LEMMA OverOne ==
  ASSUME NEW s, NEW a, s.axes = <<a>>
  PROVE  Over(s) = {a}
BY DEF Over

\* A step that takes lines along axis a from an array in order o, transformed
\* along S, to one in order p, transformed along Z.
AxisStep(s, a, u, v, o, p, S, Z) ==
  /\ a \in Axes /\ u \in Axes /\ v \in Axes /\ a # u /\ a # v /\ u # v
  /\ s.op = "lines" /\ s.axes = <<a>> /\ Looped(s, a, u, v, s.from)
  /\ Between(s.src, s.from, s.dst, s.to) /\ (a # 2 => Width(s.from) = Width(s.to))
  /\ o \in Orders /\ Lies(s.load, s.span, a, u, v, s.from, o)
  /\ p \in Orders /\ Lies(s.store, s.span, a, u, v, s.to, p)
  /\ S \in SUBSET Axes /\ Z \in SUBSET Axes
  /\ (s.done /\ a \notin S /\ Z = S \cup {a}) \/ (~s.done /\ Z = S)
  /\ s.from = "half" /\ s.to # "half" => Nontrivial({0, 1} \ {a}) \subseteq Nontrivial(S)
  /\ InPlaceSafe(s) /\ (s.loop \notin {"none", "columns"} => s.src # s.dst)
  /\ s.loop = "item" => s.from = s.to

LEMMA AxisTakes ==
  ASSUME Configured, NEW s, NEW a, NEW u, NEW v, NEW o, NEW p, NEW S, NEW Z,
         AxisStep(s, a, u, v, o, p, S, Z)
  PROVE  Takes(s, At(s.src, o, s.from, S), At(s.dst, p, s.to, Z))
<1> DEFINE L == At(s.src, o, s.from, S)  M == At(s.dst, p, s.to, Z)
<1>1. /\ L.buf = s.src /\ L.order = o /\ L.form = s.from /\ L.done = Nontrivial(S)
      /\ M.buf = s.dst /\ M.order = p /\ M.form = s.to /\ M.done = Nontrivial(Z)
  BY DEF At, Layout
<1> HIDE DEF L, M
<1>2. s.axes = <<a>> /\ Over(s) = {a} /\ S \in SUBSET Axes /\ a \in Axes
  BY OverOne DEF AxisStep
<1>3. AlongAxis(s, L, M, a, u, v)
  BY <1>1 DEF AlongAxis, AxisStep
<1>4. AxisTaken(s, L, M)
  BY <1>1, <1>3 DEF AxisTaken, AxisStep
<1>5. s.done => L.done \cap Over(s) = {}
  <2>1. ASSUME s.done PROVE a \notin Nontrivial(S)
    BY <2>1 DEF Nontrivial, AxisStep
  <2> QED
    BY <1>1, <1>2, <2>1
<1>6. M.done = L.done \cup Marks(s)
  <2>1. CASE s.done /\ Z = S \cup {a}
    <3>1. Nontrivial(S \cup {a}) = Nontrivial(S) \cup Nontrivial({a})
      BY <1>2, MarksJoin
    <3> QED
      BY <1>1, <1>2, <2>1, <3>1 DEF Marks
  <2>2. CASE ~s.done /\ Z = S
    BY <1>1, <2>2 DEF Marks
  <2> QED
    BY <2>1, <2>2 DEF AxisStep
<1>7. Transforms(s, L, M)
  BY <1>1, <1>2, <1>5, <1>6 DEF Transforms, AxisStep
<1>8. Takes(s, L, M)
  BY <1>1, <1>4, <1>7 DEF Takes, Between, AxisStep
<1> QED
  BY <1>8 DEF L, M

LEMMA AxesOrders ==
  /\ 0 \in Axes /\ 1 \in Axes /\ 2 \in Axes
  /\ Straight = <<0, 1, 2>>
  /\ <<0, 1, 2>> \in Orders /\ <<0, 2, 1>> \in Orders /\ <<1, 0, 2>> \in Orders
  /\ <<1, 2, 0>> \in Orders /\ <<2, 0, 1>> \in Orders /\ <<2, 1, 0>> \in Orders
BY DEF Axes, Orders, Straight

-----------------------------------------------------------------------------
\* A kernel on lines of the inner form.
LeafStep(s, src, dst, a, u, v, o, p, S) ==
  /\ a \in Axes /\ u \in Axes /\ v \in Axes /\ a # u /\ a # v /\ u # v
  /\ Between(src, Inner, dst, Inner) /\ s.src = src /\ s.dst = dst
  /\ s.op = "lines" /\ s.axes = <<a>> /\ s.done /\ s.from = Inner /\ s.to = Inner
  /\ Looped(s, a, u, v, Inner)
  /\ o \in Orders /\ Lies(s.load, s.span, a, u, v, Inner, o)
  /\ p \in Orders /\ Lies(s.store, s.span, a, u, v, Inner, p)
  /\ S \in SUBSET Axes /\ a \notin S /\ (src # dst \/ s.load = s.store)
  /\ s.loop \notin {"none", "columns"} => src # dst

LEMMA LeafTakes ==
  ASSUME Configured, NEW s, NEW src, NEW dst, NEW a, NEW u, NEW v, NEW o, NEW p, NEW S,
         LeafStep(s, src, dst, a, u, v, o, p, S)
  PROVE  Takes(s, At(src, o, Inner, S), At(dst, p, Inner, S \cup {a}))
<1>1. InPlaceSafe(s)
  BY DEF InPlaceSafe, LeafStep
<1>2. AxisStep(s, a, u, v, o, p, S, S \cup {a})
  BY <1>1 DEF AxisStep, LeafStep
<1>3. Takes(s, At(s.src, o, s.from, S), At(s.dst, p, s.to, S \cup {a}))
  BY <1>2, AxisTakes
<1> QED
  BY <1>3 DEF LeafStep

\* Rows that cross the real boundary.
LEMMA BoundaryTakes ==
  ASSUME Configured, NEW src, NEW dst, NEW from, NEW to, Between(src, from, dst, to),
         NEW load, NEW store, NEW span,
         Lies(load, span, 2, 0, 1, from, Straight),
         NEW p \in Orders, Lies(store, span, 2, 0, 1, to, p),
         NEW S \in SUBSET Axes, 2 \notin S, NEW Z, Z = S \cup {2},
         from = "half" /\ to # "half" => Nontrivial({0, 1}) \subseteq Nontrivial(S),
         \/ src # dst
         \/ load = store /\ from = to
         \/ load = "padded" \/ store = "padded",
         NEW s, s = Step(<< 2 >>, from, to, load, store, span, src, dst)
  PROVE  Takes(s, At(src, Straight, from, S), At(dst, p, to, Z))
<1>1. /\ s.op = "lines" /\ s.axes = <<2>> /\ s.done /\ s.from = from /\ s.to = to
      /\ s.load = load /\ s.store = store /\ s.span = span /\ s.src = src /\ s.dst = dst
      /\ s.loop = "none"
  BY DEF Step
<1>2. Looped(s, 2, 0, 1, from)
  BY <1>1 DEF Looped
<1>3. InPlaceSafe(s) /\ Z \in SUBSET Axes /\ Straight \in Orders /\ 0 \in Axes /\ 1 \in Axes /\ 2 \in Axes
  BY <1>1, AxesOrders DEF InPlaceSafe, Axes
<1>4. /\ Lies(s.load, s.span, 2, 0, 1, s.from, Straight) /\ Lies(s.store, s.span, 2, 0, 1, s.to, p)
      /\ Looped(s, 2, 0, 1, s.from) /\ Between(s.src, s.from, s.dst, s.to)
      /\ (s.done /\ 2 \notin S /\ Z = S \cup {2}) \/ (~s.done /\ Z = S)
  BY <1>1, <1>2
<1>5. {0, 1} \ {2} = {0, 1}
  OBVIOUS
<1>6. /\ s.from = "half" /\ s.to # "half" => Nontrivial({0, 1} \ {2}) \subseteq Nontrivial(S)
      /\ s.loop \notin {"none", "columns"} => s.src # s.dst
      /\ s.loop = "item" => s.from = s.to
  BY <1>1, <1>5
<1>7. AxisStep(s, 2, 0, 1, Straight, p, S, Z)
  BY <1>1, <1>3, <1>4, <1>6 DEF AxisStep
<1>8. Takes(s, At(s.src, Straight, s.from, S), At(s.dst, p, s.to, Z))
  BY <1>7, AxisTakes
<1> QED
  BY <1>1, <1>8

\* Rows that only change their form, chunk by chunk.
LEMMA ReformTakes ==
  ASSUME Configured, NEW src, NEW dst, NEW from, NEW to, Between(src, from, dst, to), src # dst,
         NEW x, NEW y, x = Words(from) * Width(from), y = Words(to) * Width(to),
         NEW S \in SUBSET Axes,
         from = "half" /\ to # "half" => Nontrivial({0, 1}) \subseteq Nontrivial(S)
  PROVE  Takes(Reform(from, to, src, dst, x, y),
               At(src, Straight, from, S), At(dst, Straight, to, S))
<1> DEFINE s == Reform(from, to, src, dst, x, y)
<1>1. /\ s.op = "lines" /\ s.axes = <<2>> /\ ~s.done /\ s.from = from /\ s.to = to
      /\ s.load = "rows" /\ s.store = "rows" /\ s.src = src /\ s.dst = dst
      /\ s.loop = "rows" /\ s.perRow = <<x, y>>
  BY DEF Reform, Step
<1> HIDE DEF s
<1>2. Length(s, s.from) = Width(from) /\ Length(s, s.to) = Width(to)
  BY <1>1, LineCounts
<1>3. Looped(s, 2, 0, 1, from)
  BY <1>1, <1>2 DEF Looped, InChunks
<1>4. InPlaceSafe(s) /\ Straight \in Orders /\ 0 \in Axes /\ 1 \in Axes /\ 2 \in Axes
  BY <1>1, AxesOrders DEF InPlaceSafe, Axes
<1>5. Lies("rows", s.span, 2, 0, 1, from, Straight) /\ Lies("rows", s.span, 2, 0, 1, to, Straight)
  BY DEF Lies, Straight
<1>6. /\ Lies(s.load, s.span, 2, 0, 1, s.from, Straight)
      /\ Lies(s.store, s.span, 2, 0, 1, s.to, Straight)
      /\ Looped(s, 2, 0, 1, s.from) /\ Between(s.src, s.from, s.dst, s.to)
      /\ (s.done /\ 2 \notin S /\ S = S \cup {2}) \/ (~s.done /\ S = S)
  BY <1>1, <1>3, <1>5
<1>7. {0, 1} \ {2} = {0, 1}
  OBVIOUS
<1>8. /\ s.from = "half" /\ s.to # "half" => Nontrivial({0, 1} \ {2}) \subseteq Nontrivial(S)
      /\ s.loop \notin {"none", "columns"} => s.src # s.dst
      /\ s.loop = "item" => s.from = s.to
  BY <1>1, <1>7
<1>9. AxisStep(s, 2, 0, 1, Straight, Straight, S, S)
  BY <1>1, <1>4, <1>6, <1>8 DEF AxisStep
<1>10. Takes(s, At(s.src, Straight, s.from, S), At(s.dst, Straight, s.to, S))
  BY <1>9, AxisTakes
<1> QED
  BY <1>1, <1>10 DEF s

LEMMA Ways ==
  ASSUME Configured
  PROVE  /\ Extent(0, Inner) = n0 /\ Extent(1, Inner) = n1 /\ Extent(2, Inner) = Width(Inner)
         /\ n0 \in Pos /\ n1 \in Pos /\ Width(Inner) \in Pos
         /\ n1 * Width(Inner) \in Pos /\ n0 * Width(Inner) \in Pos
         /\ n0 * Width(Inner) = Width(Inner) * n0
         /\ cfg.type # "c2c" => Width(Inner) = half
         /\ cfg.type = "c2c" => Width(Inner) = n2
<1>1. /\ Extent(0, Inner) = n0 /\ Extent(1, Inner) = n1 /\ Extent(2, Inner) = Width(Inner)
      /\ n0 \in Pos /\ n1 \in Pos /\ Width(Inner) \in Pos
  BY Extents
<1>2. n1 * Width(Inner) \in Pos /\ n0 * Width(Inner) \in Pos /\ n0 * Width(Inner) = Width(Inner) * n0
  BY <1>1, Products DEF Pos
<1> QED
  BY <1>1, <1>2, Widths

\* Contiguous rows.
LEMMA RowsTake ==
  ASSUME Configured, NEW src, NEW dst, Between(src, Inner, dst, Inner), NEW S \in SUBSET Axes
  PROVE  /\ 2 \notin S =>
              Takes(Rows(2, src, dst), At(src, <<0, 1, 2>>, Inner, S),
                    At(dst, <<0, 1, 2>>, Inner, S \cup {2}))
         /\ 1 \notin S =>
              Takes(Rows(1, src, dst), At(src, <<0, 2, 1>>, Inner, S),
                    At(dst, <<0, 2, 1>>, Inner, S \cup {1}))
         /\ 1 \notin S /\ Width(Inner) = 1 =>
              Takes(Rows(1, src, dst), At(src, <<0, 1, 2>>, Inner, S),
                    At(dst, <<0, 1, 2>>, Inner, S \cup {1}))
         /\ 0 \notin S =>
              Takes(Rows(0, src, dst), At(src, <<1, 2, 0>>, Inner, S),
                    At(dst, <<1, 2, 0>>, Inner, S \cup {0}))
         /\ 0 \notin S =>
              Takes(Rows(0, src, dst), At(src, <<2, 1, 0>>, Inner, S),
                    At(dst, <<2, 1, 0>>, Inner, S \cup {0}))
<1>1. ASSUME 2 \notin S
      PROVE  Takes(Rows(2, src, dst), At(src, <<0, 1, 2>>, Inner, S),
                   At(dst, <<0, 1, 2>>, Inner, S \cup {2}))
  <2> DEFINE s == Rows(2, src, dst)
  <2>1. /\ s.src = src /\ s.dst = dst /\ s.op = "lines" /\ s.axes = << 2 >> /\ s.done
        /\ s.from = Inner /\ s.to = Inner 
        /\ s.load = "rows" /\ s.store = "rows" /\ s.loop = "none"
    BY DEF Rows, Step
  <2> HIDE DEF s
  <2>2. /\ Lies(s.load, s.span, 2, 0, 1, Inner, <<0, 1, 2>>)
        /\ Lies(s.store, s.span, 2, 0, 1, Inner, <<0, 1, 2>>)
        /\ Looped(s, 2, 0, 1, Inner)
    BY <1>1, <2>1, Ways DEF Lies, Looped
  <2>3. LeafStep(s, src, dst, 2, 0, 1, <<0, 1, 2>>, <<0, 1, 2>>, S)
    BY <1>1, <2>1, <2>2, AxesOrders DEF LeafStep
  <2> QED
    BY <2>3, LeafTakes DEF s
<1>2. ASSUME 1 \notin S
      PROVE  Takes(Rows(1, src, dst), At(src, <<0, 2, 1>>, Inner, S),
                   At(dst, <<0, 2, 1>>, Inner, S \cup {1}))
  <2> DEFINE s == Rows(1, src, dst)
  <2>1. /\ s.src = src /\ s.dst = dst /\ s.op = "lines" /\ s.axes = << 1 >> /\ s.done
        /\ s.from = Inner /\ s.to = Inner 
        /\ s.load = "rows" /\ s.store = "rows" /\ s.loop = "none"
    BY DEF Rows, Step
  <2> HIDE DEF s
  <2>2. /\ Lies(s.load, s.span, 1, 0, 2, Inner, <<0, 2, 1>>)
        /\ Lies(s.store, s.span, 1, 0, 2, Inner, <<0, 2, 1>>)
        /\ Looped(s, 1, 0, 2, Inner)
    BY <1>2, <2>1, Ways DEF Lies, Looped
  <2>3. LeafStep(s, src, dst, 1, 0, 2, <<0, 2, 1>>, <<0, 2, 1>>, S)
    BY <1>2, <2>1, <2>2, AxesOrders DEF LeafStep
  <2> QED
    BY <2>3, LeafTakes DEF s
<1>3. ASSUME 1 \notin S /\ Width(Inner) = 1
      PROVE  Takes(Rows(1, src, dst), At(src, <<0, 1, 2>>, Inner, S),
                   At(dst, <<0, 1, 2>>, Inner, S \cup {1}))
  <2> DEFINE s == Rows(1, src, dst)
  <2>1. /\ s.src = src /\ s.dst = dst /\ s.op = "lines" /\ s.axes = << 1 >> /\ s.done
        /\ s.from = Inner /\ s.to = Inner 
        /\ s.load = "rows" /\ s.store = "rows" /\ s.loop = "none"
    BY DEF Rows, Step
  <2> HIDE DEF s
  <2>2. /\ Lies(s.load, s.span, 1, 0, 2, Inner, <<0, 1, 2>>)
        /\ Lies(s.store, s.span, 1, 0, 2, Inner, <<0, 1, 2>>)
        /\ Looped(s, 1, 0, 2, Inner)
    BY <1>3, <2>1, Ways DEF Lies, Looped
  <2>3. LeafStep(s, src, dst, 1, 0, 2, <<0, 1, 2>>, <<0, 1, 2>>, S)
    BY <1>3, <2>1, <2>2, AxesOrders DEF LeafStep
  <2> QED
    BY <2>3, LeafTakes DEF s
<1>4. ASSUME 0 \notin S
      PROVE  Takes(Rows(0, src, dst), At(src, <<1, 2, 0>>, Inner, S),
                   At(dst, <<1, 2, 0>>, Inner, S \cup {0}))
  <2> DEFINE s == Rows(0, src, dst)
  <2>1. /\ s.src = src /\ s.dst = dst /\ s.op = "lines" /\ s.axes = << 0 >> /\ s.done
        /\ s.from = Inner /\ s.to = Inner 
        /\ s.load = "rows" /\ s.store = "rows" /\ s.loop = "none"
    BY DEF Rows, Step
  <2> HIDE DEF s
  <2>2. /\ Lies(s.load, s.span, 0, 1, 2, Inner, <<1, 2, 0>>)
        /\ Lies(s.store, s.span, 0, 1, 2, Inner, <<1, 2, 0>>)
        /\ Looped(s, 0, 1, 2, Inner)
    BY <1>4, <2>1, Ways DEF Lies, Looped
  <2>3. LeafStep(s, src, dst, 0, 1, 2, <<1, 2, 0>>, <<1, 2, 0>>, S)
    BY <1>4, <2>1, <2>2, AxesOrders DEF LeafStep
  <2> QED
    BY <2>3, LeafTakes DEF s
<1>5. ASSUME 0 \notin S
      PROVE  Takes(Rows(0, src, dst), At(src, <<2, 1, 0>>, Inner, S),
                   At(dst, <<2, 1, 0>>, Inner, S \cup {0}))
  <2> DEFINE s == Rows(0, src, dst)
  <2>1. /\ s.src = src /\ s.dst = dst /\ s.op = "lines" /\ s.axes = << 0 >> /\ s.done
        /\ s.from = Inner /\ s.to = Inner 
        /\ s.load = "rows" /\ s.store = "rows" /\ s.loop = "none"
    BY DEF Rows, Step
  <2> HIDE DEF s
  <2>2. /\ Lies(s.load, s.span, 0, 2, 1, Inner, <<2, 1, 0>>)
        /\ Lies(s.store, s.span, 0, 2, 1, Inner, <<2, 1, 0>>)
        /\ Looped(s, 0, 2, 1, Inner)
    BY <1>5, <2>1, Ways DEF Lies, Looped
  <2>3. LeafStep(s, src, dst, 0, 2, 1, <<2, 1, 0>>, <<2, 1, 0>>, S)
    BY <1>5, <2>1, <2>2, AxesOrders DEF LeafStep
  <2> QED
    BY <2>3, LeafTakes DEF s
<1> QED
  BY <1>1, <1>2, <1>3, <1>4, <1>5

\* Lines in columns, and stores that permute.
LEMMA SpansTake ==
  ASSUME Configured, NEW src, NEW dst, Between(src, Inner, dst, Inner), NEW S \in SUBSET Axes,
         NEW w, w = Width(Inner)
  PROVE  /\ 1 \notin S =>
              Takes(Lines(1, w, src, dst), At(src, <<0, 1, 2>>, Inner, S),
                    At(dst, <<0, 1, 2>>, Inner, S \cup {1}))
         /\ 2 \notin S /\ src # dst =>
              Takes(OuterStore(2, n1, src, dst), At(src, <<0, 1, 2>>, Inner, S),
                    At(dst, <<0, 2, 1>>, Inner, S \cup {2}))
         /\ 1 \notin S /\ src # dst =>
              Takes(OuterStore(1, w, src, dst), At(src, <<0, 2, 1>>, Inner, S),
                    At(dst, <<0, 1, 2>>, Inner, S \cup {1}))
         /\ 1 \notin S /\ src # dst /\ cfg.batch = 1 =>
              Takes(InnerStore(1, w, src, dst), At(src, <<0, 2, 1>>, Inner, S),
                    At(dst, <<1, 2, 0>>, Inner, S \cup {1}))
         /\ 1 \notin S /\ src # dst /\ cfg.batch = 1 =>
              Takes([InnerStore(1, w, src, dst) EXCEPT !.load = "strided"], At(src, <<0, 1, 2>>, Inner, S),
                    At(dst, <<1, 2, 0>>, Inner, S \cup {1}))
<1>1. ASSUME 1 \notin S
      PROVE  Takes(Lines(1, w, src, dst), At(src, <<0, 1, 2>>, Inner, S),
                   At(dst, <<0, 1, 2>>, Inner, S \cup {1}))
  <2> DEFINE s == Lines(1, w, src, dst)
  <2>1. /\ s.src = src /\ s.dst = dst /\ s.op = "lines" /\ s.axes = << 1 >> /\ s.done
        /\ s.from = Inner /\ s.to = Inner 
        /\ s.load = "strided" /\ s.store = "strided" /\ s.span = w /\ s.loop = "none"
    BY DEF Lines, Step
  <2> HIDE DEF s
  <2>2. /\ Lies(s.load, s.span, 1, 0, 2, Inner, <<0, 1, 2>>)
        /\ Lies(s.store, s.span, 1, 0, 2, Inner, <<0, 1, 2>>)
        /\ Looped(s, 1, 0, 2, Inner)
    BY <1>1, <2>1, Ways DEF Lies, Looped
  <2>3. LeafStep(s, src, dst, 1, 0, 2, <<0, 1, 2>>, <<0, 1, 2>>, S)
    BY <1>1, <2>1, <2>2, AxesOrders DEF LeafStep
  <2> QED
    BY <2>3, LeafTakes DEF s
<1>2. ASSUME 2 \notin S /\ src # dst
      PROVE  Takes(OuterStore(2, n1, src, dst), At(src, <<0, 1, 2>>, Inner, S),
                   At(dst, <<0, 2, 1>>, Inner, S \cup {2}))
  <2> DEFINE s == OuterStore(2, n1, src, dst)
  <2>1. /\ s.src = src /\ s.dst = dst /\ s.op = "lines" /\ s.axes = << 2 >> /\ s.done
        /\ s.from = Inner /\ s.to = Inner 
        /\ s.load = "rows" /\ s.store = "outer" /\ s.span = n1 /\ s.loop = "none"
    BY DEF OuterStore, Step
  <2> HIDE DEF s
  <2>2. /\ Lies(s.load, s.span, 2, 0, 1, Inner, <<0, 1, 2>>)
        /\ Lies(s.store, s.span, 2, 0, 1, Inner, <<0, 2, 1>>)
        /\ Looped(s, 2, 0, 1, Inner)
    BY <1>2, <2>1, Ways DEF Lies, Looped
  <2>3. LeafStep(s, src, dst, 2, 0, 1, <<0, 1, 2>>, <<0, 2, 1>>, S)
    BY <1>2, <2>1, <2>2, AxesOrders DEF LeafStep
  <2> QED
    BY <2>3, LeafTakes DEF s
<1>3. ASSUME 1 \notin S /\ src # dst
      PROVE  Takes(OuterStore(1, w, src, dst), At(src, <<0, 2, 1>>, Inner, S),
                   At(dst, <<0, 1, 2>>, Inner, S \cup {1}))
  <2> DEFINE s == OuterStore(1, w, src, dst)
  <2>1. /\ s.src = src /\ s.dst = dst /\ s.op = "lines" /\ s.axes = << 1 >> /\ s.done
        /\ s.from = Inner /\ s.to = Inner 
        /\ s.load = "rows" /\ s.store = "outer" /\ s.span = w /\ s.loop = "none"
    BY DEF OuterStore, Step
  <2> HIDE DEF s
  <2>2. /\ Lies(s.load, s.span, 1, 0, 2, Inner, <<0, 2, 1>>)
        /\ Lies(s.store, s.span, 1, 0, 2, Inner, <<0, 1, 2>>)
        /\ Looped(s, 1, 0, 2, Inner)
    BY <1>3, <2>1, Ways DEF Lies, Looped
  <2>3. LeafStep(s, src, dst, 1, 0, 2, <<0, 2, 1>>, <<0, 1, 2>>, S)
    BY <1>3, <2>1, <2>2, AxesOrders DEF LeafStep
  <2> QED
    BY <2>3, LeafTakes DEF s
<1>4. ASSUME 1 \notin S /\ src # dst /\ cfg.batch = 1
      PROVE  Takes(InnerStore(1, w, src, dst), At(src, <<0, 2, 1>>, Inner, S),
                   At(dst, <<1, 2, 0>>, Inner, S \cup {1}))
  <2> DEFINE s == InnerStore(1, w, src, dst)
  <2>1. /\ s.src = src /\ s.dst = dst /\ s.op = "lines" /\ s.axes = << 1 >> /\ s.done
        /\ s.from = Inner /\ s.to = Inner 
        /\ s.load = "rows" /\ s.store = "inner" /\ s.span = w /\ s.loop = "none"
    BY DEF InnerStore, Step
  <2> HIDE DEF s
  <2>2. /\ Lies(s.load, s.span, 1, 0, 2, Inner, <<0, 2, 1>>)
        /\ Lies(s.store, s.span, 1, 0, 2, Inner, <<1, 2, 0>>)
        /\ Looped(s, 1, 0, 2, Inner)
    BY <1>4, <2>1, Ways DEF Lies, Looped
  <2>3. LeafStep(s, src, dst, 1, 0, 2, <<0, 2, 1>>, <<1, 2, 0>>, S)
    BY <1>4, <2>1, <2>2, AxesOrders DEF LeafStep
  <2> QED
    BY <2>3, LeafTakes DEF s
<1>5. ASSUME 1 \notin S /\ src # dst /\ cfg.batch = 1
      PROVE  Takes([InnerStore(1, w, src, dst) EXCEPT !.load = "strided"], At(src, <<0, 1, 2>>, Inner, S),
                   At(dst, <<1, 2, 0>>, Inner, S \cup {1}))
  <2> DEFINE s == [InnerStore(1, w, src, dst) EXCEPT !.load = "strided"]
  <2>1. /\ s.src = src /\ s.dst = dst /\ s.op = "lines" /\ s.axes = << 1 >> /\ s.done
        /\ s.from = Inner /\ s.to = Inner 
        /\ s.load = "strided" /\ s.store = "inner" /\ s.span = w /\ s.loop = "none"
    BY DEF InnerStore, Step
  <2> HIDE DEF s
  <2>2. /\ Lies(s.load, s.span, 1, 0, 2, Inner, <<0, 1, 2>>)
        /\ Lies(s.store, s.span, 1, 0, 2, Inner, <<1, 2, 0>>)
        /\ Looped(s, 1, 0, 2, Inner)
    BY <1>5, <2>1, Ways DEF Lies, Looped
  <2>3. LeafStep(s, src, dst, 1, 0, 2, <<0, 1, 2>>, <<1, 2, 0>>, S)
    BY <1>5, <2>1, <2>2, AxesOrders DEF LeafStep
  <2> QED
    BY <2>3, LeafTakes DEF s
<1> QED
  BY <1>1, <1>2, <1>3, <1>4, <1>5

\* Lines along axis 0.
LEMMA OuterSpansTake ==
  ASSUME Configured, NEW src, NEW dst, Between(src, Inner, dst, Inner), NEW S \in SUBSET Axes,
         NEW x, x = n1 * Width(Inner)
  PROVE  /\ 0 \notin S =>
              Takes(Lines(0, x, src, dst), At(src, <<0, 1, 2>>, Inner, S),
                    At(dst, <<0, 1, 2>>, Inner, S \cup {0}))
         /\ 0 \notin S /\ src # dst =>
              Takes(OuterStore(0, x, src, dst), At(src, <<1, 2, 0>>, Inner, S),
                    At(dst, <<0, 1, 2>>, Inner, S \cup {0}))
<1>1. ASSUME 0 \notin S
      PROVE  Takes(Lines(0, x, src, dst), At(src, <<0, 1, 2>>, Inner, S),
                   At(dst, <<0, 1, 2>>, Inner, S \cup {0}))
  <2> DEFINE s == Lines(0, x, src, dst)
  <2>1. /\ s.src = src /\ s.dst = dst /\ s.op = "lines" /\ s.axes = << 0 >> /\ s.done
        /\ s.from = Inner /\ s.to = Inner 
        /\ s.load = "strided" /\ s.store = "strided" /\ s.span = x /\ s.loop = "none"
    BY DEF Lines, Step
  <2> HIDE DEF s
  <2>2. /\ Lies(s.load, s.span, 0, 1, 2, Inner, <<0, 1, 2>>)
        /\ Lies(s.store, s.span, 0, 1, 2, Inner, <<0, 1, 2>>)
        /\ Looped(s, 0, 1, 2, Inner)
    BY <1>1, <2>1, Ways DEF Lies, Looped
  <2>3. LeafStep(s, src, dst, 0, 1, 2, <<0, 1, 2>>, <<0, 1, 2>>, S)
    BY <1>1, <2>1, <2>2, AxesOrders DEF LeafStep
  <2> QED
    BY <2>3, LeafTakes DEF s
<1>2. ASSUME 0 \notin S /\ src # dst
      PROVE  Takes(OuterStore(0, x, src, dst), At(src, <<1, 2, 0>>, Inner, S),
                   At(dst, <<0, 1, 2>>, Inner, S \cup {0}))
  <2> DEFINE s == OuterStore(0, x, src, dst)
  <2>1. /\ s.src = src /\ s.dst = dst /\ s.op = "lines" /\ s.axes = << 0 >> /\ s.done
        /\ s.from = Inner /\ s.to = Inner 
        /\ s.load = "rows" /\ s.store = "outer" /\ s.span = x /\ s.loop = "none"
    BY DEF OuterStore, Step
  <2> HIDE DEF s
  <2>2. /\ Lies(s.load, s.span, 0, 1, 2, Inner, <<1, 2, 0>>)
        /\ Lies(s.store, s.span, 0, 1, 2, Inner, <<0, 1, 2>>)
        /\ Looped(s, 0, 1, 2, Inner)
    BY <1>2, <2>1, Ways DEF Lies, Looped
  <2>3. LeafStep(s, src, dst, 0, 1, 2, <<1, 2, 0>>, <<0, 1, 2>>, S)
    BY <1>2, <2>1, <2>2, AxesOrders DEF LeafStep
  <2> QED
    BY <2>3, LeafTakes DEF s
<1> QED
  BY <1>1, <1>2

\* Blocks of columns.
LEMMA ColumnsTake ==
  ASSUME Configured, NEW src, NEW dst, Between(src, Inner, dst, Inner), NEW S \in SUBSET Axes,
         Width(Inner) = half
  PROVE  /\ 0 \notin S =>
              Takes(ColumnGrid(src, dst), At(src, <<0, 1, 2>>, Inner, S),
                    At(dst, <<0, 1, 2>>, Inner, S \cup {0}))
<1>1. ASSUME 0 \notin S
      PROVE  Takes(ColumnGrid(src, dst), At(src, <<0, 1, 2>>, Inner, S),
                   At(dst, <<0, 1, 2>>, Inner, S \cup {0}))
  <2> DEFINE s == ColumnGrid(src, dst)
  <2>1. /\ s.src = src /\ s.dst = dst /\ s.op = "lines" /\ s.axes = << 0 >> /\ s.done
        /\ s.from = Inner /\ s.to = Inner 
        /\ s.load = "strided" /\ s.store = "strided" /\ s.span = n1 * half /\ s.loop = "columns"
    BY DEF ColumnGrid, Lines, Step
  <2> HIDE DEF s
  <2>2. /\ Lies(s.load, s.span, 0, 1, 2, Inner, <<0, 1, 2>>)
        /\ Lies(s.store, s.span, 0, 1, 2, Inner, <<0, 1, 2>>)
        /\ Looped(s, 0, 1, 2, Inner)
    BY <1>1, <2>1, Ways DEF Lies, Looped
  <2>3. LeafStep(s, src, dst, 0, 1, 2, <<0, 1, 2>>, <<0, 1, 2>>, S)
    BY <1>1, <2>1, <2>2, AxesOrders DEF LeafStep
  <2> QED
    BY <2>3, LeafTakes DEF s
<1> QED
  BY <1>1

\* The two kernels of a strided four-step column pass.
LEMMA FourStepTakes ==
  ASSUME Configured, n0 = 1, NEW src, NEW dst, Between(src, Inner, dst, Inner),
         src # "stage", dst # "stage", NEW S \in SUBSET Axes, 1 \notin S,
         NEW w, w = Width(Inner)
  PROVE  /\ Takes(FourStepLines(1, w, src, dst)[1], At(src, <<0, 1, 2>>, Inner, S),
                  At("stage", <<0, 1, 2>>, "mid", S))
         /\ Takes(FourStepLines(1, w, src, dst)[2], At("stage", <<0, 1, 2>>, "mid", S),
                  At(dst, <<0, 1, 2>>, Inner, S \cup {1}))
<1> DEFINE s == FourStepLines(1, w, src, dst)[1]  t == FourStepLines(1, w, src, dst)[2]
<1>1. /\ s.src = src /\ s.dst = "stage" /\ s.op = "lines" /\ s.axes = << 1 >> /\ ~s.done
      /\ s.from = Inner /\ s.to = "mid" /\ s.load = "strided" /\ s.store = "strided"
      /\ s.span = w /\ s.loop = "none"
  BY DEF FourStepLines, Step
<1>2. /\ t.src = "stage" /\ t.dst = dst /\ t.op = "lines" /\ t.axes = << 1 >> /\ t.done
      /\ t.from = "mid" /\ t.to = Inner /\ t.load = "strided" /\ t.store = "strided"
      /\ t.span = w /\ t.loop = "none"
  BY DEF FourStepLines, Step
<1> HIDE DEF s, t
<1>3. Width("mid") = Width(Inner)
  BY Widths DEF Width
<1>4. RoomFor("stage", "mid")
  BY Temporaries
<1>5. Nontrivial({0, 1} \ {1}) = {}
  BY DEF Nontrivial
<1>6. Extent(2, "mid") = w /\ Extent(2, Inner) = w
  BY <1>3 DEF Extent
<1>7. \A f \in {Inner, "mid"} : Lies("strided", w, 1, 0, 2, f, <<0, 1, 2>>)
  BY <1>6 DEF Lies
<1>8. Looped(s, 1, 0, 2, s.from) /\ Looped(t, 1, 0, 2, t.from) /\ InPlaceSafe(s) /\ InPlaceSafe(t)
  BY <1>1, <1>2 DEF Looped, InPlaceSafe
<1>9. AxisStep(s, 1, 0, 2, <<0, 1, 2>>, <<0, 1, 2>>, S, S)
  BY <1>1, <1>3, <1>4, <1>5, <1>7, <1>8, AxesOrders DEF AxisStep, Between
<1>10. AxisStep(t, 1, 0, 2, <<0, 1, 2>>, <<0, 1, 2>>, S, S \cup {1})
  BY <1>2, <1>3, <1>4, <1>5, <1>7, <1>8, AxesOrders DEF AxisStep, Between
<1>11. Takes(s, At(s.src, <<0, 1, 2>>, s.from, S), At(s.dst, <<0, 1, 2>>, s.to, S))
  BY <1>9, AxisTakes
<1>12. Takes(t, At(t.src, <<0, 1, 2>>, t.from, S), At(t.dst, <<0, 1, 2>>, t.to, S \cup {1}))
  BY <1>10, AxisTakes
<1> QED
  BY <1>1, <1>2, <1>11, <1>12 DEF s, t

\* The transposing stores of RTRT nodes, item by item.
LEMMA ItemsTake ==
  ASSUME Configured, cfg.type # "c2c", NEW src, NEW dst, Between(src, Inner, dst, Inner),
         src # dst, NEW S \in SUBSET Axes
  PROVE  /\ 1 \notin S =>
              Takes(PerItem(OuterStore(1, n0 * half, src, dst)), At(src, <<2, 0, 1>>, Inner, S),
                    At(dst, <<1, 2, 0>>, Inner, S \cup {1}))
         /\ 0 \notin S =>
              Takes(PerItem(OuterStore(0, n1 * half, src, dst)), At(src, <<1, 2, 0>>, Inner, S),
                    At(dst, <<0, 1, 2>>, Inner, S \cup {0}))
<1> DEFINE s == PerItem(OuterStore(1, n0 * half, src, dst))
           t == PerItem(OuterStore(0, n1 * half, src, dst))
<1>1. /\ s.src = src /\ s.dst = dst /\ s.op = "lines" /\ s.axes = << 1 >> /\ s.done
      /\ s.from = Inner /\ s.to = Inner /\ s.load = "rows" /\ s.store = "outer"
      /\ s.span = n0 * half /\ s.loop = "item"
  BY DEF PerItem, OuterStore, Step
<1>2. /\ t.src = src /\ t.dst = dst /\ t.op = "lines" /\ t.axes = <<0>> /\ t.done
      /\ t.from = Inner /\ t.to = Inner /\ t.load = "rows" /\ t.store = "outer"
      /\ t.span = n1 * half /\ t.loop = "item"
  BY DEF PerItem, OuterStore, Step
<1>3. StepFits(s) /\ StepFits(t)
  BY ItemSteps
<1> HIDE DEF s, t
<1>4. ItemByItem(s) /\ ItemByItem(t)
  BY <1>1, <1>2, <1>3 DEF StepFits, InOneGo, InChunks, InPaddedRows
<1>5. /\ s.span = Extent(2, Inner) * Extent(0, Inner)
      /\ t.span = Extent(1, Inner) * Extent(2, Inner)
  BY <1>1, <1>2, Ways
<1>6. 1 \notin S => LeafStep(s, src, dst, 1, 2, 0, <<2, 0, 1>>, <<1, 2, 0>>, S)
  <2>1. /\ Lies(s.load, s.span, 1, 2, 0, Inner, <<2, 0, 1>>)
        /\ Lies(s.store, s.span, 1, 2, 0, Inner, <<1, 2, 0>>)
        /\ Looped(s, 1, 2, 0, Inner)
    BY <1>1, <1>4, <1>5 DEF Lies, Looped
  <2> QED
    BY <1>1, <2>1, AxesOrders DEF LeafStep
<1>7. 0 \notin S => LeafStep(t, src, dst, 0, 1, 2, <<1, 2, 0>>, <<0, 1, 2>>, S)
  <2>1. /\ Lies(t.load, t.span, 0, 1, 2, Inner, <<1, 2, 0>>)
        /\ Lies(t.store, t.span, 0, 1, 2, Inner, <<0, 1, 2>>)
        /\ Looped(t, 0, 1, 2, Inner)
    BY <1>2, <1>4, <1>5 DEF Lies, Looped
  <2> QED
    BY <1>2, <2>1, AxesOrders DEF LeafStep
<1> QED
  BY <1>6, <1>7, LeafTakes DEF s, t

\* What a kernel that makes real rows of half rows asks for.
Ready(S) == cfg.type = "c2r" => Nontrivial({0, 1}) \subseteq Nontrivial(S)

\* Rows across the real boundary, and what takes their place.
LEMMA CrossingTakes ==
  ASSUME Configured, NEW src, NEW dst, src # dst, NEW S \in SUBSET Axes, 2 \notin S, Ready(S)
  PROVE  /\ Between(src, Given, dst, Wanted) =>
              Takes(BoundaryRows(src, dst), At(src, <<0, 1, 2>>, Given, S),
                    At(dst, <<0, 1, 2>>, Wanted, S \cup {2}))
         /\ cfg.type = "r2c" /\ Between(src, "real", dst, "half") =>
              Takes(RealOuterStore(src, dst), At(src, <<0, 1, 2>>, Given, S),
                    At(dst, <<0, 2, 1>>, Inner, S \cup {2}))
<1>1. \A span, f : Lies("rows", span, 2, 0, 1, f, Straight)
  BY DEF Lies, Straight
<1>2. Lies("outer", n1, 2, 0, 1, "half", <<0, 2, 1>>)
  BY Extents DEF Lies
<1>3. Given = "half" /\ Wanted # "half" => cfg.type = "c2r"
  BY FormNames, Shapes
<1>4. Between(src, Given, dst, Wanted) =>
        Takes(BoundaryRows(src, dst), At(src, Straight, Given, S),
              At(dst, Straight, Wanted, S \cup {2}))
  BY <1>1, <1>3, AxesOrders, BoundaryTakes DEF BoundaryRows, Ready
<1>5. cfg.type = "r2c" /\ Between(src, "real", dst, "half") =>
        Takes(RealOuterStore(src, dst), At(src, Straight, "real", S),
              At(dst, <<0, 2, 1>>, "half", S \cup {2}))
  BY <1>1, <1>2, AxesOrders, BoundaryTakes DEF RealOuterStore
<1> QED
  BY <1>4, <1>5, FormNames DEF Straight

\* The expand kernel, the full rows and the pack kernel.
LEMMA PackedTakes ==
  ASSUME Configured, cfg.type # "c2c", NEW src, NEW dst, NEW S \in SUBSET Axes, 2 \notin S
  PROVE  /\ Ready(S) /\ src # dst /\ Between(src, Given, dst, "full") =>
              Takes(Expand(src, dst), At(src, <<0, 1, 2>>, Given, S),
                    At(dst, <<0, 1, 2>>, "full", S))
         /\ Between(src, "full", dst, "full") =>
              Takes(FullRows(src, dst), At(src, <<0, 1, 2>>, "full", S),
                    At(dst, <<0, 1, 2>>, "full", S \cup {2}))
         /\ src # dst /\ Between(src, "full", dst, Wanted) =>
              Takes(Pack(src, dst), At(src, <<0, 1, 2>>, "full", S \cup {2}),
                    At(dst, <<0, 1, 2>>, Wanted, S \cup {2}))
<1>1. /\ Words("real") = 1 /\ Words("half") = 2 /\ Words("full") = 2
      /\ Width("real") = n2 /\ Width("half") = half /\ Width("full") = n2 /\ 1 * n2 = n2
  BY Shapes DEF Words, Width, Pos
<1>2. \A span, f : Lies("rows", span, 2, 0, 1, f, Straight)
  BY DEF Lies, Straight
<1>3. Between(src, "full", dst, "full") =>
        Takes(FullRows(src, dst), At(src, Straight, "full", S),
              At(dst, Straight, "full", S \cup {2}))
  BY <1>2, AxesOrders, BoundaryTakes DEF FullRows
<1>4. S \cup {2} \in SUBSET Axes
  BY AxesOrders
<1>5. CASE Forward
  <2>1. Given = "real" /\ Wanted = "half"
    BY <1>5, FormNames, Shapes
  <2>2. src # dst /\ Between(src, "real", dst, "full") =>
          Takes(Reform("real", "full", src, dst, n2, 2 * n2), At(src, Straight, "real", S),
                At(dst, Straight, "full", S))
    BY <1>1, ReformTakes
  <2>3. src # dst /\ Between(src, "full", dst, "half") =>
          Takes(Reform("full", "half", src, dst, 2 * n2, 2 * half),
                At(src, Straight, "full", S \cup {2}), At(dst, Straight, "half", S \cup {2}))
    BY <1>1, <1>4, ReformTakes
  <2> QED
    BY <1>3, <1>5, <2>1, <2>2, <2>3 DEF Expand, Pack, Straight
<1>6. CASE ~Forward
  <2>1. Given = "half" /\ Wanted = "real" /\ cfg.type = "c2r"
    BY <1>6, FormNames, Shapes
  <2>2. Ready(S) /\ src # dst /\ Between(src, "half", dst, "full") =>
          Takes(Reform("half", "full", src, dst, 2 * half, 2 * n2), At(src, Straight, "half", S),
                At(dst, Straight, "full", S))
    BY <1>1, <2>1, ReformTakes DEF Ready
  <2>3. src # dst /\ Between(src, "full", dst, "real") =>
          Takes(Reform("full", "real", src, dst, 2 * n2, n2),
                At(src, Straight, "full", S \cup {2}), At(dst, Straight, "real", S \cup {2}))
    BY <1>1, <1>4, ReformTakes
  <2> QED
    BY <1>3, <1>6, <2>1, <2>2, <2>3 DEF Expand, Pack, Straight
<1> QED
  BY <1>5, <1>6

\* Fused planes and cubes.
LEMMA WholeTakes ==
  ASSUME Configured, NEW src, NEW dst, NEW from, NEW to, Between(src, from, dst, to), src # dst,
         NEW axes \in {<<1, 2>>, <<0, 1, 2>>}, NEW A, A = {axes[j] : j \in DOMAIN axes},
         NEW S \in SUBSET Axes, S \cap A = {},
         from = "half" /\ to # "half" => Nontrivial({0, 1} \ A) \subseteq Nontrivial(S)
  PROVE  Takes(Step(axes, from, to, "rows", "rows", 1, src, dst),
               At(src, <<0, 1, 2>>, from, S), At(dst, <<0, 1, 2>>, to, S \cup A))
<1> DEFINE s == Step(axes, from, to, "rows", "rows", 1, src, dst)
           L == At(src, <<0, 1, 2>>, from, S)  M == At(dst, <<0, 1, 2>>, to, S \cup A)
<1>1. /\ s.op = "lines" /\ s.axes = axes /\ s.done /\ s.from = from /\ s.to = to
      /\ s.load = "rows" /\ s.store = "rows" /\ s.src = src /\ s.dst = dst /\ s.loop = "none"
  BY DEF Step
<1>2. /\ L.buf = src /\ L.order = Straight /\ L.form = from /\ L.done = Nontrivial(S)
      /\ M.buf = dst /\ M.order = Straight /\ M.form = to /\ M.done = Nontrivial(S \cup A)
  BY DEF At, Layout, Straight
<1> HIDE DEF s, L, M
<1>3. Over(s) = A
  BY <1>1 DEF Over
<1>4. A \in SUBSET Axes
  BY DEF Axes
<1>5. M.done = L.done \cup Marks(s)
  BY <1>1, <1>2, <1>3, <1>4, MarksJoin DEF Marks
<1>6. L.done \cap Over(s) = {}
  BY <1>2, <1>3, <1>4, MarksJoin
<1>7. Transforms(s, L, M)
  BY <1>1, <1>2, <1>3, <1>5, <1>6 DEF Transforms, InPlaceSafe
<1>8. WholeTaken(s, L, M)
  BY <1>1, <1>2 DEF WholeTaken
<1>9. Takes(s, L, M)
  BY <1>1, <1>2, <1>7, <1>8, AxesOrders DEF Takes, Between, Straight
<1> QED
  BY <1>9 DEF s, L, M

LEMMA PlanesTake ==
  ASSUME Configured, NEW src, NEW dst, src # dst, NEW S \in SUBSET Axes,
         1 \notin S, 2 \notin S
  PROVE  /\ Between(src, Given, dst, Wanted)
            /\ (cfg.type = "c2r" => Nontrivial({0}) \subseteq Nontrivial(S)) =>
              Takes(RealPlane(src, dst), At(src, <<0, 1, 2>>, Given, S),
                    At(dst, <<0, 1, 2>>, Wanted, S \cup {1, 2}))
         /\ cfg.type = "r2c" /\ Between(src, Given, dst, Wanted) =>
              Takes(RealCube(src, dst), At(src, <<0, 1, 2>>, Given, {}),
                    At(dst, <<0, 1, 2>>, Wanted, {} \cup Axes))
<1> DEFINE A == {<<1, 2>>[j] : j \in DOMAIN <<1, 2>>}
           B == {<<0, 1, 2>>[j] : j \in DOMAIN <<0, 1, 2>>}
<1>1. A = {1, 2} /\ B = Axes
  BY DEF Axes
<1>2. {0, 1} \ {1, 2} = {0} /\ S \cap {1, 2} = {} /\ {} \cap Axes = {} /\ {} \in SUBSET Axes
  OBVIOUS
<1>3. Given = "half" /\ Wanted # "half" => cfg.type = "c2r"
  BY FormNames, Shapes
<1>4. cfg.type = "r2c" => Given = "real" /\ Wanted = "half"
  BY FormNames
<1>5. ASSUME Between(src, Given, dst, Wanted),
             cfg.type = "c2r" => Nontrivial({0}) \subseteq Nontrivial(S)
      PROVE  Takes(Step(<<1, 2>>, Given, Wanted, "rows", "rows", 1, src, dst),
                   At(src, <<0, 1, 2>>, Given, S), At(dst, <<0, 1, 2>>, Wanted, S \cup A))
  <2> HIDE DEF A
  <2>1. A = {<<1, 2>>[j] : j \in DOMAIN <<1, 2>>}
    BY DEF A
  <2> QED
    BY <1>1, <1>2, <1>3, <1>5, <2>1, WholeTakes
<1>6. ASSUME cfg.type = "r2c", Between(src, Given, dst, Wanted)
      PROVE  Takes(Step(<<0, 1, 2>>, "real", "half", "rows", "rows", 1, src, dst),
                   At(src, <<0, 1, 2>>, "real", {}), At(dst, <<0, 1, 2>>, "half", {} \cup B))
  <2> HIDE DEF B
  <2>1. B = {<<0, 1, 2>>[j] : j \in DOMAIN <<0, 1, 2>>}
    BY DEF B
  <2> QED
    BY <1>1, <1>2, <1>4, <1>6, <2>1, WholeTakes
<1> QED
  BY <1>1, <1>4, <1>5, <1>6 DEF RealPlane, RealCube

\* Permutations of the inner form.
LEMMA PermuteTakes ==
  ASSUME Configured, NEW src, NEW dst, Between(src, Inner, dst, Inner), src # dst,
         NEW o \in Orders, NEW x \in Orders, NEW d, NEW loop \in {"none", "batch"},
         d = <<Extent(o[1], Inner), Extent(o[2], Inner), Extent(o[3], Inner)>>,
         NEW p, p = Reordered(o, x), NEW S
  PROVE  Takes(Permute(x, d, loop, src, dst), At(src, o, Inner, S), At(dst, p, Inner, S))
<1> DEFINE s == Permute(x, d, loop, src, dst)
           L == At(src, o, Inner, S)  M == At(dst, p, Inner, S)
<1>1. /\ s.op = "perm" /\ s.order = x /\ s.dims = d /\ s.src = src /\ s.dst = dst
      /\ s.loop = loop
  BY DEF Permute
<1>2. /\ L.buf = src /\ L.order = o /\ L.form = Inner /\ L.done = Nontrivial(S)
      /\ M.buf = dst /\ M.order = p /\ M.form = Inner /\ M.done = Nontrivial(S)
  BY DEF At, Layout
<1> HIDE DEF s, L, M
<1>3. Words(Inner) = 2
  BY DEF Words, Inner
<1>4. p \in Orders
  BY OrdersReordered
<1>5. Reorders(s, L, M)
  BY <1>1, <1>2, <1>3 DEF Reorders
<1>6. Takes(s, L, M)
  BY <1>1, <1>2, <1>4, <1>5 DEF Takes, Between
<1> QED
  BY <1>6 DEF s, L, M

\* The permutations of the real 3D nodes.
LEMMA PermutesTake ==
  ASSUME Configured, cfg.type # "c2c", NEW src, NEW dst, Between(src, Inner, dst, Inner),
         src # dst, NEW S
  PROVE  /\ Takes(Permute3D(<<0, 2, 1>>, <<n0, n1, half>>, src, dst),
                  At(src, <<0, 1, 2>>, Inner, S), At(dst, <<0, 2, 1>>, Inner, S))
         /\ Takes(Permute3D(<<2, 1, 0>>, <<n0, half, n1>>, src, dst),
                  At(src, <<0, 2, 1>>, Inner, S), At(dst, <<1, 2, 0>>, Inner, S))
         /\ Takes(Permute3D(<<2, 0, 1>>, <<n1, half, n0>>, src, dst),
                  At(src, <<1, 2, 0>>, Inner, S), At(dst, <<0, 1, 2>>, Inner, S))
         /\ Takes(Permute3D(<<1, 2, 0>>, <<n0, n1, half>>, src, dst),
                  At(src, <<0, 1, 2>>, Inner, S), At(dst, <<1, 2, 0>>, Inner, S))
         /\ Takes(Permute3D(<<2, 1, 0>>, <<n1, half, n0>>, src, dst),
                  At(src, <<1, 2, 0>>, Inner, S), At(dst, <<0, 2, 1>>, Inner, S))
         /\ Takes(Permute3D(<<0, 2, 1>>, <<n0, half, n1>>, src, dst),
                  At(src, <<0, 2, 1>>, Inner, S), At(dst, <<0, 1, 2>>, Inner, S))
         /\ Takes(Permute3D(<<2, 0, 1>>, <<n0, n1, half>>, src, dst),
                  At(src, <<0, 1, 2>>, Inner, S), At(dst, <<2, 0, 1>>, Inner, S))
<1>1. Extent(0, Inner) = n0 /\ Extent(1, Inner) = n1 /\ Extent(2, Inner) = half
  BY Ways
<1>2. Takes(Permute3D(<<0, 2, 1>>, <<n0, n1, half>>, src, dst),
           At(src, <<0, 1, 2>>, Inner, S), At(dst, <<0, 2, 1>>, Inner, S))
  <2>1. /\ <<0, 2, 1>> = Reordered(<<0, 1, 2>>, <<0, 2, 1>>)
        /\ <<n0, n1, half>> = <<Extent(0, Inner), Extent(1, Inner), Extent(2, Inner)>>
    BY <1>1 DEF Reordered
  <2>2. <<0, 1, 2>>[1] = 0 /\ <<0, 1, 2>>[2] = 1 /\ <<0, 1, 2>>[3] = 2
    OBVIOUS
  <2> DEFINE q == <<0, 1, 2>>  y == <<0, 2, 1>>  e == <<n0, n1, half>>  r == <<0, 2, 1>>
  <2>3. /\ q \in Orders /\ y \in Orders /\ r = Reordered(q, y)
        /\ e = <<Extent(q[1], Inner), Extent(q[2], Inner), Extent(q[3], Inner)>>
    BY <2>1, <2>2, AxesOrders
  <2> HIDE DEF q, y, e, r
  <2>4. Takes(Permute(y, e, "batch", src, dst), At(src, q, Inner, S), At(dst, r, Inner, S))
    BY <2>3, PermuteTakes
  <2> QED
    BY <2>4 DEF Permute3D, q, y, e, r
<1>3. Takes(Permute3D(<<2, 1, 0>>, <<n0, half, n1>>, src, dst),
           At(src, <<0, 2, 1>>, Inner, S), At(dst, <<1, 2, 0>>, Inner, S))
  <2>1. /\ <<1, 2, 0>> = Reordered(<<0, 2, 1>>, <<2, 1, 0>>)
        /\ <<n0, half, n1>> = <<Extent(0, Inner), Extent(2, Inner), Extent(1, Inner)>>
    BY <1>1 DEF Reordered
  <2>2. <<0, 2, 1>>[1] = 0 /\ <<0, 2, 1>>[2] = 2 /\ <<0, 2, 1>>[3] = 1
    OBVIOUS
  <2> DEFINE q == <<0, 2, 1>>  y == <<2, 1, 0>>  e == <<n0, half, n1>>  r == <<1, 2, 0>>
  <2>3. /\ q \in Orders /\ y \in Orders /\ r = Reordered(q, y)
        /\ e = <<Extent(q[1], Inner), Extent(q[2], Inner), Extent(q[3], Inner)>>
    BY <2>1, <2>2, AxesOrders
  <2> HIDE DEF q, y, e, r
  <2>4. Takes(Permute(y, e, "batch", src, dst), At(src, q, Inner, S), At(dst, r, Inner, S))
    BY <2>3, PermuteTakes
  <2> QED
    BY <2>4 DEF Permute3D, q, y, e, r
<1>4. Takes(Permute3D(<<2, 0, 1>>, <<n1, half, n0>>, src, dst),
           At(src, <<1, 2, 0>>, Inner, S), At(dst, <<0, 1, 2>>, Inner, S))
  <2>1. /\ <<0, 1, 2>> = Reordered(<<1, 2, 0>>, <<2, 0, 1>>)
        /\ <<n1, half, n0>> = <<Extent(1, Inner), Extent(2, Inner), Extent(0, Inner)>>
    BY <1>1 DEF Reordered
  <2>2. <<1, 2, 0>>[1] = 1 /\ <<1, 2, 0>>[2] = 2 /\ <<1, 2, 0>>[3] = 0
    OBVIOUS
  <2> DEFINE q == <<1, 2, 0>>  y == <<2, 0, 1>>  e == <<n1, half, n0>>  r == <<0, 1, 2>>
  <2>3. /\ q \in Orders /\ y \in Orders /\ r = Reordered(q, y)
        /\ e = <<Extent(q[1], Inner), Extent(q[2], Inner), Extent(q[3], Inner)>>
    BY <2>1, <2>2, AxesOrders
  <2> HIDE DEF q, y, e, r
  <2>4. Takes(Permute(y, e, "batch", src, dst), At(src, q, Inner, S), At(dst, r, Inner, S))
    BY <2>3, PermuteTakes
  <2> QED
    BY <2>4 DEF Permute3D, q, y, e, r
<1>5. Takes(Permute3D(<<1, 2, 0>>, <<n0, n1, half>>, src, dst),
           At(src, <<0, 1, 2>>, Inner, S), At(dst, <<1, 2, 0>>, Inner, S))
  <2>1. /\ <<1, 2, 0>> = Reordered(<<0, 1, 2>>, <<1, 2, 0>>)
        /\ <<n0, n1, half>> = <<Extent(0, Inner), Extent(1, Inner), Extent(2, Inner)>>
    BY <1>1 DEF Reordered
  <2>2. <<0, 1, 2>>[1] = 0 /\ <<0, 1, 2>>[2] = 1 /\ <<0, 1, 2>>[3] = 2
    OBVIOUS
  <2> DEFINE q == <<0, 1, 2>>  y == <<1, 2, 0>>  e == <<n0, n1, half>>  r == <<1, 2, 0>>
  <2>3. /\ q \in Orders /\ y \in Orders /\ r = Reordered(q, y)
        /\ e = <<Extent(q[1], Inner), Extent(q[2], Inner), Extent(q[3], Inner)>>
    BY <2>1, <2>2, AxesOrders
  <2> HIDE DEF q, y, e, r
  <2>4. Takes(Permute(y, e, "batch", src, dst), At(src, q, Inner, S), At(dst, r, Inner, S))
    BY <2>3, PermuteTakes
  <2> QED
    BY <2>4 DEF Permute3D, q, y, e, r
<1>6. Takes(Permute3D(<<2, 1, 0>>, <<n1, half, n0>>, src, dst),
           At(src, <<1, 2, 0>>, Inner, S), At(dst, <<0, 2, 1>>, Inner, S))
  <2>1. /\ <<0, 2, 1>> = Reordered(<<1, 2, 0>>, <<2, 1, 0>>)
        /\ <<n1, half, n0>> = <<Extent(1, Inner), Extent(2, Inner), Extent(0, Inner)>>
    BY <1>1 DEF Reordered
  <2>2. <<1, 2, 0>>[1] = 1 /\ <<1, 2, 0>>[2] = 2 /\ <<1, 2, 0>>[3] = 0
    OBVIOUS
  <2> DEFINE q == <<1, 2, 0>>  y == <<2, 1, 0>>  e == <<n1, half, n0>>  r == <<0, 2, 1>>
  <2>3. /\ q \in Orders /\ y \in Orders /\ r = Reordered(q, y)
        /\ e = <<Extent(q[1], Inner), Extent(q[2], Inner), Extent(q[3], Inner)>>
    BY <2>1, <2>2, AxesOrders
  <2> HIDE DEF q, y, e, r
  <2>4. Takes(Permute(y, e, "batch", src, dst), At(src, q, Inner, S), At(dst, r, Inner, S))
    BY <2>3, PermuteTakes
  <2> QED
    BY <2>4 DEF Permute3D, q, y, e, r
<1>7. Takes(Permute3D(<<0, 2, 1>>, <<n0, half, n1>>, src, dst),
           At(src, <<0, 2, 1>>, Inner, S), At(dst, <<0, 1, 2>>, Inner, S))
  <2>1. /\ <<0, 1, 2>> = Reordered(<<0, 2, 1>>, <<0, 2, 1>>)
        /\ <<n0, half, n1>> = <<Extent(0, Inner), Extent(2, Inner), Extent(1, Inner)>>
    BY <1>1 DEF Reordered
  <2>2. <<0, 2, 1>>[1] = 0 /\ <<0, 2, 1>>[2] = 2 /\ <<0, 2, 1>>[3] = 1
    OBVIOUS
  <2> DEFINE q == <<0, 2, 1>>  y == <<0, 2, 1>>  e == <<n0, half, n1>>  r == <<0, 1, 2>>
  <2>3. /\ q \in Orders /\ y \in Orders /\ r = Reordered(q, y)
        /\ e = <<Extent(q[1], Inner), Extent(q[2], Inner), Extent(q[3], Inner)>>
    BY <2>1, <2>2, AxesOrders
  <2> HIDE DEF q, y, e, r
  <2>4. Takes(Permute(y, e, "batch", src, dst), At(src, q, Inner, S), At(dst, r, Inner, S))
    BY <2>3, PermuteTakes
  <2> QED
    BY <2>4 DEF Permute3D, q, y, e, r
<1>8. Takes(Permute3D(<<2, 0, 1>>, <<n0, n1, half>>, src, dst),
           At(src, <<0, 1, 2>>, Inner, S), At(dst, <<2, 0, 1>>, Inner, S))
  <2>1. /\ <<2, 0, 1>> = Reordered(<<0, 1, 2>>, <<2, 0, 1>>)
        /\ <<n0, n1, half>> = <<Extent(0, Inner), Extent(1, Inner), Extent(2, Inner)>>
    BY <1>1 DEF Reordered
  <2>2. <<0, 1, 2>>[1] = 0 /\ <<0, 1, 2>>[2] = 1 /\ <<0, 1, 2>>[3] = 2
    OBVIOUS
  <2> DEFINE q == <<0, 1, 2>>  y == <<2, 0, 1>>  e == <<n0, n1, half>>  r == <<2, 0, 1>>
  <2>3. /\ q \in Orders /\ y \in Orders /\ r = Reordered(q, y)
        /\ e = <<Extent(q[1], Inner), Extent(q[2], Inner), Extent(q[3], Inner)>>
    BY <2>1, <2>2, AxesOrders
  <2> HIDE DEF q, y, e, r
  <2>4. Takes(Permute(y, e, "batch", src, dst), At(src, q, Inner, S), At(dst, r, Inner, S))
    BY <2>3, PermuteTakes
  <2> QED
    BY <2>4 DEF Permute3D, q, y, e, r
<1> QED
  BY <1>2, <1>3, <1>4, <1>5, <1>6, <1>7, <1>8

\* The transposes of the 2D nodes.
LEMMA TransposesTake ==
  ASSUME Configured, n0 = 1, NEW src, NEW dst, Between(src, Inner, dst, Inner),
         src # dst, NEW S, NEW w, w = Width(Inner)
  PROVE  /\ Takes(Transpose(n1, w, src, dst), At(src, <<0, 1, 2>>, Inner, S),
                  At(dst, <<0, 2, 1>>, Inner, S))
         /\ Takes(Transpose(w, n1, src, dst), At(src, <<0, 2, 1>>, Inner, S),
                  At(dst, <<0, 1, 2>>, Inner, S))
<1>1. Extent(0, Inner) = 1 /\ Extent(1, Inner) = n1 /\ Extent(2, Inner) = w
  BY Ways
<1>2. Takes(Transpose(n1, w, src, dst), At(src, <<0, 1, 2>>, Inner, S), At(dst, <<0, 2, 1>>, Inner, S))
  <2>1. /\ <<0, 2, 1>> = Reordered(<<0, 1, 2>>, <<0, 2, 1>>)
        /\ <<1, n1, w>> = <<Extent(0, Inner), Extent(1, Inner), Extent(2, Inner)>>
    BY <1>1 DEF Reordered
  <2>2. <<0, 1, 2>>[1] = 0 /\ <<0, 1, 2>>[2] = 1 /\ <<0, 1, 2>>[3] = 2
    OBVIOUS
  <2> DEFINE q == <<0, 1, 2>>  y == <<0, 2, 1>>  e == <<1, n1, w>>  r == <<0, 2, 1>>
  <2>3. /\ q \in Orders /\ y \in Orders /\ r = Reordered(q, y)
        /\ e = <<Extent(q[1], Inner), Extent(q[2], Inner), Extent(q[3], Inner)>>
    BY <2>1, <2>2, AxesOrders
  <2> HIDE DEF q, y, e, r
  <2>4. Takes(Permute(y, e, "none", src, dst), At(src, q, Inner, S), At(dst, r, Inner, S))
    BY <2>3, PermuteTakes
  <2> QED
    BY <2>4 DEF Transpose, q, y, e, r
<1>3. Takes(Transpose(w, n1, src, dst), At(src, <<0, 2, 1>>, Inner, S), At(dst, <<0, 1, 2>>, Inner, S))
  <2>1. /\ <<0, 1, 2>> = Reordered(<<0, 2, 1>>, <<0, 2, 1>>)
        /\ <<1, w, n1>> = <<Extent(0, Inner), Extent(2, Inner), Extent(1, Inner)>>
    BY <1>1 DEF Reordered
  <2>2. <<0, 2, 1>>[1] = 0 /\ <<0, 2, 1>>[2] = 2 /\ <<0, 2, 1>>[3] = 1
    OBVIOUS
  <2> DEFINE q == <<0, 2, 1>>  y == <<0, 2, 1>>  e == <<1, w, n1>>  r == <<0, 1, 2>>
  <2>3. /\ q \in Orders /\ y \in Orders /\ r = Reordered(q, y)
        /\ e = <<Extent(q[1], Inner), Extent(q[2], Inner), Extent(q[3], Inner)>>
    BY <2>1, <2>2, AxesOrders
  <2> HIDE DEF q, y, e, r
  <2>4. Takes(Permute(y, e, "none", src, dst), At(src, q, Inner, S), At(dst, r, Inner, S))
    BY <2>3, PermuteTakes
  <2> QED
    BY <2>4 DEF Transpose, q, y, e, r
<1> QED
  BY <1>2, <1>3

-----------------------------------------------------------------------------
(* Programs: each step takes up the array where the one before left it.      *)

\* The arrays R between the steps of program p.
Follows(p, R) == \A j \in 1 .. Len(p) : Takes(p[j], R[j], R[j + 1])

Carries(p, L, M) ==
  /\ \E S : p \in Seq(S)
  /\ Len(p) \in Pos
  /\ \E R : R[1] = L /\ R[Len(p) + 1] = M /\ Follows(p, R)

LEMMA CarriesOn ==
  ASSUME NEW p, NEW q, NEW L, NEW M, NEW N, Carries(p, L, M), Carries(q, M, N)
  PROVE  Carries(p \o q, L, N)
<1>1. PICK S, T : p \in Seq(S) /\ q \in Seq(T)
  BY DEF Carries
<1>2. p \in Seq(S \cup T) /\ q \in Seq(S \cup T)
  BY <1>1
<1> DEFINE m == Len(p)  k == Len(q)  r == p \o q
<1>3. /\ m \in Pos /\ k \in Pos /\ m \in Nat /\ k \in Nat
      /\ r \in Seq(S \cup T) /\ Len(r) = m + k
      /\ \A x \in 1 .. m : r[x] = p[x]
      /\ \A x \in m + 1 .. m + k : r[x] = q[x - m]
  BY <1>2 DEF Carries, Pos
<1>4. PICK A : A[1] = L /\ A[m + 1] = M /\ \A x \in 1 .. m : Takes(p[x], A[x], A[x + 1])
  BY DEF Carries, Follows
<1>5. PICK B : B[1] = M /\ B[k + 1] = N /\ \A x \in 1 .. k : Takes(q[x], B[x], B[x + 1])
  BY DEF Carries, Follows
<1> HIDE DEF m, k, r
<1> DEFINE R == [x \in 1 .. m + k + 1 |-> IF x <= m THEN A[x] ELSE B[x - m]]
<1>6. /\ \A x \in 1 .. m : R[x] = A[x]
      /\ \A x \in m + 1 .. m + k + 1 : R[x] = B[x - m]
  BY <1>3 DEF Pos
<1> HIDE DEF R
<1>7. R[1] = L /\ R[m + k + 1] = N
  <2>1. 1 \in 1 .. m /\ m + k + 1 \in m + 1 .. m + k + 1 /\ (m + k + 1) - m = k + 1
    BY <1>3 DEF Pos
  <2> QED
    BY <1>4, <1>5, <1>6, <2>1
<1>8. ASSUME NEW x \in 1 .. m + k
      PROVE  Takes(r[x], R[x], R[x + 1])
  <2>1. CASE x < m
    <3>1. x \in 1 .. m /\ x + 1 \in 1 .. m
      BY <1>3, <2>1
    <3> QED
      BY <1>3, <1>4, <1>6, <3>1
  <2>2. CASE x = m
    <3>1. x \in 1 .. m /\ x + 1 \in m + 1 .. m + k + 1 /\ (x + 1) - m = 1
      BY <1>3, <2>2 DEF Pos
    <3>2. R[x] = A[x] /\ R[x + 1] = M /\ A[x + 1] = M /\ r[x] = p[x]
      BY <1>3, <1>4, <1>5, <1>6, <2>2, <3>1
    <3> QED
      BY <1>4, <3>1, <3>2
  <2>3. CASE x > m
    <3>1. /\ x \in m + 1 .. m + k /\ x \in m + 1 .. m + k + 1 /\ x + 1 \in m + 1 .. m + k + 1
          /\ x - m \in 1 .. k /\ (x + 1) - m = (x - m) + 1
      BY <1>3, <2>3 DEF Pos
    <3>2. R[x] = B[x - m] /\ R[x + 1] = B[(x - m) + 1] /\ r[x] = q[x - m]
      BY <1>3, <1>6, <3>1
    <3> QED
      BY <1>5, <3>1, <3>2
  <2> QED
    BY <1>3, <2>1, <2>2, <2>3
<1>9. Len(r) \in Pos /\ Len(r) = m + k
  BY <1>3 DEF Pos
<1>10. Follows(r, R)
  BY <1>8, <1>9 DEF Follows
<1>11. Carries(r, L, N)
  BY <1>3, <1>7, <1>9, <1>10 DEF Carries
<1> QED
  BY <1>11 DEF r

LEMMA OneCarry ==
  ASSUME NEW a,
         NEW L0, NEW L1,
         Takes(a, L0, L1)
  PROVE  Carries(<<a>>, L0, L1)
<1> DEFINE p == <<a>>  R == <<L0, L1>>  S == {a}
<1>1. p \in Seq(S) /\ Len(p) = 1
  OBVIOUS
<1>2. /\ p[1] = a /\ R[1] = L0
      /\ R[2] = L1
  OBVIOUS
<1> HIDE DEF p, R
<1>3. ASSUME NEW j \in 1 .. 1
      PROVE  Takes(p[j], R[j], R[j + 1])
  <2>1. (j = 1 /\ j + 1 = 2)
    OBVIOUS
  <2> QED
    BY <1>2, <2>1
<1>4. Carries(p, L0, L1)
  BY <1>1, <1>2, <1>3 DEF Carries, Follows, Pos
<1> QED
  BY <1>4 DEF p

LEMMA TwoCarry ==
  ASSUME NEW a, NEW b,
         NEW L0, NEW L1, NEW L2,
         Takes(a, L0, L1),
         Takes(b, L1, L2)
  PROVE  Carries(<<a, b>>, L0, L2)
<1> DEFINE p == <<a, b>>  R == <<L0, L1, L2>>  S == {a, b}
<1>1. p \in Seq(S) /\ Len(p) = 2
  OBVIOUS
<1>2. /\ p[1] = a /\ R[1] = L0
      /\ p[2] = b /\ R[2] = L1
      /\ R[3] = L2
  OBVIOUS
<1> HIDE DEF p, R
<1>3. ASSUME NEW j \in 1 .. 2
      PROVE  Takes(p[j], R[j], R[j + 1])
  <2>1. (j = 1 /\ j + 1 = 2) \/ (j = 2 /\ j + 1 = 3)
    OBVIOUS
  <2> QED
    BY <1>2, <2>1
<1>4. Carries(p, L0, L2)
  BY <1>1, <1>2, <1>3 DEF Carries, Follows, Pos
<1> QED
  BY <1>4 DEF p

LEMMA ThreeCarry ==
  ASSUME NEW a, NEW b, NEW c,
         NEW L0, NEW L1, NEW L2, NEW L3,
         Takes(a, L0, L1),
         Takes(b, L1, L2),
         Takes(c, L2, L3)
  PROVE  Carries(<<a, b, c>>, L0, L3)
<1> DEFINE p == <<a, b, c>>  R == <<L0, L1, L2, L3>>  S == {a, b, c}
<1>1. p \in Seq(S) /\ Len(p) = 3
  OBVIOUS
<1>2. /\ p[1] = a /\ R[1] = L0
      /\ p[2] = b /\ R[2] = L1
      /\ p[3] = c /\ R[3] = L2
      /\ R[4] = L3
  OBVIOUS
<1> HIDE DEF p, R
<1>3. ASSUME NEW j \in 1 .. 3
      PROVE  Takes(p[j], R[j], R[j + 1])
  <2>1. (j = 1 /\ j + 1 = 2) \/ (j = 2 /\ j + 1 = 3) \/ (j = 3 /\ j + 1 = 4)
    OBVIOUS
  <2> QED
    BY <1>2, <2>1
<1>4. Carries(p, L0, L3)
  BY <1>1, <1>2, <1>3 DEF Carries, Follows, Pos
<1> QED
  BY <1>4 DEF p

LEMMA FourCarry ==
  ASSUME NEW a, NEW b, NEW c, NEW d,
         NEW L0, NEW L1, NEW L2, NEW L3, NEW L4,
         Takes(a, L0, L1),
         Takes(b, L1, L2),
         Takes(c, L2, L3),
         Takes(d, L3, L4)
  PROVE  Carries(<<a, b, c, d>>, L0, L4)
<1> DEFINE p == <<a, b, c, d>>  R == <<L0, L1, L2, L3, L4>>  S == {a, b, c, d}
<1>1. p \in Seq(S) /\ Len(p) = 4
  OBVIOUS
<1>2. /\ p[1] = a /\ R[1] = L0
      /\ p[2] = b /\ R[2] = L1
      /\ p[3] = c /\ R[3] = L2
      /\ p[4] = d /\ R[4] = L3
      /\ R[5] = L4
  OBVIOUS
<1> HIDE DEF p, R
<1>3. ASSUME NEW j \in 1 .. 4
      PROVE  Takes(p[j], R[j], R[j + 1])
  <2>1. (j = 1 /\ j + 1 = 2) \/ (j = 2 /\ j + 1 = 3) \/ (j = 3 /\ j + 1 = 4) \/ (j = 4 /\ j + 1 = 5)
    OBVIOUS
  <2> QED
    BY <1>2, <2>1
<1>4. Carries(p, L0, L4)
  BY <1>1, <1>2, <1>3 DEF Carries, Follows, Pos
<1> QED
  BY <1>4 DEF p

LEMMA SixCarry ==
  ASSUME NEW a, NEW b, NEW c, NEW d, NEW e, NEW f,
         NEW L0, NEW L1, NEW L2, NEW L3, NEW L4, NEW L5, NEW L6,
         Takes(a, L0, L1),
         Takes(b, L1, L2),
         Takes(c, L2, L3),
         Takes(d, L3, L4),
         Takes(e, L4, L5),
         Takes(f, L5, L6)
  PROVE  Carries(<<a, b, c, d, e, f>>, L0, L6)
<1> DEFINE p == <<a, b, c, d, e, f>>  R == <<L0, L1, L2, L3, L4, L5, L6>>  S == {a, b, c, d, e, f}
<1>1. p \in Seq(S) /\ Len(p) = 6
  OBVIOUS
<1>2. /\ p[1] = a /\ R[1] = L0
      /\ p[2] = b /\ R[2] = L1
      /\ p[3] = c /\ R[3] = L2
      /\ p[4] = d /\ R[4] = L3
      /\ p[5] = e /\ R[5] = L4
      /\ p[6] = f /\ R[6] = L5
      /\ R[7] = L6
  OBVIOUS
<1> HIDE DEF p, R
<1>3. ASSUME NEW j \in 1 .. 6
      PROVE  Takes(p[j], R[j], R[j + 1])
  <2>1. (j = 1 /\ j + 1 = 2) \/ (j = 2 /\ j + 1 = 3) \/ (j = 3 /\ j + 1 = 4) \/ (j = 4 /\ j + 1 = 5) \/ (j = 5 /\ j + 1 = 6) \/ (j = 6 /\ j + 1 = 7)
    OBVIOUS
  <2> QED
    BY <1>2, <2>1
<1>4. Carries(p, L0, L6)
  BY <1>1, <1>2, <1>3 DEF Carries, Follows, Pos
<1> QED
  BY <1>4 DEF p

LEMMA EightCarry ==
  ASSUME NEW a, NEW b, NEW c, NEW d, NEW e, NEW f, NEW g, NEW h,
         NEW L0, NEW L1, NEW L2, NEW L3, NEW L4, NEW L5, NEW L6, NEW L7, NEW L8,
         Takes(a, L0, L1),
         Takes(b, L1, L2),
         Takes(c, L2, L3),
         Takes(d, L3, L4),
         Takes(e, L4, L5),
         Takes(f, L5, L6),
         Takes(g, L6, L7),
         Takes(h, L7, L8)
  PROVE  Carries(<<a, b, c, d, e, f, g, h>>, L0, L8)
<1> DEFINE p == <<a, b, c, d, e, f, g, h>>  R == <<L0, L1, L2, L3, L4, L5, L6, L7, L8>>  S == {a, b, c, d, e, f, g, h}
<1>1. p \in Seq(S) /\ Len(p) = 8
  OBVIOUS
<1>2. /\ p[1] = a /\ R[1] = L0
      /\ p[2] = b /\ R[2] = L1
      /\ p[3] = c /\ R[3] = L2
      /\ p[4] = d /\ R[4] = L3
      /\ p[5] = e /\ R[5] = L4
      /\ p[6] = f /\ R[6] = L5
      /\ p[7] = g /\ R[7] = L6
      /\ p[8] = h /\ R[8] = L7
      /\ R[9] = L8
  OBVIOUS
<1> HIDE DEF p, R
<1>3. ASSUME NEW j \in 1 .. 8
      PROVE  Takes(p[j], R[j], R[j + 1])
  <2>1. (j = 1 /\ j + 1 = 2) \/ (j = 2 /\ j + 1 = 3) \/ (j = 3 /\ j + 1 = 4) \/ (j = 4 /\ j + 1 = 5) \/ (j = 5 /\ j + 1 = 6) \/ (j = 6 /\ j + 1 = 7) \/ (j = 7 /\ j + 1 = 8) \/ (j = 8 /\ j + 1 = 9)
    OBVIOUS
  <2> QED
    BY <1>2, <2>1
<1>4. Carries(p, L0, L8)
  BY <1>1, <1>2, <1>3 DEF Carries, Follows, Pos
<1> QED
  BY <1>4 DEF p

-----------------------------------------------------------------------------
(* Every node's program brings the caller's input into the result.          *)

\* The nodes the code computes correctly: not the three cases the README lists.
Sound ==
  /\ ~(cfg.kind = "leaf" /\ "middle" \in cfg.fused /\ cfg.batch > 1)
  /\ ~(cfg.kind = "cube" /\ cfg.inPlace)
  /\ ~(cfg.kind = "as_1d" /\ cfg.inPlace /\ cfg.batch > 1 /\ cfg.type # "c2c")

First == At("in", <<0, 1, 2>>, Given, {})
Final == At(Out, <<0, 1, 2>>, Wanted, Axes)
Delivers(p) == Carries(p, First, Final)

LEMMA Unions ==
  /\ {} \cup {0} = {0} /\ {} \cup {1} = {1} /\ {} \cup {2} = {2}
  /\ {2} \cup {1} = {1, 2} /\ {1, 2} \cup {0} = Axes
  /\ {1} \cup {0} = {0, 1} /\ {0} \cup {1} = {0, 1} /\ {0, 1} \cup {2} = Axes
  /\ {1} \cup {2} = {1, 2} /\ {} \cup {1, 2} = {1, 2} /\ {0} \cup {1, 2} = Axes
  /\ {} \cup Axes = Axes
  /\ {} \in SUBSET Axes /\ {0} \in SUBSET Axes /\ {1} \in SUBSET Axes /\ {2} \in SUBSET Axes
  /\ {0, 1} \in SUBSET Axes /\ {1, 2} \in SUBSET Axes
  /\ 0 \notin {} /\ 1 \notin {} /\ 2 \notin {} /\ 0 \notin {1} /\ 0 \notin {1, 2}
  /\ 1 \notin {2} /\ 1 \notin {0} /\ 2 \notin {0} /\ 2 \notin {1} /\ 2 \notin {0, 1}
BY DEF Axes

\* A matrix is done when its two axes are.
LEMMA Flat ==
  ASSUME n0 = 1, NEW b, NEW o, NEW f
  PROVE  /\ At(b, o, f, {1, 2}) = At(b, o, f, Axes)
         /\ n1 = 1 => At(b, o, f, {2}) = At(b, o, f, Axes)
         /\ n2 = 1 => At(b, o, f, {1}) = At(b, o, f, Axes)
         /\ Ready({1}) /\ (n1 = 1 => Ready({}))
<1>1. Nontrivial({1, 2}) = Nontrivial(Axes) /\ Nontrivial({0, 1}) \subseteq Nontrivial({1})
  BY DEF Nontrivial, Axes
<1>2. n1 = 1 => Nontrivial({2}) = Nontrivial(Axes) /\ Nontrivial({0, 1}) = {}
  BY DEF Nontrivial, Axes
<1>3. n2 = 1 => Nontrivial({1}) = Nontrivial(Axes)
  BY DEF Nontrivial, Axes
<1> QED
  BY <1>1, <1>2, <1>3 DEF At, Ready

LEMMA Apart ==
  ASSUME Configured
  PROVE  Out \in {"in", "out"} /\ Out # "t1" /\ Out # "t2" /\ Out # "row" /\ Out # "stage"
BY DEF Out

\* The 2D nodes for complex data.
LEMMA Complex2DDelivers ==
  ASSUME Configured, cfg.type = "c2c", n0 = 1
  PROVE  Delivers(TwoD) /\ Delivers(TwoDFused)
<1>1. /\ Inner = "full" /\ Given = Inner /\ Wanted = Inner /\ Width(Inner) = n2
  BY FormNames, Widths
<1>2. /\ Between("in", Inner, "t1", Inner) /\ Between("t1", Inner, "t2", Inner)
      /\ Between("t2", Inner, "t1", Inner) /\ Between("t1", Inner, Out, Inner)
  BY Ends
<1>3. Final = At(Out, <<0, 1, 2>>, Inner, {1, 2}) /\ First = At("in", <<0, 1, 2>>, Inner, {})
  BY <1>1, Flat DEF Final, First
<1>4. Delivers(TwoD)
  <2>1. Takes(Rows(2, "in", "t1"), At("in", <<0, 1, 2>>, Inner, {}),
              At("t1", <<0, 1, 2>>, Inner, {2}))
    BY <1>2, Unions, RowsTake
  <2>2. Takes(Transpose(n1, n2, "t1", "t2"), At("t1", <<0, 1, 2>>, Inner, {2}),
              At("t2", <<0, 2, 1>>, Inner, {2}))
    BY <1>1, <1>2, TransposesTake
  <2>3. Takes(Rows(1, "t2", "t1"), At("t2", <<0, 2, 1>>, Inner, {2}),
              At("t1", <<0, 2, 1>>, Inner, {1, 2}))
    BY <1>2, Unions, RowsTake
  <2>4. Takes(Transpose(n2, n1, "t1", Out), At("t1", <<0, 2, 1>>, Inner, {1, 2}),
              At(Out, <<0, 1, 2>>, Inner, {1, 2}))
    BY <1>1, <1>2, Apart, TransposesTake
  <2> QED
    BY <1>3, <2>1, <2>2, <2>3, <2>4, FourCarry DEF TwoD, Delivers
<1>5. Delivers(TwoDFused)
  <2>1. Takes(OuterStore(2, n1, "in", "t1"), At("in", <<0, 1, 2>>, Inner, {}),
              At("t1", <<0, 2, 1>>, Inner, {2}))
    BY <1>2, Unions, SpansTake
  <2>2. Takes(OuterStore(1, n2, "t1", Out), At("t1", <<0, 2, 1>>, Inner, {2}),
              At(Out, <<0, 1, 2>>, Inner, {1, 2}))
    BY <1>1, <1>2, Apart, Unions, SpansTake
  <2> QED
    BY <1>3, <2>1, <2>2, TwoCarry DEF TwoDFused, Delivers
<1> QED
  BY <1>4, <1>5

\* The column pass of the RC nodes.
LEMMA ColumnsCarry ==
  ASSUME Configured, n0 = 1, NEW src, NEW dst, Between(src, Inner, dst, Inner),
         src # "stage", dst # "stage", NEW S \in SUBSET Axes, 1 \notin S
  PROVE  Carries(Columns(src, dst), At(src, <<0, 1, 2>>, Inner, S),
                 At(dst, <<0, 1, 2>>, Inner, S \cup {1}))
<1> DEFINE w == Width(Inner)  F == FourStepLines(1, w, src, dst)
<1>1. /\ Takes(F[1], At(src, <<0, 1, 2>>, Inner, S), At("stage", <<0, 1, 2>>, "mid", S))
      /\ Takes(F[2], At("stage", <<0, 1, 2>>, "mid", S),
               At(dst, <<0, 1, 2>>, Inner, S \cup {1}))
  BY FourStepTakes
<1>2. F = <<F[1], F[2]>>
  BY DEF FourStepLines
<1>3. Takes(Lines(1, w, src, dst), At(src, <<0, 1, 2>>, Inner, S),
            At(dst, <<0, 1, 2>>, Inner, S \cup {1}))
  BY SpansTake
<1> HIDE DEF F
<1>4. Carries(F, At(src, <<0, 1, 2>>, Inner, S), At(dst, <<0, 1, 2>>, Inner, S \cup {1}))
  BY <1>1, <1>2, TwoCarry
<1>5. Carries(<<Lines(1, w, src, dst)>>, At(src, <<0, 1, 2>>, Inner, S),
              At(dst, <<0, 1, 2>>, Inner, S \cup {1}))
  BY <1>3, OneCarry
<1> QED
  BY <1>4, <1>5 DEF Columns, F

LEMMA RCDelivers ==
  ASSUME Configured, cfg.type = "c2c", n0 = 1
  PROVE  Delivers(TwoDRC)
<1>1. /\ Inner = "full" /\ Given = Inner /\ Wanted = Inner /\ Width(Inner) = n2
  BY FormNames, Widths
<1>2. Between("in", Inner, "t1", Inner) /\ Between("t1", Inner, Out, Inner)
  BY Ends
<1>3. Final = At(Out, <<0, 1, 2>>, Inner, {1, 2}) /\ First = At("in", <<0, 1, 2>>, Inner, {})
  BY <1>1, Flat DEF Final, First
<1>4. Takes(Rows(2, "in", "t1"), At("in", <<0, 1, 2>>, Inner, {}),
            At("t1", <<0, 1, 2>>, Inner, {2}))
  BY <1>2, Unions, RowsTake
<1>5. Carries(<<Rows(2, "in", "t1")>>, At("in", <<0, 1, 2>>, Inner, {}),
              At("t1", <<0, 1, 2>>, Inner, {2}))
  BY <1>4, OneCarry
<1>6. Carries(Columns("t1", Out), At("t1", <<0, 1, 2>>, Inner, {2}),
              At(Out, <<0, 1, 2>>, Inner, {1, 2}))
  BY <1>2, Apart, Unions, ColumnsCarry
<1> QED
  BY <1>3, <1>5, <1>6, CarriesOn DEF TwoDRC, Delivers

\* The unit-axis nodes.
LEMMA As1DDelivers ==
  ASSUME Configured, Sound, cfg.rank = 2, cfg.kind = "as_1d", HasUnitAxis(cfg)
  PROVE  Delivers(As1D)
<1>1. n0 = 1 /\ n1 \in Pos /\ Between("in", Given, Out, Wanted)
  BY Shapes, Ends
<1>2. CASE n1 > 1
  <2>1. cfg.type = "c2c" /\ n2 = 1
    BY <1>2 DEF HasUnitAxis, n1, n2
  <2>2. Inner = "full" /\ Given = Inner /\ Wanted = Inner /\ Width(Inner) = 1
    BY <2>1, FormNames, Widths
  <2>3. Final = At(Out, <<0, 1, 2>>, Inner, {1}) /\ First = At("in", <<0, 1, 2>>, Inner, {})
    BY <1>1, <2>1, <2>2, Flat DEF Final, First
  <2>4. Takes(Rows(1, "in", Out), At("in", <<0, 1, 2>>, Inner, {}),
              At(Out, <<0, 1, 2>>, Inner, {1}))
    BY <1>1, <2>2, Unions, RowsTake
  <2> QED
    BY <1>2, <2>3, <2>4, OneCarry DEF As1D, Delivers
<1>3. CASE ~(n1 > 1)
  <2>1. n1 = 1
    BY <1>1, <1>3 DEF Pos
  <2> DEFINE x == IF cfg.inPlace /\ cfg.type = "r2c" THEN "padded" ELSE "rows"
             y == IF cfg.inPlace /\ cfg.type = "c2r" THEN "padded" ELSE "rows"
             s == [BoundaryRows("in", Out) EXCEPT !.load = x, !.store = y]
  <2>2. /\ s.op = "lines" /\ s.axes = <<2>> /\ s.done /\ s.from = Given /\ s.to = Wanted
        /\ s.load = x /\ s.store = y /\ s.span = 1 /\ s.src = "in" /\ s.dst = Out
        /\ s.loop = "none"
    BY DEF BoundaryRows, Step
  <2> HIDE DEF s
  <2>3. cfg.inPlace /\ cfg.type # "c2c" => cfg.batch = 1
    BY Shapes DEF Sound, Pos
  <2>4. \A f : Extent(0, f) = 1 /\ Extent(1, f) = 1
    BY <1>1, <2>1 DEF Extent
  <2>5. /\ Lies(x, 1, 2, 0, 1, Given, Straight) /\ Lies(y, 1, 2, 0, 1, Wanted, Straight)
    BY <2>3, <2>4 DEF Lies, Straight
  <2>6. InPlaceSafe(s)
    <3>1. \/ "in" # Out
          \/ x = y /\ Given = Wanted
          \/ x = "padded" \/ y = "padded"
      BY Shapes, FormNames DEF Out
    <3> HIDE DEF x, y
    <3> QED
      BY <2>2, <3>1 DEF InPlaceSafe
  <2> HIDE DEF x, y
  <2>7. Nontrivial({0, 1} \ {2}) \subseteq Nontrivial({})
    BY <1>1, <2>1 DEF Nontrivial
  <2>8. Looped(s, 2, 0, 1, Given)
    BY <2>2 DEF Looped
  <2>9. AxisStep(s, 2, 0, 1, Straight, Straight, {}, {2})
    BY <1>1, <2>2, <2>5, <2>6, <2>7, <2>8, Unions, AxesOrders DEF AxisStep
  <2>10. Takes(s, At("in", Straight, Given, {}), At(Out, Straight, Wanted, {2}))
    BY <2>2, <2>9, AxisTakes
  <2>11. Carries(<<s>>, First, Final)
    BY <1>1, <2>1, <2>10, Flat, OneCarry DEF First, Final, Straight
  <2> QED
    BY <1>3, <2>11 DEF As1D, Delivers, s, x, y
<1> QED
  BY <1>2, <1>3

\* The 2D nodes of real-to-complex transforms.
LEMMA R2C2DDelivers ==
  ASSUME Configured, cfg.type = "r2c", n0 = 1
  PROVE  Delivers(R2CRow) /\ Delivers(R2C) /\ Delivers(R2CRC)
<1>1. /\ Wanted = Inner /\ Width(Inner) = half /\ \A S : Ready(S)
  BY FormNames, Widths DEF Ready
<1>2. /\ Between("t1", Inner, "t2", Inner) /\ Between("t2", Inner, "t1", Inner)
      /\ Between("t1", Inner, Out, Inner) /\ Between("t2", Inner, Out, Inner)
      /\ Between(Out, Inner, "t1", Inner) /\ Between(Out, Inner, Out, Inner)
      /\ Between("in", Given, "t1", Wanted) /\ Between("in", Given, "row", "full")
      /\ Between("row", "full", "row", "full") /\ Between("row", "full", Out, Wanted)
  BY Ends
<1>3. Final = At(Out, <<0, 1, 2>>, Inner, {1, 2}) /\ First = At("in", <<0, 1, 2>>, Given, {})
  BY <1>1, Flat DEF Final, First
<1>4. Takes(BoundaryRows("in", "t1"), First, At("t1", <<0, 1, 2>>, Inner, {2}))
  BY <1>1, <1>2, <1>3, Unions, CrossingTakes
<1>5. /\ Takes(Expand("in", "row"), First, At("row", <<0, 1, 2>>, "full", {}))
      /\ Takes(FullRows("row", "row"), At("row", <<0, 1, 2>>, "full", {}),
               At("row", <<0, 1, 2>>, "full", {2}))
      /\ Takes(Pack("row", Out), At("row", <<0, 1, 2>>, "full", {2}),
               At(Out, <<0, 1, 2>>, Inner, {2}))
  BY <1>1, <1>2, <1>3, Apart, Unions, PackedTakes
<1>6. Delivers(R2CRow)
  <2>1. Takes(Transpose(n1, half, "t1", "t2"), At("t1", <<0, 1, 2>>, Inner, {2}),
              At("t2", <<0, 2, 1>>, Inner, {2}))
    BY <1>1, <1>2, TransposesTake
  <2>2. Takes(Rows(1, "t2", "t1"), At("t2", <<0, 2, 1>>, Inner, {2}),
              At("t1", <<0, 2, 1>>, Inner, {1, 2}))
    BY <1>2, Unions, RowsTake
  <2>3. Takes(Transpose(half, n1, "t1", Out), At("t1", <<0, 2, 1>>, Inner, {1, 2}), Final)
    BY <1>1, <1>2, <1>3, Apart, TransposesTake
  <2> QED
    BY <1>4, <2>1, <2>2, <2>3, FourCarry DEF R2CRow, Delivers
<1>7. Delivers(R2C)
  <2>1. Takes(Transpose(n1, half, Out, "t1"), At(Out, <<0, 1, 2>>, Inner, {2}),
              At("t1", <<0, 2, 1>>, Inner, {2}))
    BY <1>1, <1>2, Apart, TransposesTake
  <2>2. Takes(Rows(1, "t1", "t2"), At("t1", <<0, 2, 1>>, Inner, {2}),
              At("t2", <<0, 2, 1>>, Inner, {1, 2}))
    BY <1>2, Unions, RowsTake
  <2>3. Takes(Transpose(half, n1, "t2", Out), At("t2", <<0, 2, 1>>, Inner, {1, 2}), Final)
    BY <1>1, <1>2, <1>3, Apart, TransposesTake
  <2> QED
    BY <1>5, <2>1, <2>2, <2>3, SixCarry DEF R2C, Delivers
<1>8. Delivers(R2CRC)
  <2>1. /\ Carries(Columns("t1", Out), At("t1", <<0, 1, 2>>, Inner, {2}), Final)
        /\ Carries(Columns(Out, Out), At(Out, <<0, 1, 2>>, Inner, {2}), Final)
    BY <1>2, <1>3, Apart, Unions, ColumnsCarry
  <2>2. Carries(<<BoundaryRows("in", "t1")>>, First, At("t1", <<0, 1, 2>>, Inner, {2}))
    BY <1>4, OneCarry
  <2>3. Carries(<<Expand("in", "row"), FullRows("row", "row"), Pack("row", Out)>>,
                First, At(Out, <<0, 1, 2>>, Inner, {2}))
    BY <1>5, ThreeCarry
  <2>4. /\ Carries(<<BoundaryRows("in", "t1")>> \o Columns("t1", Out), First, Final)
        /\ Carries(<<Expand("in", "row"), FullRows("row", "row"), Pack("row", Out)>>
                     \o Columns(Out, Out), First, Final)
    BY <2>1, <2>2, <2>3, CarriesOn
  <2> QED
    BY <2>4 DEF R2CRC, Delivers
<1> QED
  BY <1>6, <1>7, <1>8

\* The 2D nodes of complex-to-real transforms.
LEMMA C2R2DDelivers ==
  ASSUME Configured, cfg.type = "c2r", n0 = 1
  PROVE  Delivers(C2RRow) /\ Delivers(C2R) /\ Delivers(C2RRC)
<1>1. /\ Given = Inner /\ Width(Inner) = half /\ Ready({1})
  BY FormNames, Widths, Flat
<1>2. /\ Between("in", Inner, "t1", Inner)
      /\ Between("t1", Inner, "t2", Inner) /\ Between("t2", Inner, "t1", Inner)
      /\ Between("t1", Given, Out, Wanted) /\ Between("t1", Given, "row", "full")
      /\ Between("row", "full", "row", "full") /\ Between("row", "full", Out, Wanted)
  BY Ends
<1>3. Final = At(Out, <<0, 1, 2>>, Wanted, {1, 2}) /\ First = At("in", <<0, 1, 2>>, Inner, {})
  BY <1>1, Flat DEF Final, First
<1>4. Takes(BoundaryRows("t1", Out), At("t1", <<0, 1, 2>>, Inner, {1}), Final)
  BY <1>1, <1>2, <1>3, Apart, Unions, CrossingTakes
<1>5. /\ Takes(Expand("t1", "row"), At("t1", <<0, 1, 2>>, Inner, {1}),
               At("row", <<0, 1, 2>>, "full", {1}))
      /\ Takes(FullRows("row", "row"), At("row", <<0, 1, 2>>, "full", {1}),
               At("row", <<0, 1, 2>>, "full", {1, 2}))
      /\ Takes(Pack("row", Out), At("row", <<0, 1, 2>>, "full", {1, 2}), Final)
  BY <1>1, <1>2, <1>3, Apart, Unions, PackedTakes
<1>6. Takes(Transpose(n1, half, "in", "t1"), First, At("t1", <<0, 2, 1>>, Inner, {}))
  BY <1>1, <1>2, <1>3, TransposesTake
<1>7. Takes(Rows(1, "t1", "t2"), At("t1", <<0, 2, 1>>, Inner, {}),
            At("t2", <<0, 2, 1>>, Inner, {1}))
  BY <1>2, Unions, RowsTake
<1>8. Takes(Transpose(half, n1, "t2", "t1"), At("t2", <<0, 2, 1>>, Inner, {1}),
            At("t1", <<0, 1, 2>>, Inner, {1}))
  BY <1>1, <1>2, TransposesTake
<1>9. Delivers(C2RRow)
  BY <1>4, <1>6, <1>7, <1>8, FourCarry DEF C2RRow, Delivers
<1>10. Delivers(C2R)
  BY <1>5, <1>6, <1>7, <1>8, SixCarry DEF C2R, Delivers
<1>11. Delivers(C2RRC)
  <2>1. Carries(Columns("in", "t1"), First, At("t1", <<0, 1, 2>>, Inner, {1}))
    BY <1>2, <1>3, Unions, ColumnsCarry
  <2>2. Carries(<<BoundaryRows("t1", Out)>>, At("t1", <<0, 1, 2>>, Inner, {1}), Final)
    BY <1>4, OneCarry
  <2>3. Carries(<<Expand("t1", "row"), FullRows("row", "row"), Pack("row", Out)>>,
                At("t1", <<0, 1, 2>>, Inner, {1}), Final)
    BY <1>5, ThreeCarry
  <2> DEFINE L == At("t1", <<0, 1, 2>>, Inner, {1})  q == Columns("in", "t1")
             p1 == <<BoundaryRows("t1", Out)>>
             p2 == <<Expand("t1", "row"), FullRows("row", "row"), Pack("row", Out)>>
  <2>4. Carries(q, First, L) /\ Carries(p1, L, Final) /\ Carries(p2, L, Final)
    BY <2>1, <2>2, <2>3
  <2>5. C2RRC = q \o (IF cfg.kind = "2d_rc_row" THEN p1 ELSE p2)
    BY DEF C2RRC
  <2> HIDE DEF L, p1, p2, q
  <2>6. Carries(q \o p1, First, Final) /\ Carries(q \o p2, First, Final)
    BY <2>4, CarriesOn
  <2> QED
    BY <2>5, <2>6 DEF Delivers
<1> QED
  BY <1>9, <1>10, <1>11

\* The 3D nodes of real-to-complex transforms, up to the lines along axis 1.
LEMMA Forwards ==
  ASSUME Configured, cfg.type = "r2c"
  PROVE  /\ Wanted = Inner /\ Width(Inner) = half /\ cfg.type # "c2c" /\ Forward
         /\ First = At("in", <<0, 1, 2>>, Given, {}) /\ Final = At(Out, <<0, 1, 2>>, Inner, Axes)
         /\ Between("t1", Inner, "t2", Inner) /\ Between("t2", Inner, "t1", Inner)
         /\ Between("t1", Inner, Out, Inner) /\ Between("t2", Inner, Out, Inner)
         /\ Between(Out, Inner, "t1", Inner)
         /\ Takes(BoundaryRows("in", "t1"), First, At("t1", <<0, 1, 2>>, Inner, {2}))
         /\ Takes(RealOuterStore("in", "t2"), First, At("t2", <<0, 2, 1>>, Inner, {2}))
         /\ Takes(Permute3D(<<0, 2, 1>>, <<n0, n1, half>>, "t1", "t2"),
                  At("t1", <<0, 1, 2>>, Inner, {2}), At("t2", <<0, 2, 1>>, Inner, {2}))
         /\ Takes(Rows(1, "t2", "t1"), At("t2", <<0, 2, 1>>, Inner, {2}),
                  At("t1", <<0, 2, 1>>, Inner, {1, 2}))
         /\ Takes(Permute3D(<<2, 1, 0>>, <<n0, half, n1>>, "t1", "t2"),
                  At("t1", <<0, 2, 1>>, Inner, {1, 2}), At("t2", <<1, 2, 0>>, Inner, {1, 2}))
<1>1. /\ Wanted = Inner /\ Width(Inner) = half /\ Ready({}) /\ Forward
      /\ Given = "real" /\ Wanted = "half"
  BY FormNames, Widths DEF Ready, Forward
<1>2. /\ Between("t1", Inner, "t2", Inner) /\ Between("t2", Inner, "t1", Inner)
      /\ Between("t1", Inner, Out, Inner) /\ Between("t2", Inner, Out, Inner)
      /\ Between(Out, Inner, "t1", Inner)
      /\ Between("in", Given, "t1", Wanted) /\ Between("in", Given, "t2", Wanted)
  BY Ends
<1>3. First = At("in", <<0, 1, 2>>, Given, {}) /\ Final = At(Out, <<0, 1, 2>>, Inner, Axes)
  BY <1>1 DEF First, Final
<1>4. /\ Takes(BoundaryRows("in", "t1"), First, At("t1", <<0, 1, 2>>, Inner, {2}))
      /\ Takes(RealOuterStore("in", "t2"), First, At("t2", <<0, 2, 1>>, Inner, {2}))
  BY <1>1, <1>2, <1>3, Unions, CrossingTakes
<1>5. /\ Takes(Permute3D(<<0, 2, 1>>, <<n0, n1, half>>, "t1", "t2"),
               At("t1", <<0, 1, 2>>, Inner, {2}), At("t2", <<0, 2, 1>>, Inner, {2}))
      /\ Takes(Permute3D(<<2, 1, 0>>, <<n0, half, n1>>, "t1", "t2"),
               At("t1", <<0, 2, 1>>, Inner, {1, 2}), At("t2", <<1, 2, 0>>, Inner, {1, 2}))
  BY <1>2, PermutesTake
<1>6. Takes(Rows(1, "t2", "t1"), At("t2", <<0, 2, 1>>, Inner, {2}),
            At("t1", <<0, 2, 1>>, Inner, {1, 2}))
  BY <1>2, Unions, RowsTake
<1> QED
  BY <1>1, <1>2, <1>3, <1>4, <1>5, <1>6

\* Strided nodes, cubes and planes.
LEMMA R2CPlanesDeliver ==
  ASSUME Configured, cfg.type = "r2c"
  PROVE  /\ Delivers(StridedReal) /\ Delivers(PlaneReal)
         /\ ~cfg.inPlace => Delivers(<<RealCube("in", Out)>>)
<1>1. Delivers(StridedReal)
  <2>1. Takes(Lines(1, half, "t1", "t2"), At("t1", <<0, 1, 2>>, Inner, {2}),
              At("t2", <<0, 1, 2>>, Inner, {1, 2}))
    BY Forwards, Unions, SpansTake, OuterSpansTake
  <2>2. Takes(Lines(0, n1 * half, "t2", Out), At("t2", <<0, 1, 2>>, Inner, {1, 2}), Final)
    BY Forwards, Unions, SpansTake, OuterSpansTake
  <2> QED
    BY <2>1, <2>2, Forwards, ThreeCarry DEF StridedReal, Delivers
<1>2. Between("in", Given, "t1", Wanted) /\ Between("in", Given, Out, Wanted)
  BY Ends
<1>3. Delivers(PlaneReal)
  <2>1. Takes(RealPlane("in", "t1"), First, At("t1", <<0, 1, 2>>, Inner, {1, 2}))
    BY <1>2, Forwards, Unions, PlanesTake
  <2>2. Takes(Outermost("t1", Out), At("t1", <<0, 1, 2>>, Inner, {1, 2}), Final)
    BY Forwards, Unions, OuterSpansTake, ColumnsTake DEF Outermost
  <2> QED
    BY <2>1, <2>2, Forwards, TwoCarry DEF PlaneReal, Delivers
<1>4. ~cfg.inPlace => Delivers(<<RealCube("in", Out)>>)
  <2>1. ~cfg.inPlace => "in" # Out
    BY DEF Out
  <2>2. ~cfg.inPlace => Takes(RealCube("in", Out), First, Final)
    BY <1>2, <2>1, Forwards, Unions, PlanesTake
  <2> QED
    BY <2>2, OneCarry DEF Delivers
<1> QED
  BY <1>1, <1>3, <1>4

\* Rows along axis 0, and the last permutation or the store that replaces it.
LEMMA R2CEnds ==
  ASSUME Configured, cfg.type = "r2c", NEW a \in {"t1", "t2"}, NEW b \in {"t1", "t2"}, a # b
  PROVE  /\ Takes(OuterStore(0, n1 * half, a, Out), At(a, <<1, 2, 0>>, Inner, {1, 2}), Final)
         /\ Takes(Rows(0, a, b), At(a, <<1, 2, 0>>, Inner, {1, 2}),
                  At(b, <<1, 2, 0>>, Inner, Axes))
         /\ Takes(Permute3D(<<2, 0, 1>>, <<n1, half, n0>>, b, Out),
                  At(b, <<1, 2, 0>>, Inner, Axes), Final)
<1>1. /\ Between(a, Inner, b, Inner) /\ Between(a, Inner, Out, Inner)
      /\ Between(b, Inner, Out, Inner) /\ a # Out /\ b # Out
  BY Ends, Apart
<1>2. Takes(OuterStore(0, n1 * half, a, Out), At(a, <<1, 2, 0>>, Inner, {1, 2}), Final)
  BY <1>1, Forwards, Unions, SpansTake, OuterSpansTake
<1>3. Takes(Rows(0, a, b), At(a, <<1, 2, 0>>, Inner, {1, 2}),
            At(b, <<1, 2, 0>>, Inner, Axes))
  BY <1>1, Unions, RowsTake
<1>4. Takes(Permute3D(<<2, 0, 1>>, <<n1, half, n0>>, b, Out),
            At(b, <<1, 2, 0>>, Inner, Axes), Final)
  BY <1>1, Forwards, PermutesTake
<1> QED
  BY <1>2, <1>3, <1>4

\* The first permutation or the store that replaces it.
LEMMA R2CStarts ==
  ASSUME Configured, cfg.type = "r2c"
  PROVE  Carries(IF "first" \in cfg.fused THEN <<RealOuterStore("in", "t2")>>
                 ELSE <<BoundaryRows("in", "t1"),
                        Permute3D(<<0, 2, 1>>, <<n0, n1, half>>, "t1", "t2")>>,
                 First, At("t2", <<0, 2, 1>>, Inner, {2}))
<1>1. Carries(<<RealOuterStore("in", "t2")>>, First, At("t2", <<0, 2, 1>>, Inner, {2}))
  BY Forwards, OneCarry
<1>2. Carries(<<BoundaryRows("in", "t1"),
                Permute3D(<<0, 2, 1>>, <<n0, n1, half>>, "t1", "t2")>>,
              First, At("t2", <<0, 2, 1>>, Inner, {2}))
  BY Forwards, TwoCarry
<1> QED
  BY <1>1, <1>2

LEMMA R2CMiddle ==
  ASSUME Configured, cfg.type = "r2c", cfg.batch = 1
  PROVE  Takes(InnerStore(1, half, "t2", "t1"), At("t2", <<0, 2, 1>>, Inner, {2}),
               At("t1", <<1, 2, 0>>, Inner, {1, 2}))
BY Forwards, Unions, SpansTake, OuterSpansTake

\* The node of leaves with permuting stores.
LEMMA LeafR2CDelivers ==
  ASSUME Configured, cfg.type = "r2c", "load" \notin cfg.fused,
         "middle" \in cfg.fused => cfg.batch = 1
  PROVE  Delivers(LeafR2C)
<1> DEFINE p == IF "first" \in cfg.fused THEN <<RealOuterStore("in", "t2")>>
                ELSE <<BoundaryRows("in", "t1"),
                       Permute3D(<<0, 2, 1>>, <<n0, n1, half>>, "t1", "t2")>>
           q == <<MiddleLeaf("t2", "t1")>>
           r == IF "middle" \in cfg.fused
                THEN <<OuterStore(0, n1 * half, "t1", Out)>>
                ELSE <<Permute3D(<<2, 1, 0>>, <<n0, half, n1>>, "t1", "t2"),
                       OuterStore(0, n1 * half, "t2", Out)>>
           L == At("t2", <<0, 2, 1>>, Inner, {2})
           M == At("t1", IF "middle" \in cfg.fused THEN <<1, 2, 0>> ELSE <<0, 2, 1>>,
                   Inner, {1, 2})
<1>1. LeafR2C = p \o q \o r
  BY DEF LeafR2C
<1>2. Carries(p, First, L)
  BY R2CStarts
<1>3. Carries(q, L, M)
  <2>1. CASE "middle" \in cfg.fused
    BY <2>1, R2CMiddle, OneCarry DEF MiddleLeaf
  <2>2. CASE "middle" \notin cfg.fused
    BY <2>2, Forwards, OneCarry DEF MiddleLeaf
  <2> QED
    BY <2>1, <2>2
<1>4. Carries(r, M, Final)
  <2>1. CASE "middle" \in cfg.fused
    BY <2>1, R2CEnds, OneCarry
  <2>2. CASE "middle" \notin cfg.fused
    BY <2>2, Forwards, R2CEnds, TwoCarry
  <2> QED
    BY <2>1, <2>2
<1> HIDE DEF p, q, r, L, M
<1>5. Carries(p \o q, First, M)
  BY <1>2, <1>3, CarriesOn
<1>6. Carries((p \o q) \o r, First, Final)
  BY <1>4, <1>5, CarriesOn
<1> QED
  BY <1>1, <1>6 DEF Delivers

\* The nodes that keep their permutations.
LEMMA R2CPermutedDeliver ==
  ASSUME Configured, cfg.type = "r2c"
  PROVE  Delivers(FirstStore) /\ Delivers(Transposed) /\ Delivers(R2C3D)
<1>1. /\ Takes(Rows(0, "t2", "t1"), At("t2", <<1, 2, 0>>, Inner, {1, 2}),
               At("t1", <<1, 2, 0>>, Inner, Axes))
      /\ Takes(Permute3D(<<2, 0, 1>>, <<n1, half, n0>>, "t1", Out),
               At("t1", <<1, 2, 0>>, Inner, Axes), Final)
      /\ Takes(Rows(0, "t1", "t2"), At("t1", <<1, 2, 0>>, Inner, {1, 2}),
               At("t2", <<1, 2, 0>>, Inner, Axes))
      /\ Takes(Permute3D(<<2, 0, 1>>, <<n1, half, n0>>, "t2", Out),
               At("t2", <<1, 2, 0>>, Inner, Axes), Final)
  BY R2CEnds
<1>2. Delivers(Transposed)
  BY <1>1, Forwards, SixCarry DEF Transposed, Delivers
<1>3. Delivers(FirstStore)
  <2>1. Carries(<<RealOuterStore("in", "t2"), Rows(1, "t2", "t1"),
                  Permute3D(<<2, 1, 0>>, <<n0, half, n1>>, "t1", "t2")>>,
                First, At("t2", <<1, 2, 0>>, Inner, {1, 2}))
    BY Forwards, ThreeCarry
  <2>2. Carries(<<Rows(0, "t2", "t1"), Permute3D(<<2, 0, 1>>, <<n1, half, n0>>, "t1", Out)>>,
                At("t2", <<1, 2, 0>>, Inner, {1, 2}), Final)
    BY <1>1, TwoCarry
  <2> DEFINE p == <<RealOuterStore("in", "t2"), Rows(1, "t2", "t1"),
                    Permute3D(<<2, 1, 0>>, <<n0, half, n1>>, "t1", "t2")>>
             q == <<Rows(0, "t2", "t1"), Permute3D(<<2, 0, 1>>, <<n1, half, n0>>, "t1", Out)>>
  <2>3. FirstStore = p \o q
    BY DEF FirstStore
  <2> HIDE DEF p, q
  <2>4. Carries(p, First, At("t2", <<1, 2, 0>>, Inner, {1, 2}))
        /\ Carries(q, At("t2", <<1, 2, 0>>, Inner, {1, 2}), Final)
    BY <2>1, <2>2 DEF p, q
  <2> QED
    BY <2>3, <2>4, CarriesOn DEF Delivers
<1>4. Delivers(R2C3D)
  <2>1. /\ Between("in", Given, "row", "full") /\ Between("row", "full", "row", "full")
        /\ Between("row", "full", Out, Wanted)
    BY Ends
  <2>2. Ready({})
    BY DEF Ready
  <2>3. /\ Takes(Expand("in", "row"), First, At("row", <<0, 1, 2>>, "full", {}))
        /\ Takes(FullRows("row", "row"), At("row", <<0, 1, 2>>, "full", {}),
                 At("row", <<0, 1, 2>>, "full", {2}))
        /\ Takes(Pack("row", Out), At("row", <<0, 1, 2>>, "full", {2}),
                 At(Out, <<0, 1, 2>>, Inner, {2}))
    BY <2>1, <2>2, Forwards, Apart, Unions, PackedTakes
  <2>4. /\ Takes(Permute3D(<<0, 2, 1>>, <<n0, n1, half>>, Out, "t1"),
                 At(Out, <<0, 1, 2>>, Inner, {2}), At("t1", <<0, 2, 1>>, Inner, {2}))
        /\ Takes(Permute3D(<<2, 1, 0>>, <<n0, half, n1>>, "t2", "t1"),
                 At("t2", <<0, 2, 1>>, Inner, {1, 2}), At("t1", <<1, 2, 0>>, Inner, {1, 2}))
    BY Forwards, Apart, PermutesTake
  <2>5. Takes(Rows(1, "t1", "t2"), At("t1", <<0, 2, 1>>, Inner, {2}),
              At("t2", <<0, 2, 1>>, Inner, {1, 2}))
    BY Forwards, Unions, RowsTake
  <2> QED
    BY <1>1, <2>3, <2>4, <2>5, EightCarry DEF R2C3D, Delivers
<1> QED
  BY <1>2, <1>3, <1>4

\* The RTRT nodes, with any of their permutations fused.
LEMMA RtrtR2CDelivers ==
  ASSUME Configured, cfg.type = "r2c", "middle" \in cfg.fused => cfg.batch = 1
  PROVE  Delivers(RtrtR2C)
<1> DEFINE middle == "middle" \notin cfg.fused
           x == IF middle THEN "t2" ELSE "t1"
           y == IF FusedLast THEN Out ELSE IF middle THEN "t1" ELSE "t2"
           p == IF "first" \in cfg.fused THEN <<RealOuterStore("in", "t2")>>
                ELSE <<BoundaryRows("in", "t1"),
                       Permute3D(<<0, 2, 1>>, <<n0, n1, half>>, "t1", "t2")>>
           q == IF middle
                THEN <<Rows(1, "t2", "t1"),
                       Permute3D(<<2, 1, 0>>, <<n0, half, n1>>, "t1", "t2")>>
                ELSE <<InnerStore(1, half, "t2", "t1")>>
           r == <<LastLeaf(x, y)>>
           t == IF FusedLast THEN <<>>
                ELSE <<Permute3D(<<2, 0, 1>>, <<n1, half, n0>>, y, Out)>>
           L == At("t2", <<0, 2, 1>>, Inner, {2})
           M == At(x, <<1, 2, 0>>, Inner, {1, 2})
           N == IF FusedLast THEN Final ELSE At(y, <<1, 2, 0>>, Inner, Axes)
<1>1. RtrtR2C = p \o q \o r \o t
  BY DEF RtrtR2C
<1>2. Carries(p, First, L)
  BY R2CStarts
<1>3. Carries(q, L, M)
  <2>1. CASE middle
    BY <2>1, Forwards, TwoCarry
  <2>2. CASE ~middle
    BY <2>2, R2CMiddle, OneCarry
  <2> QED
    BY <2>1, <2>2
<1>4. x \in {"t1", "t2"} /\ (FusedLast => y = Out) /\ (~FusedLast => y \in {"t1", "t2"} /\ x # y)
  OBVIOUS
<1> HIDE DEF x, y, p, q, M, middle
<1>5. Carries(r, M, N)
  <2>1. CASE FusedLast
    <3>1. Takes(OuterStore(0, n1 * half, x, Out), M, Final)
      BY <1>4, R2CEnds DEF M
    <3> QED
      BY <1>4, <2>1, <3>1, OneCarry DEF LastLeaf
  <2>2. CASE ~FusedLast
    <3>1. Takes(Rows(0, x, y), M, At(y, <<1, 2, 0>>, Inner, Axes))
      BY <1>4, <2>2, R2CEnds DEF M
    <3> QED
      BY <2>2, <3>1, OneCarry DEF LastLeaf
  <2> QED
    BY <2>1, <2>2
<1>6. Carries(p \o q, First, M)
  BY <1>2, <1>3, CarriesOn
<1>7. Carries((p \o q) \o r, First, N)
  <2> HIDE DEF r, N
  <2> QED
    BY <1>5, <1>6, CarriesOn
<1> DEFINE z == p \o q \o r
<1>8. Carries(z, First, N) /\ RtrtR2C = z \o t
  BY <1>1, <1>7
<1> HIDE DEF z, L, r
<1>9. CASE FusedLast
  <2>1. \E S : z \in Seq(S)
    BY <1>8 DEF Carries
  <2>2. z \o <<>> = z
    BY <2>1
  <2> QED
    BY <1>8, <1>9, <2>2 DEF Delivers
<1>10. CASE ~FusedLast
  <2> DEFINE s == Permute3D(<<2, 0, 1>>, <<n1, half, n0>>, y, Out)
  <2>1. Takes(s, At(y, <<1, 2, 0>>, Inner, Axes), Final)
    BY <1>4, <1>10, R2CEnds
  <2> HIDE DEF s
  <2>2. Carries(<<s>>, At(y, <<1, 2, 0>>, Inner, Axes), Final)
    BY <2>1, OneCarry
  <2>3. RtrtR2C = z \o <<s>> /\ N = At(y, <<1, 2, 0>>, Inner, Axes)
    BY <1>8, <1>10 DEF s
  <2> HIDE DEF N
  <2> QED
    BY <1>8, <2>2, <2>3, CarriesOn DEF Delivers
<1> QED
  BY <1>9, <1>10

\* The RTRT node that stores transposed, item by item.
LEMMA RtrtOuterDelivers ==
  ASSUME Configured, cfg.type # "c2c"
  PROVE  Delivers(RtrtOuter)
<1>1. /\ Between("t1", Inner, "t2", Inner) /\ Between("t2", Inner, "t1", Inner)
  BY Ends
<1>2. CASE cfg.type = "r2c"
  <2>1. Takes(Permute3D(<<2, 0, 1>>, <<n0, n1, half>>, "t1", "t2"),
              At("t1", <<0, 1, 2>>, Inner, {2}), At("t2", <<2, 0, 1>>, Inner, {2}))
    BY <1>1, <1>2, PermutesTake
  <2>2. Takes(PerItem(OuterStore(1, n0 * half, "t2", "t1")),
              At("t2", <<2, 0, 1>>, Inner, {2}), At("t1", <<1, 2, 0>>, Inner, {1, 2}))
    BY <1>1, <1>2, Unions, ItemsTake
  <2>3. Takes(PerItem(OuterStore(0, n1 * half, "t1", Out)),
              At("t1", <<1, 2, 0>>, Inner, {1, 2}), Final)
    BY <1>2, Forwards, Apart, Unions, ItemsTake
  <2> QED
    BY <1>2, <2>1, <2>2, <2>3, Forwards, FourCarry DEF RtrtOuter, Delivers
<1>3. CASE cfg.type = "c2r"
  <2>1. Given = Inner /\ ~Forward /\ Between("in", Inner, "t1", Inner)
        /\ Between("t1", Given, Out, Wanted)
    BY <1>3, FormNames, Ends
  <2>2. First = At("in", <<0, 1, 2>>, Inner, {}) /\ Ready({0, 1})
    BY <2>1 DEF First, Ready
  <2>3. Takes(Permute3D(<<2, 0, 1>>, <<n0, n1, half>>, "in", "t1"), First,
              At("t1", <<2, 0, 1>>, Inner, {}))
    BY <1>3, <2>1, <2>2, PermutesTake
  <2>4. Takes(PerItem(OuterStore(1, n0 * half, "t1", "t2")),
              At("t1", <<2, 0, 1>>, Inner, {}), At("t2", <<1, 2, 0>>, Inner, {1}))
    BY <1>1, <1>3, Unions, ItemsTake
  <2>5. Takes(PerItem(OuterStore(0, n1 * half, "t2", "t1")),
              At("t2", <<1, 2, 0>>, Inner, {1}), At("t1", <<0, 1, 2>>, Inner, {0, 1}))
    BY <1>1, <1>3, Unions, ItemsTake
  <2>6. Takes(BoundaryRows("t1", Out), At("t1", <<0, 1, 2>>, Inner, {0, 1}), Final)
    BY <2>1, <2>2, Apart, Unions, CrossingTakes DEF Final
  <2> QED
    BY <2>1, <2>3, <2>4, <2>5, <2>6, FourCarry DEF RtrtOuter, Delivers
<1> QED
  BY <1>2, <1>3, Shapes

\* The 3D nodes of complex-to-real transforms: where they begin and end.
LEMMA Backwards ==
  ASSUME Configured, cfg.type = "c2r"
  PROVE  /\ Given = Inner /\ Width(Inner) = half /\ cfg.type # "c2c" /\ ~Forward
         /\ First = At("in", <<0, 1, 2>>, Inner, {}) /\ Ready({0, 1})
         /\ Between("in", Inner, "t1", Inner) /\ Between("in", Inner, "t2", Inner)
         /\ Between("t1", Inner, "t2", Inner) /\ Between("t2", Inner, "t1", Inner)
         /\ Takes(BoundaryRows("t1", Out), At("t1", <<0, 1, 2>>, Inner, {0, 1}), Final)
         /\ Takes(BoundaryRows("t2", Out), At("t2", <<0, 1, 2>>, Inner, {0, 1}), Final)
         /\ Takes(Permute3D(<<0, 2, 1>>, <<n0, n1, half>>, "in", "t1"), First,
                  At("t1", <<0, 2, 1>>, Inner, {}))
         /\ Takes(Rows(1, "t1", "t2"), At("t1", <<0, 2, 1>>, Inner, {}),
                  At("t2", <<0, 2, 1>>, Inner, {1}))
         /\ Takes(Permute3D(<<2, 1, 0>>, <<n0, half, n1>>, "t2", "t1"),
                  At("t2", <<0, 2, 1>>, Inner, {1}), At("t1", <<1, 2, 0>>, Inner, {1}))
         /\ Takes(OuterStore(0, n1 * half, "t1", "t2"), At("t1", <<1, 2, 0>>, Inner, {1}),
                  At("t2", <<0, 1, 2>>, Inner, {0, 1}))
         /\ Takes(OuterStore(0, n1 * half, "t2", "t1"), At("t2", <<1, 2, 0>>, Inner, {1}),
                  At("t1", <<0, 1, 2>>, Inner, {0, 1}))
<1>1. /\ Given = Inner /\ Width(Inner) = half /\ ~Forward
  BY FormNames, Widths
<1>2. First = At("in", <<0, 1, 2>>, Inner, {}) /\ Ready({0, 1})
  BY <1>1 DEF First, Ready
<1>3. /\ Between("in", Inner, "t1", Inner) /\ Between("in", Inner, "t2", Inner)
      /\ Between("t1", Inner, "t2", Inner) /\ Between("t2", Inner, "t1", Inner)
      /\ Between("t1", Given, Out, Wanted) /\ Between("t2", Given, Out, Wanted)
  BY Ends
<1>4. /\ Takes(BoundaryRows("t1", Out), At("t1", <<0, 1, 2>>, Inner, {0, 1}), Final)
      /\ Takes(BoundaryRows("t2", Out), At("t2", <<0, 1, 2>>, Inner, {0, 1}), Final)
  BY <1>1, <1>2, <1>3, Apart, Unions, CrossingTakes DEF Final
<1>5. /\ Takes(Permute3D(<<0, 2, 1>>, <<n0, n1, half>>, "in", "t1"), First,
               At("t1", <<0, 2, 1>>, Inner, {}))
      /\ Takes(Permute3D(<<2, 1, 0>>, <<n0, half, n1>>, "t2", "t1"),
               At("t2", <<0, 2, 1>>, Inner, {1}), At("t1", <<1, 2, 0>>, Inner, {1}))
  BY <1>2, <1>3, PermutesTake
<1>6. Takes(Rows(1, "t1", "t2"), At("t1", <<0, 2, 1>>, Inner, {}),
            At("t2", <<0, 2, 1>>, Inner, {1}))
  BY <1>3, Unions, RowsTake
<1>7. /\ Takes(OuterStore(0, n1 * half, "t1", "t2"), At("t1", <<1, 2, 0>>, Inner, {1}),
               At("t2", <<0, 1, 2>>, Inner, {0, 1}))
      /\ Takes(OuterStore(0, n1 * half, "t2", "t1"), At("t2", <<1, 2, 0>>, Inner, {1}),
               At("t1", <<0, 1, 2>>, Inner, {0, 1}))
  BY <1>1, <1>3, Unions, OuterSpansTake
<1> QED
  BY <1>1, <1>2, <1>3, <1>4, <1>5, <1>6, <1>7

LEMMA C2RPlanesDeliver ==
  ASSUME Configured, cfg.type = "c2r"
  PROVE  Delivers(StridedReal) /\ Delivers(PlaneReal)
<1>1. Delivers(StridedReal)
  <2>1. Takes(Lines(1, half, "in", "t1"), At("in", <<0, 1, 2>>, Inner, {}),
              At("t1", <<0, 1, 2>>, Inner, {1}))
    BY Backwards, Unions, SpansTake
  <2>2. Takes(Lines(0, n1 * half, "t1", "t2"), At("t1", <<0, 1, 2>>, Inner, {1}),
              At("t2", <<0, 1, 2>>, Inner, {0, 1}))
    BY Backwards, Unions, OuterSpansTake
  <2> QED
    BY <2>1, <2>2, Backwards, ThreeCarry DEF StridedReal, Delivers
<1>2. Delivers(PlaneReal)
  <2>1. Takes(Outermost("in", "t1"), First, At("t1", <<0, 1, 2>>, Inner, {0}))
    BY Backwards, Unions, OuterSpansTake, ColumnsTake DEF Outermost
  <2>2. Between("t1", Given, Out, Wanted)
    BY Ends
  <2>3. Takes(RealPlane("t1", Out), At("t1", <<0, 1, 2>>, Inner, {0}), Final)
    BY <2>2, Backwards, Apart, Unions, PlanesTake DEF Final
  <2> QED
    BY <2>1, <2>3, Backwards, TwoCarry DEF PlaneReal, Delivers
<1> QED
  BY <1>1, <1>2

LEMMA LeafC2RDelivers ==
  ASSUME Configured, cfg.type = "c2r",
         "load" \in cfg.fused => "middle" \in cfg.fused,
         "middle" \in cfg.fused => cfg.batch = 1
  PROVE  Delivers(LeafC2R)
<1> DEFINE p == IF "load" \in cfg.fused THEN <<MiddleLeaf("in", "t2")>>
                ELSE <<Permute3D(<<0, 2, 1>>, <<n0, n1, half>>, "in", "t1"),
                       MiddleLeaf("t1", "t2")>>
           q == IF "middle" \in cfg.fused
                THEN <<OuterStore(0, n1 * half, "t2", "t1"), BoundaryRows("t1", Out)>>
                ELSE <<Permute3D(<<2, 1, 0>>, <<n0, half, n1>>, "t2", "t1"),
                       OuterStore(0, n1 * half, "t1", "t2"), BoundaryRows("t2", Out)>>
           M == At("t2", IF "middle" \in cfg.fused THEN <<1, 2, 0>> ELSE <<0, 2, 1>>,
                   Inner, {1})
<1>1. LeafC2R = p \o q
  BY DEF LeafC2R
<1>2. Carries(p, First, M)
  <2>1. CASE "load" \in cfg.fused
    <3>1. Takes([InnerStore(1, half, "in", "t2") EXCEPT !.load = "strided"],
                At("in", <<0, 1, 2>>, Inner, {}), At("t2", <<1, 2, 0>>, Inner, {1}))
      BY <2>1, Backwards, Unions, SpansTake, ZenonT(60)
    <3> QED
      BY <2>1, <3>1, Backwards, OneCarry DEF MiddleLeaf
  <2>2. CASE "load" \notin cfg.fused /\ "middle" \in cfg.fused
    <3>1. Takes(InnerStore(1, half, "t1", "t2"), At("t1", <<0, 2, 1>>, Inner, {}),
                At("t2", <<1, 2, 0>>, Inner, {1}))
      BY <2>2, Backwards, Unions, SpansTake, ZenonT(60)
    <3> QED
      BY <2>2, <3>1, Backwards, TwoCarry DEF MiddleLeaf
  <2>3. CASE "middle" \notin cfg.fused
    BY <2>3, Backwards, TwoCarry DEF MiddleLeaf
  <2> QED
    BY <2>1, <2>2, <2>3
<1>3. Carries(q, M, Final)
  <2>1. CASE "middle" \in cfg.fused
    BY <2>1, Backwards, TwoCarry
  <2>2. CASE "middle" \notin cfg.fused
    BY <2>2, Backwards, ThreeCarry
  <2> QED
    BY <2>1, <2>2
<1> HIDE DEF p, q, M
<1> QED
  BY <1>1, <1>2, <1>3, CarriesOn DEF Delivers

LEMMA C2RPermutedDeliver ==
  ASSUME Configured, cfg.type = "c2r"
  PROVE  Delivers(Transposed) /\ Delivers(C2R3D)
<1>1. /\ Takes(Permute3D(<<1, 2, 0>>, <<n0, n1, half>>, "in", "t1"), First,
               At("t1", <<1, 2, 0>>, Inner, {}))
      /\ Takes(Permute3D(<<2, 1, 0>>, <<n1, half, n0>>, "t2", "t1"),
               At("t2", <<1, 2, 0>>, Inner, {0}), At("t1", <<0, 2, 1>>, Inner, {0}))
      /\ Takes(Permute3D(<<0, 2, 1>>, <<n0, half, n1>>, "t2", "t1"),
               At("t2", <<0, 2, 1>>, Inner, {0, 1}), At("t1", <<0, 1, 2>>, Inner, {0, 1}))
  BY Backwards, PermutesTake
<1>2. /\ Takes(Rows(0, "t1", "t2"), At("t1", <<1, 2, 0>>, Inner, {}),
               At("t2", <<1, 2, 0>>, Inner, {0}))
      /\ Takes(Rows(1, "t1", "t2"), At("t1", <<0, 2, 1>>, Inner, {0}),
               At("t2", <<0, 2, 1>>, Inner, {0, 1}))
  BY Backwards, Unions, RowsTake
<1>3. Delivers(Transposed)
  BY <1>1, <1>2, Backwards, SixCarry DEF Transposed, Delivers
<1>4. Delivers(C2R3D)
  <2>1. /\ Between("t1", Given, "row", "full") /\ Between("row", "full", "row", "full")
        /\ Between("row", "full", Out, Wanted)
    BY Ends
  <2>2. /\ Takes(Expand("t1", "row"), At("t1", <<0, 1, 2>>, Inner, {0, 1}),
                 At("row", <<0, 1, 2>>, "full", {0, 1}))
        /\ Takes(FullRows("row", "row"), At("row", <<0, 1, 2>>, "full", {0, 1}),
                 At("row", <<0, 1, 2>>, "full", Axes))
        /\ Takes(Pack("row", Out), At("row", <<0, 1, 2>>, "full", Axes), Final)
    BY <2>1, Backwards, Apart, Unions, PackedTakes DEF Final
  <2> QED
    BY <1>1, <1>2, <2>2, EightCarry DEF C2R3D, Delivers
<1> QED
  BY <1>3, <1>4

LEMMA RtrtC2RDelivers ==
  ASSUME Configured, cfg.type = "c2r"
  PROVE  Delivers(RtrtC2R)
<1> DEFINE p == <<Permute3D(<<0, 2, 1>>, <<n0, n1, half>>, "in", "t1"),
                  Rows(1, "t1", "t2"),
                  Permute3D(<<2, 1, 0>>, <<n0, half, n1>>, "t2", "t1"),
                  LastLeaf("t1", "t2")>>
           q == IF FusedLast THEN <<BoundaryRows("t2", Out)>>
                ELSE <<Permute3D(<<2, 0, 1>>, <<n1, half, n0>>, "t2", "t1"),
                       BoundaryRows("t1", Out)>>
           M == At("t2", IF FusedLast THEN <<0, 1, 2>> ELSE <<1, 2, 0>>, Inner, {0, 1})
<1>1. RtrtC2R = p \o q
  BY DEF RtrtC2R
<1>2. Takes(LastLeaf("t1", "t2"), At("t1", <<1, 2, 0>>, Inner, {1}), M)
  <2>1. Takes(Rows(0, "t1", "t2"), At("t1", <<1, 2, 0>>, Inner, {1}),
              At("t2", <<1, 2, 0>>, Inner, {0, 1}))
    BY Backwards, Unions, RowsTake
  <2> QED
    BY <2>1, Backwards DEF LastLeaf
<1>3. Carries(p, First, M)
  <2> HIDE DEF M
  <2> QED
    BY <1>2, Backwards, FourCarry
<1>4. Carries(q, M, Final)
  <2>1. Takes(Permute3D(<<2, 0, 1>>, <<n1, half, n0>>, "t2", "t1"),
              At("t2", <<1, 2, 0>>, Inner, {0, 1}), At("t1", <<0, 1, 2>>, Inner, {0, 1}))
    BY Backwards, PermutesTake
  <2> QED
    BY <2>1, Backwards, OneCarry, TwoCarry
<1> HIDE DEF p, q, M
<1> QED
  BY <1>1, <1>3, <1>4, CarriesOn DEF Delivers

LEMMA Program2DDelivers ==
  ASSUME Configured, Sound, cfg.rank = 2
  PROVE  Delivers(Program2D)
<1>1. n0 = 1 /\ cfg.n0 = 1
  BY Shapes DEF n0
<1>2. CASE cfg.kind = "as_1d"
  <2>1. HasUnitAxis(cfg)
    BY <1>2 DEF Configured, Admits, Admits2D, AdmitsR2C2D, AdmitsC2R2D
  <2> QED
    BY <1>2, <2>1, As1DDelivers DEF Program2D
<1>3. CASE cfg.kind # "as_1d" /\ cfg.type = "c2c"
  <2>1. cfg.kind \in {"2d_fused", "2d_rc", "2d_rc_four", "2d", "2d_rc_outer"}
    BY <1>3 DEF Configured, Admits, Admits2D
  <2>2. Delivers(TwoD) /\ Delivers(TwoDFused) /\ Delivers(TwoDRC)
    BY <1>1, <1>3, Complex2DDelivers, RCDelivers
  <2> QED
    BY <1>3, <2>1, <2>2 DEF Program2D
<1>4. CASE cfg.kind # "as_1d" /\ cfg.type = "r2c"
  <2>1. cfg.kind \in {"2d_rc", "2d_rc_four", "2d_rc_row", "2d", "2d_row"}
    BY <1>4 DEF Configured, Admits, AdmitsR2C2D
  <2>2. Delivers(R2CRow) /\ Delivers(R2C) /\ Delivers(R2CRC)
    BY <1>1, <1>4, R2C2DDelivers
  <2> QED
    BY <1>4, <2>1, <2>2 DEF Program2D
<1>5. CASE cfg.kind # "as_1d" /\ cfg.type = "c2r"
  <2>1. cfg.kind \in {"2d_rc", "2d_rc_four", "2d_rc_row", "2d", "2d_row"}
    BY <1>5 DEF Configured, Admits, AdmitsC2R2D
  <2>2. Delivers(C2RRow) /\ Delivers(C2R) /\ Delivers(C2RRC)
    BY <1>1, <1>5, C2R2DDelivers
  <2> QED
    BY <1>5, <2>1, <2>2 DEF Program2D
<1> QED
  BY <1>2, <1>3, <1>4, <1>5, Shapes

\* What is fused into the kernels of a real 3D node.
LEMMA Fused3D ==
  ASSUME Configured, Sound, cfg.rank = 3
  PROVE  /\ cfg.kind \in {"strided", "plane", "plane_column", "cube", "leaf", "first_store",
                          "transposed", "rtrt", "rtrt_outer", "rtrt_final", "3d"}
         /\ cfg.kind \in {"cube", "first_store"} => cfg.type = "r2c"
         /\ cfg.kind = "cube" => ~cfg.inPlace
         /\ cfg.kind = "leaf" =>
              /\ "load" \in cfg.fused => cfg.type = "c2r" /\ "middle" \in cfg.fused
              /\ "middle" \in cfg.fused => cfg.batch = 1
         /\ cfg.kind \in {"rtrt", "rtrt_final"} /\ "middle" \in cfg.fused => cfg.batch = 1
<1>1. \/ AdmitsPlane(cfg) \/ AdmitsLeaf(cfg) \/ AdmitsRtrt(cfg) \/ cfg.kind = "3d"
  BY DEF Configured, Admits, Admits3D
<1>2. cfg.kind \in {"strided", "plane", "plane_column", "cube", "leaf", "first_store",
                    "transposed", "rtrt", "rtrt_outer", "rtrt_final", "3d"}
  BY <1>1 DEF AdmitsPlane, AdmitsLeaf, AdmitsRtrt
<1>3. cfg.kind \in {"cube", "first_store"} => cfg.type = "r2c"
  BY <1>1 DEF AdmitsPlane, AdmitsLeaf, AdmitsRtrt
<1>4. cfg.kind = "leaf" /\ "load" \in cfg.fused => cfg.type = "c2r" /\ "middle" \in cfg.fused
  BY <1>1 DEF AdmitsPlane, AdmitsLeaf, AdmitsRtrt
<1>5. cfg.kind = "leaf" /\ "middle" \in cfg.fused => cfg.batch = 1
  BY Shapes DEF Sound, Pos
<1>6. cfg.kind = "rtrt" /\ "middle" \in cfg.fused => cfg.batch = 1
  BY <1>1 DEF AdmitsPlane, AdmitsLeaf, AdmitsRtrt
<1>7. cfg.kind = "rtrt_final" => "middle" \notin cfg.fused
  BY DEF Configured, Admits
<1> QED
  BY <1>2, <1>3, <1>4, <1>5, <1>6, <1>7 DEF Sound

LEMMA ProgramDelivers ==
  ASSUME Configured, Sound
  PROVE  Delivers(Program)
<1>1. CASE cfg.rank = 2
  BY <1>1, Program2DDelivers DEF Program
<1>2. CASE cfg.rank # 2
  <2>1. cfg.rank = 3 /\ cfg.type \in {"r2c", "c2r"}
    BY <1>2, Shapes
  <2>2. Program = Program3D
    BY <1>2 DEF Program
  <2>3. CASE cfg.type = "r2c"
    <3>1. Forward
      BY <2>3 DEF Forward
    <3>2. /\ Delivers(StridedReal) /\ Delivers(PlaneReal) /\ Delivers(RtrtOuter)
          /\ Delivers(FirstStore) /\ Delivers(Transposed) /\ Delivers(R2C3D)
      BY <2>3, R2CPlanesDeliver, R2CPermutedDeliver, RtrtOuterDelivers
    <3>3. cfg.kind = "cube" => Delivers(<<RealCube("in", Out)>>)
      BY <2>1, <2>3, Fused3D, R2CPlanesDeliver
    <3>4. cfg.kind = "leaf" => Delivers(LeafR2C)
      BY <2>1, <2>3, Fused3D, LeafR2CDelivers
    <3>5. cfg.kind \in {"rtrt", "rtrt_final"} => Delivers(RtrtR2C)
      BY <2>1, <2>3, Fused3D, RtrtR2CDelivers
    <3>6. cfg.kind \in {"strided", "plane", "plane_column", "cube", "leaf", "first_store",
                        "transposed", "rtrt", "rtrt_outer", "rtrt_final", "3d"}
      BY <2>1, Fused3D
    <3>7. Delivers(Program3D)
      BY <3>1, <3>2, <3>3, <3>4, <3>5, <3>6 DEF Program3D
    <3> QED
      BY <2>2, <3>7
  <2>4. CASE cfg.type = "c2r"
    <3>1. ~Forward
      BY <2>4 DEF Forward
    <3>2. /\ Delivers(StridedReal) /\ Delivers(PlaneReal) /\ Delivers(RtrtOuter)
          /\ Delivers(Transposed) /\ Delivers(C2R3D) /\ Delivers(RtrtC2R)
      BY <2>4, C2RPlanesDeliver, C2RPermutedDeliver, RtrtOuterDelivers, RtrtC2RDelivers
    <3>3. cfg.kind = "leaf" => Delivers(LeafC2R)
      BY <2>1, <2>4, Fused3D, LeafC2RDelivers
    <3>4. cfg.kind \in {"strided", "plane", "plane_column", "leaf", "transposed", "rtrt",
                        "rtrt_outer", "rtrt_final", "3d"}
      BY <2>1, <2>4, Fused3D
    <3>5. Delivers(Program3D)
      BY <3>1, <3>2, <3>3, <3>4 DEF Program3D
    <3> QED
      BY <2>2, <3>5
  <2> QED
    BY <2>1, <2>3, <2>4
<1> QED
  BY <1>1, <1>2

-----------------------------------------------------------------------------
(* Where the elements of the arrays are while a program runs.               *)

Item(p, j) == j \in 1 .. Len(p) /\ p[j].loop = "item"

\* Loops over items have two steps.
Doubled(p) == \A j \in 1 .. Len(p) : ~(Item(p, j) /\ Item(p, j + 1) /\ Item(p, j + 2))

LEMMA RtrtOuterDoubled ==
  ASSUME Configured, cfg.type # "c2c"
  PROVE  Doubled(RtrtOuter)
<1> DEFINE a == BoundaryRows("in", "t1")
           b == Permute3D(<<2, 0, 1>>, <<n0, n1, half>>, "t1", "t2")
           c == PerItem(OuterStore(1, n0 * half, "t2", "t1"))
           d == PerItem(OuterStore(0, n1 * half, "t1", Out))
           e == Permute3D(<<2, 0, 1>>, <<n0, n1, half>>, "in", "t1")
           f == PerItem(OuterStore(1, n0 * half, "t1", "t2"))
           g == PerItem(OuterStore(0, n1 * half, "t2", "t1"))
           h == BoundaryRows("t1", Out)
<1>1. RtrtOuter = IF Forward THEN <<a, b, c, d>> ELSE <<e, f, g, h>>
  BY DEF RtrtOuter
<1>2. a.loop = "none" /\ b.loop = "batch" /\ e.loop = "batch" /\ h.loop = "none"
  BY DEF BoundaryRows, Step, Permute3D, Permute
<1> HIDE DEF a, b, c, d, e, f, g, h
<1>3. CASE Forward
  <2> DEFINE p == <<a, b, c, d>>
  <2>1. Len(p) = 4 /\ p[1] = a /\ p[2] = b
    OBVIOUS
  <2> HIDE DEF p
  <2>2. Doubled(p)
    BY <1>2, <2>1 DEF Doubled, Item
  <2> QED
    BY <1>1, <1>3, <2>2 DEF p
<1>4. CASE ~Forward
  <2> DEFINE p == <<e, f, g, h>>
  <2>1. Len(p) = 4 /\ p[1] = e /\ p[4] = h
    OBVIOUS
  <2> HIDE DEF p
  <2>2. Doubled(p)
    BY <1>2, <2>1 DEF Doubled, Item
  <2> QED
    BY <1>1, <1>4, <2>2 DEF p
<1> QED
  BY <1>3, <1>4

LEMMA ProgramDoubled ==
  ASSUME Configured
  PROVE  Doubled(Program)
<1>1. ASSUME NEW p, ProgramFits(p)
      PROVE  Doubled(p)
  BY <1>1 DEF ProgramFits, Doubled, Item, Plain
<1>2. CASE cfg.rank = 2
  BY <1>1, <1>2, Program2DFits DEF Program
<1>3. CASE cfg.rank # 2
  <2>1. cfg.rank = 3 /\ cfg.type \in {"r2c", "c2r"}
    BY <1>3, Shapes
  <2>2. \/ AdmitsPlane(cfg) \/ AdmitsLeaf(cfg) \/ AdmitsRtrt(cfg) \/ cfg.kind = "3d"
    BY <2>1 DEF Configured, Admits, Admits3D
  <2>3. /\ cfg.kind \in {"strided", "plane", "plane_column", "cube", "leaf", "first_store",
                         "transposed", "rtrt", "rtrt_outer", "rtrt_final", "3d"}
        /\ cfg.kind \in {"cube", "first_store"} => cfg.type = "r2c"
    BY <2>2 DEF AdmitsPlane, AdmitsLeaf, AdmitsRtrt
  <2>4. Program = Program3D
    BY <1>3 DEF Program
  <2>5. CASE cfg.kind = "rtrt_outer"
    BY <2>1, <2>4, <2>5, RtrtOuterDoubled DEF Program3D
  <2>6. CASE cfg.kind # "rtrt_outer"
    <3>1. cfg.type = "r2c" => Forward
      BY DEF Forward
    <3>2. cfg.type = "c2r" => ~Forward
      BY DEF Forward
    <3>3. cfg.type = "r2c" => ProgramFits(Program3D)
      BY <2>3, <2>6, <3>1, R2C3DFits DEF Program3D
    <3>4. cfg.type = "c2r" => ProgramFits(Program3D)
      BY <2>3, <2>6, <3>2, C2R3DFits DEF Program3D
    <3> QED
      BY <1>1, <2>1, <2>4, <3>3, <3>4
  <2> QED
    BY <2>5, <2>6
<1> QED
  BY <1>2, <1>3

\* Program p takes the arrays R one into the next.
Chained(p, R) == WellFormed(p) /\ Doubled(p) /\ Follows(p, R)

\* Step j is the first or the second one of a loop over the items.
Opens(p, j) == Item(p, j) /\ Item(p, j + 1)
Closes(p, j) == Item(p, j) /\ ~Item(p, j + 1)

\* The arrays that hold what later rounds of step j take up, and what earlier
\* rounds left.
Source(p, j) == IF Closes(p, j) THEN j - 1 ELSE j
Target(p, j) == IF Opens(p, j) THEN j + 2 ELSE j + 1

\* Buffer contents m have the elements of L whose round is between lo and hi.
Filled(s, L, lo, hi, m) ==
  \A c \in Batch, i \in Index(L.form) :
    lo <= Turn(s, c, i) /\ Turn(s, c, i) < hi => Has(m[L.buf], L, c, i)

\* Where the elements are before step j is launched at offset o.
Before(p, R, j, o, m) ==
  LET s == p[j]
      e == o + Stride(s)
  IN  /\ Filled(s, R[Target(p, j)], 0, o, m)
      /\ Filled(s, R[j], o, e, m)
      /\ Filled(s, R[Source(p, j)], e, Rounds(s), m)

\* Where they are after it.
After(p, R, j, o, m) ==
  LET s == p[j]
      e == o + Stride(s)
  IN  /\ Filled(s, R[Target(p, j)], 0, o, m)
      /\ Filled(s, R[j + 1], o, e, m)
      /\ Filled(s, R[Source(p, j)], e, Rounds(s), m)

\* Every element has its round.
LEMMA TurnBound ==
  ASSUME Configured, NEW s, NEW L, NEW M, Takes(s, L, M), NEW f, NEW c \in Batch,
         NEW i \in Index(f)
  PROVE  Turn(s, c, i) \in 0 .. Rounds(s) - 1
<1>1. /\ s.loop \in {"none", "columns", "batch", "item", "rows"}
      /\ s.loop = "rows" => s.axes = <<2>>
  <2>1. CASE Reorders(s, L, M)
    BY <2>1 DEF Reorders
  <2>2. CASE WholeTaken(s, L, M)
    BY <2>2 DEF WholeTaken
  <2>3. CASE AxisTaken(s, L, M)
    <3>1. PICK a, u, v \in Axes : AlongAxis(s, L, M, a, u, v) /\ Looped(s, a, u, v, L.form)
      BY <2>3 DEF AxisTaken
    <3>2. s.axes = <<a>>
      BY <3>1 DEF AlongAxis
    <3> QED
      BY <3>1, <3>2 DEF Looped, InChunks, ItemByItem
  <2> QED
    BY <2>1, <2>2, <2>3 DEF Takes
<1>2. CASE s.loop = "rows"
  <2>1. RowCount(s) = cfg.batch * n0 * n1
    BY <1>1, <1>2, LineCounts
  <2>2. RowNo(f, c, i, 0, 1) \in 0 .. cfg.batch * Extent(0, f) * Extent(1, f) - 1
    BY RowRange DEF Axes
  <2>3. RowNo(f, c, i, 0, 1) = (c * n0 + i[1]) * n1 + i[2]
    BY Extents DEF RowNo
  <2>4. Turn(s, c, i) = RowNo(f, c, i, 0, 1) /\ Rounds(s) = RowCount(s)
    BY <1>2, <2>3 DEF Turn, Rounds
  <2> QED
    BY <2>1, <2>2, <2>4, Extents
<1>3. CASE s.loop \in {"batch", "item"}
  BY <1>3 DEF Turn, Rounds, Batch
<1>4. CASE s.loop \in {"none", "columns"}
  BY <1>4 DEF Turn, Rounds
<1> QED
  BY <1>1, <1>2, <1>3, <1>4

\* Facts about the steps of a loop over items.
LEMMA ItemFacts ==
  ASSUME NEW s, NEW L, NEW M, Takes(s, L, M)
  PROVE  /\ L.buf \in Buffers /\ M.buf \in Buffers /\ s.src = L.buf /\ s.dst = M.buf
         /\ L.order \in Orders /\ M.order \in Orders
         /\ s.loop \in {"none", "columns"} => Rounds(s) = 1 /\ Stride(s) = 1
         /\ s.loop \notin {"none", "columns"} => L.buf # M.buf
         /\ s.loop = "item" => L.form = M.form /\ s.op = "lines"
         /\ s.loop = "item" => Stride(s) = 1 /\ \A c, i : Turn(s, c, i) = c
<1>1. L.buf \in Buffers /\ M.buf \in Buffers
  BY DEF Takes, RoomFor
<1>2. s.loop = "item" => s.op = "lines"
  BY DEF Takes, Reorders
<1>3. s.loop \in {"none", "columns"} => Rounds(s) = 1 /\ Stride(s) = 1
  BY DEF Rounds, Stride
<1>4. s.loop = "item" => Stride(s) = 1 /\ \A c, i : Turn(s, c, i) = c
  BY DEF Stride, Turn
<1> QED
  BY <1>1, <1>2, <1>3, <1>4 DEF Takes

LEMMA Positions ==
  ASSUME NEW p, NEW R, Chained(p, R), NEW j \in 1 .. Len(p)
  PROVE  /\ Len(p) \in Nat
         /\ Opens(p, j) => /\ j + 1 \in 1 .. Len(p) /\ Closes(p, j + 1)
                           /\ ~Opens(p, j + 1) /\ ~Closes(p, j)
         /\ Closes(p, j) => /\ j - 1 \in 1 .. Len(p) /\ Opens(p, j - 1)
                            /\ ~Closes(p, j - 1) /\ ~Opens(p, j)
         /\ ~Opens(p, j) => ~Closes(p, j + 1)
<1>1. Len(p) \in Nat
  BY DEF Chained, WellFormed, Pos
<1>2. ~Item(p, Len(p) + 1)
  BY <1>1 DEF Item
<1>3. ASSUME Opens(p, j)
      PROVE  j + 1 \in 1 .. Len(p) /\ Closes(p, j + 1)
  BY <1>1, <1>3 DEF Opens, Closes, Item, Chained, Doubled
<1>4. ASSUME Closes(p, j)
      PROVE  j - 1 \in 1 .. Len(p) /\ Opens(p, j - 1)
  <2>1. p[j].loop = "item" /\ (j = Len(p) \/ p[j + 1].loop # "item")
    BY <1>1, <1>4 DEF Closes, Item
  <2>2. j > 1 /\ p[j - 1].loop = "item"
    BY <2>1 DEF Chained, WellFormed, Paired
  <2>3. j - 1 \in 1 .. Len(p) /\ (j - 1) + 1 = j
    BY <1>1, <2>2
  <2> QED
    BY <1>4, <2>2, <2>3 DEF Closes, Opens, Item
<1>5. ASSUME ~Opens(p, j), Closes(p, j + 1)
      PROVE  FALSE
  <2>1. /\ j + 1 \in 1 .. Len(p) /\ p[j + 1].loop = "item"
        /\ j + 1 = Len(p) \/ p[(j + 1) + 1].loop # "item"
    BY <1>1, <1>5 DEF Closes, Item
  <2>2. p[(j + 1) - 1].loop = "item"
    BY <2>1 DEF Chained, WellFormed, Paired
  <2>3. (j + 1) - 1 = j
    BY <1>1
  <2> QED
    BY <1>5, <2>1, <2>2, <2>3 DEF Opens, Item
<1>6. \A x : Opens(p, x) => ~Closes(p, x)
  BY DEF Opens, Closes
<1> QED
  BY <1>1, <1>3, <1>4, <1>5, <1>6

\* One buffer changes to what a step leaves.
Changed(s, m) ==
  /\ m[s.dst] = Stored(s)
  /\ \A b \in Buffers : b # s.dst => m[b] = mem[b]

\* A launch brings what is due from one array into the next, and spoils none of
\* what other rounds left or need.
LEMMA Relocates ==
  ASSUME Configured, NEW p, NEW R, Chained(p, R), NEW j \in 1 .. Len(p),
         \A b \in Buffers : DOMAIN mem[b] = 0 .. Size(b) - 1,
         offset \in 0 .. Rounds(p[j]) - 1, Before(p, R, j, offset, mem),
         NEW m, Changed(p[j], m)
  PROVE  After(p, R, j, offset, m)
<1> DEFINE s == p[j]  L == R[j]  M == R[j + 1]  e == offset + Stride(s)
           T == R[Target(p, j)]  N == R[Source(p, j)]
<1>1. Takes(s, L, M)
  BY DEF Chained, Follows
<1>2. /\ Filled(s, T, 0, offset, mem) /\ Filled(s, L, offset, e, mem)
      /\ Filled(s, N, e, Rounds(s), mem)
  BY DEF Before
<1>3. m[M.buf] = Stored(s) /\ \A b \in Buffers : b # M.buf => m[b] = mem[b]
  BY <1>1 DEF Changed, Takes
<1>4. /\ Opens(p, j) => /\ j + 1 \in 1 .. Len(p) /\ s.loop = "item" /\ p[j + 1].loop = "item"
                        /\ Target(p, j) = (j + 1) + 1
      /\ ~Opens(p, j) => T = M
      /\ Closes(p, j) => /\ j - 1 \in 1 .. Len(p) /\ s.loop = "item" /\ p[j - 1].loop = "item"
                         /\ Source(p, j) = j - 1 /\ R[(j - 1) + 1] = L
      /\ ~Closes(p, j) => N = L
  BY Positions DEF Opens, Closes, Item, Target, Source
<1>5. offset \in 0 .. Rounds(s) - 1
  OBVIOUS
<1>6. \A x \in 1 .. Len(p) : Takes(p[x], R[x], R[x + 1])
  BY DEF Chained, Follows
<1> HIDE DEF s, L, M, T, N
<1>7. \A c \in Batch, i \in Index(L.form) : Due(s, c, i) => Has(mem[L.buf], L, c, i)
  BY <1>2 DEF Filled, Due
<1>8. /\ \A c \in Batch, i \in Index(M.form) :
           Due(s, c, i) \/ Has(mem[M.buf], M, c, i) => Has(Stored(s), M, c, i)
      /\ s.op = "lines" =>
           \A O : \A c \in Batch, i \in Index(M.form) :
             /\ O.order \in Orders /\ O.form = M.form
             /\ \A k \in Index(M.form) : ~Due(s, c, k)
             /\ Has(mem[M.buf], O, c, i)
             => Has(Stored(s), O, c, i)
  BY <1>1, <1>5, <1>7, StepTaken
<1>9. Filled(s, M, offset, e, m)
  BY <1>3, <1>8 DEF Filled, Due
<1>10. Filled(s, T, 0, offset, m)
  <2>1. CASE Opens(p, j)
    <3>1. Takes(p[j + 1], M, T)
      BY <1>4, <1>6, <2>1 DEF M, T
    <3>2. T.buf \in Buffers /\ T.buf # M.buf
      BY <1>4, <2>1, <3>1, ItemFacts
    <3> QED
      BY <1>2, <1>3, <3>2 DEF Filled
  <2>2. CASE ~Opens(p, j)
    BY <1>2, <1>3, <1>4, <1>8, <2>2 DEF Filled
  <2> QED
    BY <2>1, <2>2
<1>11. Filled(s, N, e, Rounds(s), m)
  <2>1. CASE Closes(p, j)
    <3>1. Takes(p[j - 1], N, L) /\ s.loop = "item" /\ p[j - 1].loop = "item"
      BY <1>4, <1>6, <2>1 DEF L, N
    <3>2. /\ N.form = M.form /\ N.order \in Orders /\ N.buf \in Buffers
          /\ s.op = "lines" /\ Stride(s) = 1 /\ \A c, i : Turn(s, c, i) = c
      BY <1>1, <3>1, ItemFacts
    <3>3. CASE N.buf = M.buf
      <4> SUFFICES ASSUME NEW c \in Batch, NEW i \in Index(N.form),
                          e <= Turn(s, c, i), Turn(s, c, i) < Rounds(s)
                   PROVE  Has(Stored(s), N, c, i)
        BY <1>3, <3>3 DEF Filled
      <4>1. Has(mem[M.buf], N, c, i)
        BY <1>2, <3>3 DEF Filled
      <4>2. \A k \in Index(M.form) : ~Due(s, c, k)
        <5>1. offset \in Int /\ c \in Int /\ offset + 1 <= c
          BY <1>5, <3>2 DEF Batch
        <5> QED
          BY <3>2, <5>1 DEF Due
      <4> QED
        BY <1>8, <3>2, <4>1, <4>2
    <3>4. CASE N.buf # M.buf
      BY <1>2, <1>3, <3>2, <3>4 DEF Filled
    <3> QED
      BY <3>3, <3>4
  <2>2. CASE ~Closes(p, j) /\ s.loop \in {"none", "columns"}
    <3>1. Rounds(s) = 1 /\ Stride(s) = 1 /\ offset = 0
      BY <1>1, <1>5, <2>2, ItemFacts
    <3>2. \A c \in Batch, i \in Index(N.form) : Turn(s, c, i) \in 0 .. 0
      BY <1>1, <3>1, TurnBound
    <3> QED
      BY <3>1, <3>2 DEF Filled
  <2>3. CASE ~Closes(p, j) /\ s.loop \notin {"none", "columns"}
    <3>1. N = L /\ L.buf \in Buffers /\ L.buf # M.buf
      BY <1>1, <1>4, <2>3, ItemFacts
    <3> QED
      BY <1>2, <1>3, <3>1 DEF Filled
  <2> QED
    BY <2>1, <2>2, <2>3
<1> QED
  BY <1>9, <1>10, <1>11 DEF After, s, L, M, T, N

\* Rounds of a loop that follow each other make up a longer one.
LEMMA FilledOn ==
  ASSUME NEW s, NEW L, NEW x, NEW y, NEW z, NEW m, x \in Int, y \in Int, z \in Int,
         Filled(s, L, x, y, m), Filled(s, L, y, z, m),
         \A c \in Batch, i \in Index(L.form) : Turn(s, c, i) \in Int
  PROVE  Filled(s, L, x, z, m)
BY DEF Filled

\* Step j of a program, what it takes and in how many rounds.
LEMMA StepFacts ==
  ASSUME Configured, NEW p, NEW R, Chained(p, R), NEW j \in 1 .. Len(p)
  PROVE  /\ Takes(p[j], R[j], R[j + 1])
         /\ Rounds(p[j]) \in Pos /\ Stride(p[j]) \in Pos
         /\ \A f : \A c \in Batch, i \in Index(f) : Turn(p[j], c, i) \in 0 .. Rounds(p[j]) - 1
<1>1. Takes(p[j], R[j], R[j + 1])
  BY DEF Chained, Follows
<1>2. Rounds(p[j]) \in Pos /\ Stride(p[j]) \in Pos
  BY RoundsExist DEF Chained, WellFormed
<1> QED
  BY <1>1, <1>2, TurnBound

\* After the last round of a step its result is complete.
LEMMA Completed ==
  ASSUME Configured, NEW p, NEW R, Chained(p, R), NEW j \in 1 .. Len(p), ~Opens(p, j),
         NEW o \in Nat, NEW m, After(p, R, j, o, m), o + Stride(p[j]) >= Rounds(p[j])
  PROVE  \A c \in Batch, i \in Index(R[j + 1].form) : Has(m[R[j + 1].buf], R[j + 1], c, i)
<1> DEFINE s == p[j]  M == R[j + 1]  e == o + Stride(s)
<1>1. Target(p, j) = j + 1
  BY DEF Target
<1>2. Filled(s, M, 0, o, m) /\ Filled(s, M, o, e, m)
  BY <1>1 DEF After
<1>3. /\ Stride(s) \in Pos /\ Rounds(s) \in Pos
      /\ \A c \in Batch, i \in Index(M.form) : Turn(s, c, i) \in 0 .. Rounds(s) - 1
  BY StepFacts
<1>4. e >= Rounds(s)
  OBVIOUS
<1> HIDE DEF s, M
<1>5. ASSUME NEW c \in Batch, NEW i \in Index(M.form)
      PROVE  Has(m[M.buf], M, c, i)
  <2>1. Turn(s, c, i) \in Nat /\ Turn(s, c, i) < e /\ Rounds(s) \in Nat
    BY <1>3, <1>4 DEF Pos
  <2>2. \/ 0 <= Turn(s, c, i) /\ Turn(s, c, i) < o
        \/ o <= Turn(s, c, i) /\ Turn(s, c, i) < e
    BY <2>1
  <2> QED
    BY <1>2, <2>2 DEF Filled
<1> QED
  BY <1>5 DEF M

\* The next step finds what it works on where the loops leave it.
LEMMA NextInBody ==
  ASSUME Configured, NEW p, NEW R, Chained(p, R), NEW j \in 1 .. Len(p), Opens(p, j),
         NEW o \in Nat, NEW m, After(p, R, j, o, m)
  PROVE  Before(p, R, j + 1, o, m)
<1>1. /\ j + 1 \in 1 .. Len(p) /\ p[j].loop = "item" /\ p[j + 1].loop = "item"
      /\ Target(p, j + 1) = Target(p, j) /\ Source(p, j + 1) = Source(p, j)
  <2>1. /\ j + 1 \in 1 .. Len(p) /\ Closes(p, j + 1) /\ ~Opens(p, j + 1) /\ ~Closes(p, j)
    BY Positions
  <2>2. (j + 1) + 1 = j + 2 /\ (j + 1) - 1 = j
    OBVIOUS
  <2> QED
    BY <2>1, <2>2 DEF Target, Source, Opens, Item
<1>2. /\ \A c, i : Turn(p[j], c, i) = c /\ Turn(p[j + 1], c, i) = c
      /\ Stride(p[j + 1]) = Stride(p[j]) /\ Rounds(p[j + 1]) = Rounds(p[j])
  BY <1>1 DEF Turn, Stride, Rounds
<1>3. \A L, lo, hi : Filled(p[j + 1], L, lo, hi, m) <=> Filled(p[j], L, lo, hi, m)
  BY <1>2 DEF Filled
<1> QED
  BY <1>1, <1>2, <1>3 DEF After, Before

LEMMA NextItem ==
  ASSUME Configured, NEW p, NEW R, Chained(p, R), NEW j \in 1 .. Len(p), Closes(p, j),
         NEW o \in Nat, NEW m, After(p, R, j, o, m), o + Stride(p[j]) < Rounds(p[j])
  PROVE  Before(p, R, j - 1, o + 1, m)
<1>1. /\ j - 1 \in 1 .. Len(p) /\ p[j].loop = "item" /\ p[j - 1].loop = "item"
      /\ Target(p, j - 1) = Target(p, j) /\ Source(p, j - 1) = j - 1 /\ Source(p, j) = j - 1
      /\ Target(p, j) = j + 1
  <2>1. /\ j - 1 \in 1 .. Len(p) /\ Opens(p, j - 1) /\ ~Closes(p, j - 1) /\ ~Opens(p, j)
    BY Positions
  <2>2. (j - 1) + 2 = j + 1
    OBVIOUS
  <2> QED
    BY <2>1, <2>2 DEF Target, Source, Opens, Closes, Item
<1>2. /\ \A c, i : Turn(p[j], c, i) = c /\ Turn(p[j - 1], c, i) = c
      /\ Stride(p[j - 1]) = 1 /\ Stride(p[j]) = 1 /\ Rounds(p[j - 1]) = Rounds(p[j])
  BY <1>1 DEF Turn, Stride, Rounds
<1> DEFINE s == p[j]  t == p[j - 1]  T == R[j + 1]  N == R[j - 1]  e == Rounds(s)
<1>3. /\ Filled(s, T, 0, o, m) /\ Filled(s, T, o, o + 1, m) /\ Filled(s, N, o + 1, e, m)
  BY <1>1, <1>2 DEF After
<1>4. o + 1 < e /\ e \in Nat
  BY <1>2, StepFacts DEF Pos
<1>5. \A L, lo, hi : Filled(t, L, lo, hi, m) <=> Filled(s, L, lo, hi, m)
  BY <1>2 DEF Filled
<1>6. Batch \subseteq Int
  BY DEF Batch
<1>7. \A c \in Batch : \A i : Turn(s, c, i) \in Int
  BY <1>2, <1>6
<1> HIDE DEF s, t, T, N, e
<1>8. Filled(s, T, 0, o + 1, m)
  BY <1>3, <1>7, FilledOn
<1>9. Filled(s, N, o + 1, (o + 1) + 1, m) /\ Filled(s, N, (o + 1) + 1, e, m)
  BY <1>3, <1>4, <1>7 DEF Filled
<1> QED
  BY <1>1, <1>2, <1>5, <1>8, <1>9 DEF Before, s, t, T, N, e

LEMMA NextChunk ==
  ASSUME Configured, NEW p, NEW R, Chained(p, R), NEW j \in 1 .. Len(p), p[j].loop # "item",
         NEW o \in Nat, NEW m, After(p, R, j, o, m), o + Stride(p[j]) < Rounds(p[j])
  PROVE  Before(p, R, j, o + Stride(p[j]), m)
<1> DEFINE s == p[j]  L == R[j]  M == R[j + 1]  d == Stride(s)  e == Rounds(s)
<1>1. Target(p, j) = j + 1 /\ Source(p, j) = j
  BY DEF Target, Source, Opens, Closes, Item
<1>2. Filled(s, M, 0, o, m) /\ Filled(s, M, o, o + d, m) /\ Filled(s, L, o + d, e, m)
  BY <1>1 DEF After
<1>3. /\ e \in Nat /\ d \in Nat /\ o + d < e
      /\ \A f : \A c \in Batch, i \in Index(f) : Turn(s, c, i) \in 0 .. e - 1
  BY StepFacts DEF Pos
<1> HIDE DEF s, L, M, d, e
<1>4. \A f : \A c \in Batch, i \in Index(f) : Turn(s, c, i) \in Int
  BY <1>3
<1>5. Filled(s, M, 0, o + d, m)
  BY <1>2, <1>3, <1>4, FilledOn
<1>6. Filled(s, L, o + d, (o + d) + d, m) /\ Filled(s, L, (o + d) + d, e, m)
  <2>1. ASSUME NEW c \in Batch, NEW i \in Index(L.form), o + d <= Turn(s, c, i)
        PROVE  Has(m[L.buf], L, c, i)
    <3>1. Turn(s, c, i) < e
      BY <1>3
    <3> QED
      BY <1>2, <2>1, <3>1 DEF Filled
  <2>2. \A c \in Batch, i \in Index(L.form) :
          (o + d) + d <= Turn(s, c, i) => o + d <= Turn(s, c, i)
    BY <1>3, <1>4
  <2> QED
    BY <2>1, <2>2 DEF Filled
<1> QED
  BY <1>1, <1>5, <1>6 DEF Before, s, L, M, d, e

LEMMA NextStep ==
  ASSUME Configured, NEW p, NEW R, Chained(p, R), NEW j \in 1 .. Len(p), ~Opens(p, j),
         j # Len(p), NEW o \in Nat, NEW m, After(p, R, j, o, m),
         o + Stride(p[j]) >= Rounds(p[j])
  PROVE  Before(p, R, j + 1, 0, m)
<1>1. j + 1 \in 1 .. Len(p) /\ Source(p, j + 1) = j + 1
  BY Positions DEF Source
<1> DEFINE s == p[j + 1]  L == R[j + 1]
<1>2. \A c \in Batch, i \in Index(L.form) : Has(m[L.buf], L, c, i)
  BY Completed
<1>3. \A f : \A c \in Batch, i \in Index(f) : Turn(s, c, i) \in 0 .. Rounds(s) - 1
  BY <1>1, StepFacts
<1> HIDE DEF s, L
<1>4. Filled(s, R[Target(p, j + 1)], 0, 0, m)
  BY <1>3 DEF Filled
<1>5. \A lo, hi : Filled(s, L, lo, hi, m)
  BY <1>2 DEF Filled
<1> QED
  BY <1>1, <1>4, <1>5 DEF Before, s, L

\* None of this depends on anything but the node.
LEMMA PlacesFixed ==
  ASSUME cfg' = cfg
  PROVE  /\ \A a, f : Extent(a, f)' = Extent(a, f)
         /\ \A s, f : Length(s, f)' = Length(s, f)
         /\ \A s : RowCount(s)' = RowCount(s) /\ ItemWords' = ItemWords
         /\ \A S : Nontrivial(S)' = Nontrivial(S)
         /\ Batch' = Batch /\ \A f : Index(f)' = Index(f)
         /\ \A m, L, c, i : Has(m, L, c, i)' <=> Has(m, L, c, i)
         /\ \A s, c, i : Turn(s, c, i)' = Turn(s, c, i)
<1>1. /\ n0' = n0 /\ n1' = n1 /\ n2' = n2 /\ half' = half
      /\ \A f : Width(f)' = Width(f) /\ Words(f)' = Words(f) /\ Elements(f)' = Elements(f)
  BY ShapeFixed
<1>2. \A a, f : Extent(a, f)' = Extent(a, f)
  BY <1>1 DEF Extent
<1>3. \A s, f : Length(s, f)' = Length(s, f)
  BY <1>1, <1>2 DEF Length
<1>4. \A s : RowCount(s)' = RowCount(s) /\ ItemWords' = ItemWords
  BY <1>1, <1>3 DEF RowCount, ItemWords
<1>5. \A S : Nontrivial(S)' = Nontrivial(S)
  BY <1>1 DEF Nontrivial
<1>6. Batch' = Batch /\ \A f : Index(f)' = Index(f)
  BY <1>1 DEF Batch, Index
<1>7. \A o, f, c, i, p : WordOf(o, f, c, i, p)' = WordOf(o, f, c, i, p)
  BY <1>1, <1>2 DEF WordOf, AddrOf
<1>8. \A m, L, c, i : Has(m, L, c, i)' <=> Has(m, L, c, i)
  BY <1>1, <1>7 DEF Has, Parts, Cell
<1>9. \A s, c, i : Turn(s, c, i)' = Turn(s, c, i)
  BY <1>1 DEF Turn
<1> QED
  BY <1>2, <1>3, <1>4, <1>5, <1>6, <1>8, <1>9

LEMMA TakesFixed ==
  ASSUME cfg' = cfg
  PROVE  \A s, L, M : Takes(s, L, M)' <=> Takes(s, L, M)
<1> SUFFICES ASSUME NEW s, NEW L, NEW M
             PROVE  Takes(s, L, M)' <=> Takes(s, L, M)
  OBVIOUS
<1>1. /\ \A f : Width(f)' = Width(f) /\ Words(f)' = Words(f) /\ Elements(f)' = Elements(f)
      /\ \A b : Size(b)' = Size(b)
      /\ \A a, f : Extent(a, f)' = Extent(a, f)
      /\ \A t, f : Length(t, f)' = Length(t, f)
      /\ \A t : RowCount(t)' = RowCount(t) /\ ItemWords' = ItemWords
      /\ \A S : Nontrivial(S)' = Nontrivial(S)
  BY ShapeFixed, PlacesFixed
<1>2. \A b, f : RoomFor(b, f)' <=> RoomFor(b, f)
  BY <1>1 DEF RoomFor, Buffers
<1>3. Reorders(s, L, M)' <=> Reorders(s, L, M)
  BY <1>1 DEF Reorders, Reordered, Orders
<1>4. Transforms(s, L, M)' <=> Transforms(s, L, M)
  BY <1>1 DEF Transforms, Marks, Over, InPlaceSafe
<1>5. \A t, u, v, a, o : \A layout, f :
        Lies(layout, t, a, u, v, f, o)' <=> Lies(layout, t, a, u, v, f, o)
  BY <1>1 DEF Lies
<1>6. \A a, u, v : AlongAxis(s, L, M, a, u, v)' <=> AlongAxis(s, L, M, a, u, v)
  BY <1>1, <1>5 DEF AlongAxis, Axes
<1>7. InChunks(s)' <=> InChunks(s)
  BY <1>1 DEF InChunks
<1>8. ItemByItem(s)' <=> ItemByItem(s)
  BY <1>1 DEF ItemByItem, Divides, Pos
<1>9. \A a, u, v, f : Looped(s, a, u, v, f)' <=> Looped(s, a, u, v, f)
  BY <1>1, <1>7, <1>8 DEF Looped, Pos
<1>10. AxisTaken(s, L, M)' <=> AxisTaken(s, L, M)
  BY <1>6, <1>9 DEF AxisTaken, Axes
<1>11. WholeTaken(s, L, M)' <=> WholeTaken(s, L, M)
  BY DEF WholeTaken, Straight
<1> QED
  BY <1>2, <1>3, <1>4, <1>10, <1>11 DEF Takes, Orders

LEMMA ArraysFixed ==
  ASSUME cfg' = cfg
  PROVE  /\ First' = First /\ Final' = Final /\ (Sound' <=> Sound)
         /\ \A p, R : Follows(p, R)' <=> Follows(p, R)
         /\ \A p, R, j, o, m : Before(p, R, j, o, m)' <=> Before(p, R, j, o, m)
         /\ \A m, L : Holds(m, L)' <=> Holds(m, L)
<1>1. First' = First /\ Final' = Final
  BY ShapeFixed, PlacesFixed DEF First, Final, At, Layout, Axes
<1>2. Sound' <=> Sound
  BY DEF Sound
<1>3. \A p, R : Follows(p, R)' <=> Follows(p, R)
  BY TakesFixed DEF Follows
<1>4. \A s, L, lo, hi, m : Filled(s, L, lo, hi, m)' <=> Filled(s, L, lo, hi, m)
  BY PlacesFixed DEF Filled
<1>5. \A s : Rounds(s)' = Rounds(s) /\ Stride(s)' = Stride(s)
  BY ShapeFixed
<1>6. \A p, R, j, o, m : Before(p, R, j, o, m)' <=> Before(p, R, j, o, m)
  BY <1>4, <1>5 DEF Before, Target, Source, Opens, Closes, Item
<1>7. \A m, L : Holds(m, L)' <=> Holds(m, L)
  BY PlacesFixed DEF Holds
<1> QED
  BY <1>1, <1>2, <1>3, <1>6, <1>7

-----------------------------------------------------------------------------
(* The result.                                                              *)

\* The arrays between the steps, each in its place as far as execute has come.
Located ==
  \E R : /\ R[1] = First /\ R[Len(Program) + 1] = Final /\ Follows(Program, R)
         /\ status = "running" => Before(Program, R, pc, offset, mem)
         /\ status = "success" => Holds(mem[Out], Final)

RInv == IInv /\ Sound /\ Located

LEMMA FirstAndFinal ==
  /\ First.buf = "in" /\ First.order = <<0, 1, 2>> /\ First.form = Given /\ First.done = {}
  /\ Final.buf = Out /\ Final.order = <<0, 1, 2>> /\ Final.form = Wanted
  /\ Final.done = Nontrivial(0 .. 2)
<1>1. Axes = 0 .. 2
  BY DEF Axes
<1>2. Nontrivial({}) = {}
  BY DEF Nontrivial
<1> QED
  BY <1>1, <1>2 DEF First, Final, At, Layout

LEMMA ProgramChained ==
  ASSUME Configured, NEW R, Follows(Program, R)
  PROVE  Chained(Program, R)
BY ProgramsWellFormed, ProgramDoubled DEF Chained

LEMMA InitiallyLocated == Init /\ Sound => RInv
<1> SUFFICES ASSUME Init, Sound
             PROVE  RInv
  OBVIOUS
<1>1. IInv /\ Configured /\ pc = 1 /\ offset = 0 /\ status = "running"
  BY Initially DEF Init, IInv, Control
<1> DEFINE p == Program
<1>2. PICK R : R[1] = First /\ R[Len(p) + 1] = Final /\ Follows(p, R)
  BY <1>1, ProgramDelivers DEF Delivers, Carries
<1>3. Chained(p, R)
  BY <1>1, <1>2, ProgramChained
<1>4. 1 \in 1 .. Len(p)
  BY <1>1 DEF IInv, Control
<1>5. Holds(mem["in"], First)
  <2>1. \A w \in 0 .. Words(Given) * Elements(Given) - 1 : mem["in"][w] = Natural(w, Given, {})
    <3> SUFFICES ASSUME NEW w \in 0 .. Words(Given) * Elements(Given) - 1
                 PROVE  mem["in"][w] = Natural(w, Given, {})
      OBVIOUS
    <3>1. Words(Given) * Elements(Given) \in Nat
      BY <1>1, FormSizes DEF Pos
    <3>2. "in" \in Buffers /\ Words(Given) * Elements(Given) <= Size("in")
      BY <1>1, CallersArrays DEF RoomFor
    <3>3. w \in 0 .. Size("in") - 1 /\ w < Words(Given) * Elements(Given)
      BY <1>1, <3>1, <3>2, SizesTyped
    <3> QED
      BY <3>2, <3>3 DEF Init
  <2>2. First.order = <<0, 1, 2>>
    BY FirstAndFinal
  <2>3. Holds(mem["in"], First) <=>
          \A w \in 0 .. Words(First.form) * Elements(First.form) - 1 :
            mem["in"][w] = Natural(w, First.form, First.done)
    BY <1>1, <2>2, HoldsNatural
  <2> QED
    BY <2>1, <2>3, FirstAndFinal
<1>6. Source(p, 1) = 1
  <2>1. ~Closes(p, 1)
    BY <1>3, <1>4, Positions
  <2> QED
    BY <2>1 DEF Source
<1>7. \A lo, hi : Filled(p[1], R[1], lo, hi, mem)
  BY <1>2, <1>5, FirstAndFinal DEF Filled, Holds
<1>8. Filled(p[1], R[Target(p, 1)], 0, 0, mem)
  <2>1. \A f : \A c \in Batch, i \in Index(f) : Turn(p[1], c, i) \in 0 .. Rounds(p[1]) - 1
    BY <1>1, <1>3, <1>4, StepFacts
  <2> QED
    BY <2>1 DEF Filled
<1>9. Before(p, R, 1, 0, mem)
  BY <1>6, <1>7, <1>8 DEF Before
<1> QED
  BY <1>1, <1>2, <1>9 DEF RInv, Located

\* Execute goes on where the elements are.
LEMMA AdvancesLocated ==
  ASSUME Control, status = "running", cfg' = cfg, Advance(Now),
         NEW R, Chained(Program, R), NEW m, After(Program, R, pc, offset, m)
  PROVE  /\ status' = "running" => Before(Program, R, pc', offset', m)
         /\ status' = "success" =>
              LET M == R[Len(Program) + 1]
              IN  \A c \in Batch, i \in Index(M.form) : Has(m[M.buf], M, c, i)
<1> DEFINE p == Program  j == pc  o == offset  s == p[j]
           more == o + Stride(s) < Rounds(s)
<1>1. /\ Configured /\ j \in 1 .. Len(p) /\ Now = s /\ o \in 0 .. Rounds(s) - 1
  BY DEF Control, Now
<1>2. Rounds(s) \in Nat /\ Stride(s) \in Nat /\ o \in Nat /\ Len(p) \in Nat
  BY <1>1, StepFacts, Positions DEF Pos
<1>3. /\ Opens(p, j) <=> s.loop = "item" /\ j # Len(p) /\ p[j + 1].loop = "item"
      /\ Closes(p, j) <=> s.loop = "item" /\ ~Opens(p, j)
  BY <1>1, <1>2 DEF Opens, Closes, Item
<1> DEFINE inBody == s.loop = "item" /\ ~(j = Len(p)) /\ p[j + 1].loop = "item"
<1>4. \/ inBody /\ pc' = j + 1 /\ offset' = o /\ status' = status
      \/ /\ ~inBody /\ s.loop = "item" /\ more
         /\ pc' = j - 1 /\ offset' = o + 1 /\ status' = status
      \/ /\ ~inBody /\ s.loop # "item" /\ more
         /\ offset' = o + Stride(s) /\ pc' = j /\ status' = status
      \/ /\ ~inBody /\ ~more /\ j # Len(p)
         /\ pc' = j + 1 /\ offset' = 0 /\ status' = status
      \/ ~inBody /\ ~more /\ j = Len(p) /\ status' = "success"
  BY <1>1 DEF Advance
<1> HIDE DEF p, j, o, s
<1>5. ~more => o + Stride(s) >= Rounds(s)
  BY <1>2
<1>6. Configured /\ Chained(p, R) /\ After(p, R, j, o, m) /\ status = "running"
  BY <1>1 DEF p, j, o
<1>7. CASE inBody /\ pc' = j + 1 /\ offset' = o /\ status' = status
  BY <1>1, <1>2, <1>3, <1>6, <1>7, NextInBody DEF p, s
<1>8. CASE /\ ~inBody /\ s.loop = "item" /\ more
           /\ pc' = j - 1 /\ offset' = o + 1 /\ status' = status
  BY <1>1, <1>2, <1>3, <1>6, <1>8, NextItem DEF p, s
<1>9. CASE /\ ~inBody /\ s.loop # "item" /\ more
           /\ offset' = o + Stride(s) /\ pc' = j /\ status' = status
  BY <1>1, <1>2, <1>6, <1>9, NextChunk DEF p, s
<1>10. CASE /\ ~inBody /\ ~more /\ j # Len(p)
            /\ pc' = j + 1 /\ offset' = 0 /\ status' = status
  BY <1>1, <1>2, <1>3, <1>5, <1>6, <1>10, NextStep DEF p, s
<1>11. CASE ~inBody /\ ~more /\ j = Len(p) /\ status' = "success"
  BY <1>1, <1>2, <1>3, <1>5, <1>6, <1>11, Completed DEF p, s
<1> QED
  BY <1>4, <1>7, <1>8, <1>9, <1>10, <1>11

LEMMA KeptLocated == RInv /\ [Next]_vars => RInv'
<1> SUFFICES ASSUME RInv, [Next]_vars
             PROVE  RInv'
  OBVIOUS
<1>1. IInv /\ Control /\ Configured /\ Sound
  BY DEF RInv, IInv, Control
<1>2. IInv'
  BY <1>1, Kept
<1>3. cfg' = cfg
  BY DEF Next, Launch, LaunchFails, vars
<1>4. /\ Program' = Program /\ Out' = Out /\ First' = First /\ Final' = Final /\ Sound'
      /\ \A p, R : Follows(p, R)' <=> Follows(p, R)
      /\ \A p, R, j, o, m : Before(p, R, j, o, m)' <=> Before(p, R, j, o, m)
      /\ \A m, L : Holds(m, L)' <=> Holds(m, L)
  BY <1>1, <1>3, ProgramFixed, ShapeFixed, ArraysFixed
<1>5. PICK R : /\ R[1] = First /\ R[Len(Program) + 1] = Final /\ Follows(Program, R)
               /\ status = "running" => Before(Program, R, pc, offset, mem)
               /\ status = "success" => Holds(mem[Out], Final)
  BY DEF RInv, Located
<1>6. SUFFICES /\ status' = "running" => Before(Program, R, pc', offset', mem')
               /\ status' = "success" => Holds(mem'[Out], Final)
  <2>1. Follows(Program, R)'
    BY <1>4, <1>5
  <2>2. Before(Program, R, pc, offset, mem)' <=> Before(Program, R, pc', offset', mem')
    BY <1>4
  <2>3. Holds(mem[Out], Final)' <=> Holds(mem'[Out], Final)
    BY <1>4
  <2> QED
    BY <1>2, <1>4, <1>5, <2>1, <2>2, <2>3 DEF RInv, Located
<1>7. CASE Launch
  <2>1. /\ Advance(Now) /\ status = "running" /\ Now.dst \in Buffers
        /\ \A b \in Buffers : b # Now.dst => mem'[b] = mem[b]
    BY <1>1, <1>7, Writes
  <2>2. mem'[Now.dst] = Stored(Now)
    BY <1>1, <1>7, <2>1 DEF Launch, Stored, Control
  <2>3. Changed(Program[pc], mem')
    BY <2>1, <2>2 DEF Changed, Now
  <2>4. Chained(Program, R)
    BY <1>1, <1>5, ProgramChained
  <2>5. After(Program, R, pc, offset, mem')
    <3>1. /\ pc \in 1 .. Len(Program) /\ offset \in 0 .. Rounds(Program[pc]) - 1
          /\ \A b \in Buffers : DOMAIN mem[b] = 0 .. Size(b) - 1
      BY <1>1 DEF Control, Now
    <3>2. Before(Program, R, pc, offset, mem)
      BY <1>5, <2>1
    <3> QED
      BY <1>1, <2>3, <2>4, <3>1, <3>2, Relocates
  <2>6. status' = "running" => Before(Program, R, pc', offset', mem')
    BY <1>1, <1>3, <2>1, <2>4, <2>5, AdvancesLocated
  <2>7. status' = "success" =>
          \A c \in Batch, i \in Index(Final.form) : Has(mem'[Final.buf], Final, c, i)
    BY <1>1, <1>3, <1>5, <2>1, <2>4, <2>5, AdvancesLocated
  <2> QED
    BY <2>6, <2>7, FirstAndFinal DEF Holds
<1>8. CASE LaunchFails \/ UNCHANGED vars
  BY <1>5, <1>8 DEF LaunchFails, vars
<1> QED
  BY <1>7, <1>8 DEF Next

LEMMA LocatedExact == RInv => ResultExact
<1> SUFFICES ASSUME RInv, status = "success"
             PROVE  \A w \in 0 .. Words(Wanted) * Elements(Wanted) - 1 :
                      mem[Out][w] = Natural(w, Wanted, Nontrivial(0 .. 2))
  BY DEF ResultExact
<1>1. Holds(mem[Out], Final) /\ Configured
  BY DEF RInv, Located, IInv, Control
<1> QED
  BY <1>1, FirstAndFinal, HoldsNatural

\* For every shape, batch and chunk, and every 2D node and real 3D node the
\* compiler makes but the three named in Sound: execute that returns success
\* has left every element of every item at its natural place in the form asked
\* for, transformed exactly once along each axis, in place as out of place.
THEOREM GridResultExact == Spec /\ Sound => []ResultExact
BY InitiallyLocated, KeptLocated, LocatedExact, PTL DEF Spec

=============================================================================
