------------------------------ MODULE DataTool -------------------------------
(***************************************************************************)
(* A picture of a house as one number (content/DataTool.cpp): the decimal  *)
(* digits of a long long are, from the right, 3 of x, 3 of y, 3 of the     *)
(* angle, 2 of the scale in tenths, 4 of the name, 2 of the layer and 2 of *)
(* the student's id.  Nobody asks whether a field has more digits than     *)
(* that, or the sum more than 64 bits.                                     *)
(*                                                                         *)
(* The fields of type float are counted in hundredths (in Unit-ths), so    *)
(* that the conversions of setData have something to cut off; what float   *)
(* arithmetic itself rounds off is left out.  A signed product or sum      *)
(* beyond its width and a float beyond an integer's range are undefined in *)
(* C++; here they are what the x86 instructions make of them.              *)
(***************************************************************************)
EXTENDS Integers

CONSTANTS
  Ten,       \* the base of the digits
  IntSize,   \* 2^32, the values of an int
  LongSize   \* 2^64, the values of a long long

XBase == Ten * Ten * Ten
YBase == XBase
AngleBase == XBase
ScaleBase == Ten * Ten
NameBase == Ten * Ten * Ten * Ten
LayerBase == Ten * Ten
StudentBase == Ten * Ten

\* What a one counts for in each field.
OfY == XBase
OfAngle == OfY * YBase
OfScale == OfAngle * AngleBase
OfName == OfScale * ScaleBase
OfLayer == OfName * NameBase
OfStudent == OfLayer * LayerBase

ASSUME WidthsAssumption ==
  /\ {Ten, IntSize, LongSize} \subseteq Nat /\ Ten > 1
  /\ OfScale <= IntSize \div 2 /\ OfStudent <= LongSize \div 2

\* struct Picture.
Pictures == [x : Int, y : Int, angle : Int, scale : Int, name : Int, layer : Int,
             studentId : Int]

Unit == Ten * Ten

\* The number n kept in a type of `size' values.
Wrap(n, size) == ((n + size \div 2) % size) - size \div 2

\* (int) and (long long) of n / d: the part behind the point is cut off, and a
\* number beyond the type becomes its least value.
Whole(n, d) == IF n >= 0 THEN n \div d ELSE -((-n) \div d)
Convert(n, d, size) ==
  IF Whole(n, d) \in -(size \div 2) .. size \div 2 - 1 THEN Whole(n, d) ELSE -(size \div 2)

\* DataTool::setData.  The products of y and the angle are ints, the others long.
getData(pic) ==
  Wrap(Convert(pic.x, Unit, IntSize)
       + Wrap(OfY * Convert(pic.y, Unit, IntSize), IntSize)
       + Wrap(OfAngle * Convert(pic.angle, Unit, IntSize), IntSize)
       + OfScale * Convert(pic.scale, Ten, LongSize)
       + OfName * pic.name + OfLayer * pic.layer + OfStudent * pic.studentId, LongSize)

\* What is left of the number when the digits of x, y, ... are cut off.
OffX(data) == data \div XBase
OffY(data) == OffX(data) \div YBase
OffAngle(data) == OffY(data) \div AngleBase
OffScale(data) == OffAngle(data) \div ScaleBase
OffName(data) == OffScale(data) \div NameBase
OffLayer(data) == OffName(data) \div LayerBase

Digits(data) == IF data < 0 THEN -data ELSE data

\* DataTool::getPicture, of a number with so many characters that there is one for
\* the student's id; the string functions throw out_of_range on a shorter one.  The
\* sign is a character, and may be one of the two of the id or all there is of it.
Readable(data) ==
  OffLayer(Digits(data)) > 0 \/ (data < 0 /\ OffName(Digits(data)) >= Ten)
getPicture(data) ==
  LET d == Digits(data)
      id == OffLayer(d) % StudentBase IN
  [x |-> Unit * (d % XBase),
   y |-> Unit * (OffX(d) % YBase),
   angle |-> Unit * (OffY(d) % AngleBase),
   scale |-> Ten * (OffAngle(d) % ScaleBase),
   name |-> OffScale(d) % NameBase,
   layer |-> OffName(d) % LayerBase,
   studentId |-> IF data < 0 /\ id < Ten THEN -id ELSE id]

\* The fields have no more digits than they are given, and the number no more
\* than its type.
Fits(pic) ==
  LET x == Whole(pic.x, Unit)
      y == Whole(pic.y, Unit)
      angle == Whole(pic.angle, Unit)
      scale == Whole(pic.scale, Ten) IN
  /\ x \in 0 .. XBase - 1 /\ y \in 0 .. YBase - 1 /\ angle \in 0 .. AngleBase - 1
  /\ scale \in 0 .. ScaleBase - 1 /\ pic.name \in 0 .. NameBase - 1
  /\ pic.layer \in 0 .. LayerBase - 1 /\ pic.studentId \in 1 .. StudentBase - 1
  /\ x + OfY * y + OfAngle * angle + OfScale * scale + OfName * pic.name
       + OfLayer * pic.layer + OfStudent * pic.studentId < LongSize \div 2

\* What the number keeps of the picture: places and angles without what is behind
\* the point, and tenths of the scale.
Rounded(pic) ==
  [x |-> Unit * Whole(pic.x, Unit), y |-> Unit * Whole(pic.y, Unit),
   angle |-> Unit * Whole(pic.angle, Unit), scale |-> Ten * Whole(pic.scale, Ten),
   name |-> pic.name, layer |-> pic.layer, studentId |-> pic.studentId]

==============================================================================
