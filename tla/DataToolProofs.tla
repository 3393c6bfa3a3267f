--------------------------- MODULE DataToolProofs ----------------------------
(***************************************************************************)
(* A picture whose fields fit comes back from its number as it was packed, *)
(* but for what the number does not keep: no conversion, product or sum of *)
(* setData leaves its type (ConvertIs, WrapIs), the sum is the number with *)
(* those digits (Factor), and each digit is what the division by its base  *)
(* leaves (Digit).                                                         *)
(***************************************************************************)
EXTENDS DataTool, TLAPS

\* The digit and what is left of a number to the base B.
LEMMA Digit ==
  ASSUME NEW B \in Nat \ {0}, NEW d \in 0 .. B - 1, NEW q \in Nat
  PROVE  /\ d + B * q \in Nat
         /\ (d + B * q) \div B = q
         /\ (d + B * q) % B = d
BY SMT

LEMMA DigitInt ==
  ASSUME NEW B \in Nat \ {0}, NEW n \in Int
  PROVE  n \div B \in Int /\ n % B \in Int
BY SMT

LEMMA Times ==
  ASSUME NEW a \in Nat \ {0}, NEW b \in Nat \ {0}
  PROVE  a * b \in Nat \ {0}
BY SMT

\* Two digits of a sum.
LEMMA Factor ==
  ASSUME NEW a \in Int, NEW B \in Int, NEW d \in Int, NEW q \in Int
  PROVE  a * d + (a * B) * q = a * (d + B * q)
BY SMT

\* A digit counts for less than a one of the next.
LEMMA Below ==
  ASSUME NEW a \in Nat \ {0}, NEW B \in Nat \ {0}, NEW d \in 0 .. B - 1
  PROVE  a * d \in Nat /\ a * d < a * B
<1>1. a * d \in Nat /\ a * B \in Nat /\ B - d \in Nat \ {0}
  BY SMT
<1>2. a * (B - d) \in Nat \ {0}
  BY <1>1, Times, Zenon
<1>3. a * (B - d) = a * B - a * d
  BY SMT
<1> QED BY <1>1, <1>2, <1>3

LEMMA WrapIs ==
  ASSUME NEW size \in Nat, NEW n \in Nat, n < size \div 2
  PROVE  Wrap(n, size) = n
BY SMT DEF Wrap

LEMMA WrapInt ==
  ASSUME NEW size \in Nat \ {0}, NEW n \in Int
  PROVE  Wrap(n, size) \in Int
BY SMT DEF Wrap

LEMMA WholeInt ==
  ASSUME NEW n \in Int, NEW d \in Nat \ {0}
  PROVE  Whole(n, d) \in Int
BY SMT DEF Whole

LEMMA ConvertInt ==
  ASSUME NEW n \in Int, NEW d \in Nat \ {0}, NEW size \in Nat
  PROVE  Convert(n, d, size) \in Int
BY WholeInt, SMT DEF Convert

LEMMA ConvertIs ==
  ASSUME NEW n \in Int, NEW d \in Nat \ {0}, NEW size \in Nat, NEW B \in Nat,
         Whole(n, d) \in 0 .. B - 1, B <= size \div 2
  PROVE  Convert(n, d, size) = Whole(n, d)
BY SMT DEF Convert

\* The bases and what a one counts for.
LEMMA Bases ==
  /\ Ten \in Nat \ {0} /\ Unit \in Nat \ {0}
  /\ XBase \in Nat \ {0} /\ YBase \in Nat \ {0} /\ AngleBase \in Nat \ {0}
  /\ ScaleBase \in Nat \ {0} /\ NameBase \in Nat \ {0} /\ LayerBase \in Nat \ {0}
  /\ StudentBase \in Nat \ {0}
  /\ OfY \in Nat \ {0} /\ OfAngle \in Nat \ {0} /\ OfScale \in Nat \ {0}
  /\ OfName \in Nat \ {0} /\ OfLayer \in Nat \ {0} /\ OfStudent \in Nat \ {0}
<1>1. Ten \in Nat \ {0}
  BY WidthsAssumption
<1>2. Ten * Ten \in Nat \ {0} /\ Ten * Ten * Ten \in Nat \ {0} /\ Ten * Ten * Ten * Ten \in Nat \ {0}
  BY <1>1, Times, Zenon
<1>3. OfY \in Nat \ {0} /\ OfAngle \in Nat \ {0} /\ OfScale \in Nat \ {0}
  BY <1>2, Times, Zenon DEF XBase, YBase, AngleBase, OfY, OfAngle, OfScale
<1>4. OfName \in Nat \ {0} /\ OfLayer \in Nat \ {0} /\ OfStudent \in Nat \ {0}
  BY <1>2, <1>3, Times, Zenon DEF ScaleBase, NameBase, LayerBase, OfName, OfLayer, OfStudent
<1> QED BY <1>1, <1>2, <1>3, <1>4, Zenon
     DEF Unit, XBase, YBase, AngleBase, ScaleBase, NameBase, LayerBase, StudentBase

LEMMA Sizes32and64 == IntSize \in Nat \ {0} /\ LongSize \in Nat \ {0}
<1>1. OfScale \in Nat \ {0} /\ IntSize \in Nat /\ LongSize \in Nat /\ OfStudent \in Nat \ {0}
  BY Bases, WidthsAssumption
<1>2. OfScale <= IntSize \div 2 /\ OfStudent <= LongSize \div 2
  BY WidthsAssumption
<1> QED BY <1>1, <1>2

\* The sum of setData, of numbers that are whole.
Sum(x, y, angle, scale, name, layer, id) ==
  x + y + angle + OfScale * scale + OfName * name + OfLayer * layer + OfStudent * id

LEMMA SumInt ==
  ASSUME NEW x \in Int, NEW y \in Int, NEW angle \in Int, NEW scale \in Int, NEW name \in Int,
         NEW layer \in Int, NEW id \in Int
  PROVE  Sum(x, y, angle, scale, name, layer, id) \in Int
<1>1. OfScale * scale \in Int /\ OfName * name \in Int
  BY Bases
<1>2. OfLayer * layer \in Int /\ OfStudent * id \in Int
  BY Bases
<1> QED BY <1>1, <1>2 DEF Sum

\* The number of any picture is one, and so are its digits.
LEMMA PackedInt ==
  ASSUME NEW pic \in Pictures
  PROVE  getData(pic) \in Int /\ getPicture(getData(pic)).layer \in Int
<1> DEFINE x == Convert(pic.x, Unit, IntSize)
           y == OfY * Convert(pic.y, Unit, IntSize)
           angle == OfAngle * Convert(pic.angle, Unit, IntSize)
           scale == Convert(pic.scale, Ten, LongSize)
<1>1. /\ pic.x \in Int /\ pic.y \in Int /\ pic.angle \in Int /\ pic.scale \in Int
      /\ pic.name \in Int /\ pic.layer \in Int /\ pic.studentId \in Int
  BY DEF Pictures
<1>2. x \in Int /\ scale \in Int
  BY <1>1, Bases, Sizes32and64, ConvertInt
<1>3. y \in Int /\ angle \in Int
  <2>1. Convert(pic.y, Unit, IntSize) \in Int /\ Convert(pic.angle, Unit, IntSize) \in Int
    BY <1>1, Bases, Sizes32and64, ConvertInt
  <2>2. \A a \in Nat \ {0} : \A n \in Int : a * n \in Int
    OBVIOUS
  <2> QED BY <2>1, <2>2, Bases, Zenon
<1> HIDE DEF x, y, angle, scale
<1>4. Wrap(y, IntSize) \in Int /\ Wrap(angle, IntSize) \in Int
  BY <1>3, WrapInt, Sizes32and64
<1> DEFINE sum == Sum(x, Wrap(y, IntSize), Wrap(angle, IntSize), scale, pic.name, pic.layer, pic.studentId)
<1>5. sum \in Int
  BY <1>1, <1>2, <1>4, SumInt, Zenon
<1>6. getData(pic) = Wrap(sum, LongSize)
  BY Zenon DEF getData, Sum, x, y, angle, scale
<1> HIDE DEF sum
<1>7. getData(pic) \in Int
  BY <1>5, <1>6, WrapInt, Sizes32and64, Zenon
<1> DEFINE d == Digits(getData(pic))
<1>8. d \in Int
  BY <1>7 DEF Digits
<1> HIDE DEF d
<1>9. OffName(d) \in Int
  BY <1>8, Bases, DigitInt, Zenon DEF OffName, OffScale, OffAngle, OffY, OffX
<1>10. OffName(d) % LayerBase \in Int
  BY <1>9, Bases, DigitInt
<1>11. getPicture(getData(pic)).layer = OffName(d) % LayerBase
  BY DEF getPicture, d
<1> QED BY <1>7, <1>10, <1>11

\* The sum for a picture is the number with its fields as digits.
LEMMA Horner ==
  ASSUME NEW pic,
         Whole(pic.x, Unit) \in Int, Whole(pic.y, Unit) \in Int, Whole(pic.angle, Unit) \in Int,
         Whole(pic.scale, Ten) \in Int, pic.name \in Int, pic.layer \in Int, pic.studentId \in Int
  PROVE  Sum(Whole(pic.x, Unit), OfY * Whole(pic.y, Unit), OfAngle * Whole(pic.angle, Unit),
             Whole(pic.scale, Ten), pic.name, pic.layer, pic.studentId)
           = Whole(pic.x, Unit) + XBase * (Whole(pic.y, Unit) + YBase * (Whole(pic.angle, Unit)
               + AngleBase * (Whole(pic.scale, Ten) + ScaleBase * (pic.name
               + NameBase * (pic.layer + LayerBase * pic.studentId)))))
<1> DEFINE x == Whole(pic.x, Unit)
           y == Whole(pic.y, Unit)
           angle == Whole(pic.angle, Unit)
           scale == Whole(pic.scale, Ten)
           name == pic.name
           layer == pic.layer
           id == pic.studentId
<1>i. /\ x \in Int /\ y \in Int /\ angle \in Int /\ scale \in Int /\ name \in Int
      /\ layer \in Int /\ id \in Int
  OBVIOUS
<1> HIDE DEF x, y, angle, scale, name, layer, id
<1> DEFINE q6 == layer + LayerBase * id
           q5 == name + NameBase * q6
           q4 == scale + ScaleBase * q5
           q3 == angle + AngleBase * q4
           q2 == y + YBase * q3
<1>0. \A B \in Nat \ {0} : \A d \in Int : \A q \in Int : d + B * q \in Int
  OBVIOUS
<1>6. q6 \in Int /\ OfLayer * layer + OfStudent * id = OfLayer * q6
  BY <1>0, <1>i, Bases, Factor DEF OfStudent
<1> HIDE DEF q6
<1>5. q5 \in Int /\ OfName * name + OfLayer * q6 = OfName * q5
  BY <1>0, <1>6, <1>i, Bases, Factor DEF OfLayer
<1> HIDE DEF q5
<1>4. q4 \in Int /\ OfScale * scale + OfName * q5 = OfScale * q4
  BY <1>0, <1>5, <1>i, Bases, Factor DEF OfName
<1> HIDE DEF q4
<1>3. q3 \in Int /\ OfAngle * angle + OfScale * q4 = OfAngle * q3
  BY <1>0, <1>4, <1>i, Bases, Factor DEF OfScale
<1> HIDE DEF q3
<1>2. OfY * y + OfAngle * q3 = OfY * q2
  BY <1>0, <1>3, <1>i, Bases, Factor DEF OfAngle
<1> HIDE DEF q2
<1> DEFINE py == OfY * y
           pangle == OfAngle * angle
           pscale == OfScale * scale
           pname == OfName * name
           player == OfLayer * layer
           pid == OfStudent * id
<1>7. /\ py \in Int /\ pangle \in Int /\ pscale \in Int /\ pname \in Int /\ player \in Int
      /\ pid \in Int
  <2>1. \A a \in Nat \ {0} : \A n \in Int : a * n \in Int
    OBVIOUS
  <2> QED BY <1>i, <2>1, Bases, Zenon
<1>8. Sum(x, py, pangle, scale, name, layer, id) = x + py + pangle + pscale + pname + player + pid
  BY Zenon DEF Sum
<1> HIDE DEF py, pangle, pscale, pname, player, pid
<1>9. Sum(x, py, pangle, scale, name, layer, id)
        = x + (py + (pangle + (pscale + (pname + (player + pid)))))
  BY <1>i, <1>7, <1>8
<1>10. Sum(x, py, pangle, scale, name, layer, id) = x + XBase * q2
  BY <1>2, <1>3, <1>4, <1>5, <1>6, <1>9, Zenon
     DEF OfY, py, pangle, pscale, pname, player, pid
<1> QED BY <1>10, Zenon DEF q2, q3, q4, q5, q6, py, pangle, x, y, angle, scale, name, layer, id

\* When the fields fit, setData stays within its types.
LEMMA NoOverflow ==
  ASSUME NEW pic \in Pictures, Fits(pic)
  PROVE  getData(pic) = Sum(Whole(pic.x, Unit), OfY * Whole(pic.y, Unit),
                            OfAngle * Whole(pic.angle, Unit), Whole(pic.scale, Ten),
                            pic.name, pic.layer, pic.studentId)
<1> DEFINE x == Whole(pic.x, Unit)
           y == Whole(pic.y, Unit)
           angle == Whole(pic.angle, Unit)
           scale == Whole(pic.scale, Ten)
           sum == Sum(x, OfY * y, OfAngle * angle, scale, pic.name, pic.layer, pic.studentId)
<1>1. /\ x \in 0 .. XBase - 1 /\ y \in 0 .. YBase - 1 /\ angle \in 0 .. AngleBase - 1
      /\ scale \in 0 .. ScaleBase - 1 /\ pic.name \in 0 .. NameBase - 1
      /\ pic.layer \in 0 .. LayerBase - 1 /\ pic.studentId \in 1 .. StudentBase - 1
  BY DEF Fits
<1>2. /\ pic.x \in Int /\ pic.y \in Int /\ pic.angle \in Int /\ pic.scale \in Int
  BY DEF Pictures
<1>3. sum < LongSize \div 2
  BY Zenon DEF Fits, Sum
<1>4. OfScale <= IntSize \div 2 /\ OfStudent <= LongSize \div 2
  BY WidthsAssumption
<1>5. \A a, B \in Nat \ {0} : a <= a * B /\ B <= a * B
  <2>1. ASSUME NEW a \in Nat \ {0}, NEW B \in Nat \ {0} PROVE a <= a * B /\ B <= a * B
    BY <2>1, SMT
  <2> QED BY <2>1
<1>6. /\ XBase <= OfScale /\ OfAngle <= OfScale /\ ScaleBase <= OfStudent
  <2>1. XBase <= OfAngle
    BY <1>5, Bases, Zenon DEF OfY, OfAngle
  <2>2. OfAngle <= OfScale
    BY <1>5, Bases, Zenon DEF OfScale
  <2>3. ScaleBase <= OfName
    BY <1>5, Bases, Zenon DEF OfName
  <2>4. OfName <= OfLayer
    BY <1>5, Bases, Zenon DEF OfLayer
  <2>5. OfLayer <= OfStudent
    BY <1>5, Bases, Zenon DEF OfStudent
  <2> QED BY <2>1, <2>2, <2>3, <2>4, <2>5, Bases
<1>7. /\ IntSize \in Nat /\ LongSize \in Nat /\ IntSize \div 2 \in Nat /\ LongSize \div 2 \in Nat
  BY Sizes32and64
<1>8. /\ XBase <= IntSize \div 2 /\ OfAngle <= IntSize \div 2 /\ ScaleBase <= LongSize \div 2
      /\ YBase = XBase /\ AngleBase = XBase
  BY <1>4, <1>6, <1>7, Bases DEF YBase, AngleBase
<1>9. /\ Convert(pic.x, Unit, IntSize) = x /\ Convert(pic.y, Unit, IntSize) = y
      /\ Convert(pic.angle, Unit, IntSize) = angle /\ Convert(pic.scale, Ten, LongSize) = scale
  BY <1>1, <1>2, <1>7, <1>8, Bases, ConvertIs
<1> HIDE DEF x, y, angle, scale
<1>10. Wrap(OfY * y, IntSize) = OfY * y
  <2>1. OfY * y \in Nat /\ OfY * y < OfAngle
    BY <1>1, Bases, Below DEF OfAngle
  <2>2. OfY * y < IntSize \div 2
    BY <1>7, <1>8, <2>1, Bases
  <2> QED BY <1>7, <2>1, <2>2, WrapIs
<1>11. Wrap(OfAngle * angle, IntSize) = OfAngle * angle
  <2>1. OfAngle * angle \in Nat /\ OfAngle * angle < OfScale
    BY <1>1, Bases, Below DEF OfScale
  <2>2. OfAngle * angle < IntSize \div 2
    BY <1>4, <1>7, <2>1, Bases
  <2> QED BY <1>7, <2>1, <2>2, WrapIs
<1>12. getData(pic) = Wrap(sum, LongSize)
  BY <1>9, <1>10, <1>11, Zenon DEF getData, Sum
<1>13. sum \in Nat
  <2>1. /\ x \in Nat /\ y \in Nat /\ angle \in Nat /\ scale \in Nat
        /\ pic.name \in Nat /\ pic.layer \in Nat /\ pic.studentId \in Nat
    BY <1>1
  <2>2. \A a, n \in Nat : a * n \in Nat
    OBVIOUS
  <2>3. /\ OfY * y \in Nat /\ OfAngle * angle \in Nat /\ OfScale * scale \in Nat
        /\ OfName * pic.name \in Nat /\ OfLayer * pic.layer \in Nat
        /\ OfStudent * pic.studentId \in Nat
    BY <2>1, <2>2, Bases, Zenon
  <2>4. \A a, b, c, d, e, f, g \in Nat : a + b + c + d + e + f + g \in Nat
    OBVIOUS
  <2> QED BY <2>1, <2>3, <2>4, Zenon DEF Sum
<1> HIDE DEF sum
<1>14. getData(pic) = sum
  BY <1>3, <1>7, <1>12, <1>13, WrapIs
<1> QED BY <1>14, Zenon DEF sum, x, y, angle, scale

\* DataTool::getPicture undoes DataTool::getData for every picture whose fields
\* fit their digits and 64 bits, but for what is behind the point: what set_buf
\* sends is then what the clients show.
THEOREM PictureComesBack ==
  ASSUME NEW pic \in Pictures, Fits(pic)
  PROVE  Readable(getData(pic)) /\ getPicture(getData(pic)) = Rounded(pic)
<1> DEFINE x == Whole(pic.x, Unit)
           y == Whole(pic.y, Unit)
           angle == Whole(pic.angle, Unit)
           scale == Whole(pic.scale, Ten)
           q6 == pic.layer + LayerBase * pic.studentId
           q5 == pic.name + NameBase * q6
           q4 == scale + ScaleBase * q5
           q3 == angle + AngleBase * q4
           q2 == y + YBase * q3
           q1 == x + XBase * q2
<1>f. /\ x \in 0 .. XBase - 1 /\ y \in 0 .. YBase - 1 /\ angle \in 0 .. AngleBase - 1
      /\ scale \in 0 .. ScaleBase - 1 /\ pic.name \in 0 .. NameBase - 1
      /\ pic.layer \in 0 .. LayerBase - 1 /\ pic.studentId \in 1 .. StudentBase - 1
  BY DEF Fits
<1> HIDE DEF x, y, angle, scale
<1>i. /\ x \in Int /\ y \in Int /\ angle \in Int /\ scale \in Int
      /\ pic.name \in Int /\ pic.layer \in Int /\ pic.studentId \in Int
  BY <1>f
<1>s. /\ pic.studentId \in Nat /\ pic.studentId > 0 /\ pic.studentId % StudentBase = pic.studentId
  BY <1>f, Bases
<1>0. getData(pic) = q1
  <2>1. getData(pic) = Sum(x, OfY * y, OfAngle * angle, scale, pic.name, pic.layer, pic.studentId)
    BY NoOverflow, Zenon DEF x, y, angle, scale
  <2>2. Sum(x, OfY * y, OfAngle * angle, scale, pic.name, pic.layer, pic.studentId) = q1
    BY <1>i, Horner, Zenon DEF x, y, angle, scale
  <2> HIDE DEF q1
  <2> QED BY <2>1, <2>2
<1>6. q6 \in Nat /\ q6 \div LayerBase = pic.studentId /\ q6 % LayerBase = pic.layer
  <2>1. LayerBase \in Nat \ {0}
    BY Bases
  <2>2. pic.layer \in 0 .. LayerBase - 1 /\ pic.studentId \in Nat
    BY <1>f, <1>s
  <2> QED BY <2>1, <2>2, Digit, Zenon
<1> HIDE DEF q6
<1>5. q5 \in Nat /\ q5 \div NameBase = q6 /\ q5 % NameBase = pic.name
  <2>1. NameBase \in Nat \ {0} /\ q6 \in Nat
    BY <1>6, Bases
  <2>2. pic.name \in 0 .. NameBase - 1
    BY <1>f
  <2> QED BY <2>1, <2>2, Digit, Zenon
<1> HIDE DEF q5
<1>4. q4 \in Nat /\ q4 \div ScaleBase = q5 /\ q4 % ScaleBase = scale
  BY <1>5, <1>f, Bases, Digit, Zenon
<1> HIDE DEF q4
<1>3. q3 \in Nat /\ q3 \div AngleBase = q4 /\ q3 % AngleBase = angle
  BY <1>4, <1>f, Bases, Digit, Zenon
<1> HIDE DEF q3
<1>2. q2 \in Nat /\ q2 \div YBase = q3 /\ q2 % YBase = y
  BY <1>3, <1>f, Bases, Digit, Zenon
<1> HIDE DEF q2
<1>1. q1 \in Nat /\ q1 \div XBase = q2 /\ q1 % XBase = x
  BY <1>2, <1>f, Bases, Digit, Zenon
<1> HIDE DEF q1
<1>7. /\ OffX(q1) = q2 /\ OffY(q1) = q3 /\ OffAngle(q1) = q4
      /\ OffScale(q1) = q5 /\ OffName(q1) = q6 /\ OffLayer(q1) = pic.studentId
  BY <1>1, <1>2, <1>3, <1>4, <1>5, <1>6
     DEF OffX, OffY, OffAngle, OffScale, OffName, OffLayer
<1>8. Digits(q1) = q1 /\ ~(q1 < 0)
  BY <1>1 DEF Digits
<1>9. getPicture(q1) =
        [x |-> Unit * x, y |-> Unit * y, angle |-> Unit * angle, scale |-> Ten * scale,
         name |-> pic.name, layer |-> pic.layer, studentId |-> pic.studentId]
  BY <1>1, <1>2, <1>3, <1>4, <1>5, <1>6, <1>7, <1>8, <1>s, Zenon DEF getPicture
<1>10. Rounded(pic) =
        [x |-> Unit * x, y |-> Unit * y, angle |-> Unit * angle, scale |-> Ten * scale,
         name |-> pic.name, layer |-> pic.layer, studentId |-> pic.studentId]
  BY Zenon DEF Rounded, x, y, angle, scale
<1>11. Readable(q1)
  BY <1>7, <1>8, <1>s DEF Readable
<1> QED BY <1>0, <1>9, <1>10, <1>11

==============================================================================
