-------------------------- MODULE StringConversion --------------------------
(***************************************************************************)
(* CameraStringConversion (camera/CameraWrapper.cpp): what the camera shows *)
(* as text, the program keeps as an int.  A text is a unit and the digits   *)
(* in front of or behind it, read as a whole number:                        *)
(*    [unit |-> "s",  digits |-> 125]     "0.0125s"  (four decimals)        *)
(*    [unit |-> "f/", digits |-> 560]     "f/5.6"    (hundredths)           *)
(*    [unit |-> "",   digits |-> 200]     "200"                             *)
(*    [unit |-> "Bulb" / "?", digits |-> 0]   a word: Bulb, or another one  *)
(* The conversions compute with 32-bit floats, rounding at each operation   *)
(* (IEEE 754, to nearest, ties to even), and truncate at the end; both are  *)
(* kept here.  All arithmetic stays below 2^31.                             *)
(***************************************************************************)
EXTENDS Integers, Sequences

Text(unit, digits) == [unit |-> unit, digits |-> digits]
Bulb == Text("Bulb", 0)
Word == Text("?", 0)
----------------------------------------------------------------------------
\* A positive float is m * 2^e with 2^23 <= m < 2^24.  Scaled brings the
\* number (q + r/d) * 2^e, where r < d, to a q in that range.
Scaled[x \in Nat \X Nat \X Nat \X Int] ==
  LET q == x[1]  r == x[2]  d == x[3]  e == x[4]
  IN  IF q < 2^23
      THEN Scaled[<<2 * q + (2 * r) \div d, (2 * r) % d, d, e - 1>>]
      ELSE IF q >= 2^24
           THEN Scaled[<<q \div 2, r + (q % 2) * d, 2 * d, e + 1>>]
           ELSE x

\* The float nearest to n/d * 2^e.
Float(n, d, e) ==
  LET x == Scaled[<<n \div d, n % d, d, e>>]
      up == 2 * x[2] > x[3] \/ (2 * x[2] = x[3] /\ x[1] % 2 = 1)
      m == IF up THEN x[1] + 1 ELSE x[1]
  IN  IF m = 2^24 THEN [m |-> 2^23, e |-> x[4] + 1] ELSE [m |-> m, e |-> x[4]]

Times100(f) == Float(100 * f.m, 1, f.e)
Times1000(f) == Float(125 * f.m, 1, f.e + 3)
Over(f, d) == Float(f.m, d, f.e)

\* int(f).
Truncate(f) == IF f.e >= 0 THEN f.m * 2^f.e
               ELSE IF f.e < -24 THEN 0 ELSE f.m \div 2^(-f.e)

\* f as text with four decimals: the multiple of 10^-4 nearest to the exact
\* value of f, which is below 2^12.
Fixed4(f) ==
  LET high == f.m \div 2^12
      low == (f.m % 2^12) * 10000
      a == high * 10000 + low \div 2^12    \* f * 10^4 = (a + b/2^12) / 2^s
      b == low % 2^12
      s == -f.e - 12
      r == 2 * (a % 2^s)
      up == r > 2^s \/ (r = 2^s /\ (b > 0 \/ (a \div 2^s) % 2 = 1))
  IN  IF s > 27 THEN 0 ELSE IF up THEN a \div 2^s + 1 ELSE a \div 2^s
----------------------------------------------------------------------------
\* stof of the digits, then times 1000, then times 1000, then int().
shutterSpeedToInt(t) ==
  CASE t = Bulb -> 0
    [] t.unit = "s" -> IF t.digits = 0 THEN 0
                       ELSE Truncate(Times1000(Times1000(Float(t.digits, 10000, 0))))
    [] OTHER -> -1

shutterSpeedToString(us) ==
  IF us = 0 THEN Bulb ELSE Text("s", Fixed4(Over(Float(us, 1, 0), 1000000)))

apertureToInt(t) ==
  IF t.unit # "f/" THEN -1
  ELSE IF t.digits = 0 THEN 0 ELSE Truncate(Times100(Float(t.digits, 100, 0)))

\* Six significant digits of the float nearest to a/100 are those of a/100.
apertureToString(a) == Text("f/", a)
----------------------------------------------------------------------------
\* One round of the binary search halves the window a .. b.
Bisect(choices, value) ==
  LET window[w \in Nat \X Nat] ==
        LET a == w[1]  b == w[2]  c == (a + b) \div 2
        IN  IF b - a <= 1 THEN w
            ELSE IF value = choices[c] THEN <<c, c>>
            ELSE IF value > choices[c] THEN window[<<c, b>>]
            ELSE window[<<a, c>>]
  IN  window[<<1, Len(choices)>>]

\* A variant with a fault: the upper end of the window is not considered.
findNearestLower(choices, value) ==
  IF Len(choices) = 0 THEN -1
  ELSE IF Len(choices) = 1 \/ value <= choices[1] THEN choices[1]
  ELSE IF value >= choices[Len(choices)] THEN choices[Len(choices)]
  ELSE choices[Bisect(choices, value)[1]]

findNearest(choices, value) ==
  IF Len(choices) = 0 THEN -1
  ELSE IF Len(choices) = 1 \/ value <= choices[1] THEN choices[1]
  ELSE IF value >= choices[Len(choices)] THEN choices[Len(choices)]
  ELSE LET w == Bisect(choices, value)
           a == choices[w[1]]  b == choices[w[2]]
       IN  IF b - value < value - a THEN b ELSE a
=============================================================================
