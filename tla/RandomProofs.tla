---------------------------- MODULE RandomProofs ----------------------------
(***************************************************************************)
(* The three invariants of the generator, for every modulus, coefficient   *)
(* and jump that the assumptions of RandomStream allow.                    *)
(*                                                                         *)
(* MultModM is exact, though a product may be too large for a double, and  *)
(* the last lines of U01 compute remainders; so MatVecModM multiplies      *)
(* modulo m, U01 moves the state by the matrix of one step, and a product  *)
(* of matrices moves it as the factors do one after the other.  The states *)
(* that steps lead to, in both directions, are the orbit of the seed, and  *)
(* a matrix Moves it by d when it takes every state of the orbit to the    *)
(* one d steps on.  The loops of MatTwoPowModM and MatPowModM are followed *)
(* round by round to show how far their results move; no component of the  *)
(* orbit is ever zero, as a matrix would bring it back to the seed.  The   *)
(* inductive invariant says that every state of a stream is the one of the *)
(* orbit at the position that its history counts.                          *)
(*                                                                         *)
(* For the numbers, norm and every result of U01 and U01d is followed      *)
(* through its rounding: a double is off by half the distance of its       *)
(* neighbours at most, too little to take a number beyond 0 or 1, but      *)
(* enough to take one that is just below 1 to 1 itself.                    *)
(***************************************************************************)
EXTENDS RandomStream, TLAPS, WellFoundedInduction

-----------------------------------------------------------------------------
(* Arithmetic *)

\* The remainder and the quotient.
LEMMA DivMod ==
  ASSUME NEW v \in Int, NEW m \in Nat \ {0}
  PROVE  /\ v \div m \in Int /\ v % m \in 0 .. m - 1
         /\ v = (v \div m) * m + (v % m)
OBVIOUS

\* The same with names for the quotient and the remainder.
LEMMA Division ==
  ASSUME NEW v \in Int, NEW m \in Nat \ {0}
  PROVE  \E q \in Int, r \in 0 .. m - 1 : v = q * m + r /\ q = v \div m /\ r = v % m
BY DivMod

\* A nonzero multiple of m is at least m away from zero.
LEMMA FarApart ==
  ASSUME NEW m \in Nat \ {0}, NEW k \in Int, -m < k * m, k * m < m
  PROVE  k = 0
<1>1. CASE k >= 1
  <2>1. k * m >= m
    BY <1>1
  <2> QED BY <2>1
<1>2. CASE k <= -1
  <2>1. k * m <= -m
    BY <1>2
  <2> QED BY <2>1
<1> QED BY <1>1, <1>2

\* What has the remainder r.
LEMMA ModIs ==
  ASSUME NEW v \in Int, NEW m \in Nat \ {0}, NEW k \in Int, NEW r \in 0 .. m - 1,
         v = k * m + r
  PROVE  v % m = r
<1>1. PICK q \in Int, w \in 0 .. m - 1 : v = q * m + w /\ w = v % m
  BY DivMod
<1>2. (k - q) * m = w - r
  BY <1>1
<1>3. k - q = 0
  <2>1. k - q \in Int /\ -m < (k - q) * m /\ (k - q) * m < m
    BY <1>2
  <2> QED BY <2>1, FarApart
<1>4. (k - q) * m = 0
  BY <1>3
<1>5. w = r
  BY <1>2, <1>4
<1> QED BY <1>1, <1>5

\* Numbers that differ by a multiple of m have the same remainder.
LEMMA Congruent ==
  ASSUME NEW v \in Int, NEW w \in Int, NEW m \in Nat \ {0}, NEW k \in Int, v = w + k * m
  PROVE  v % m = w % m
<1>1. PICK q \in Int, r \in 0 .. m - 1 : w = q * m + r /\ r = w % m
  BY DivMod
<1>2. PICK j \in Int : j = q + k
  OBVIOUS
<1>3. v = j * m + r
  <2>1. (q + k) * m = q * m + k * m
    OBVIOUS
  <2> QED BY <1>1, <1>2, <2>1
<1>4. v % m = r
  <2>1. v \in Int /\ m \in Nat \ {0} /\ j \in Int /\ r \in 0 .. m - 1
    OBVIOUS
  <2> QED BY ONLY <1>3, <2>1, ModIs, SMTT(20)
<1> QED BY <1>1, <1>4

\* The same, quantified.
LEMMA Congruence ==
  \A n \in Nat \ {0} : \A i, j, l \in Int : i = j + l * n => i % n = j % n
BY Congruent

\* The cut quotient leaves a rest below m, with the sign of v.
LEMMA CutIs ==
  ASSUME NEW v \in Int, NEW m \in Nat \ {0}
  PROVE  /\ Cut(v, m) \in Int
         /\ v - Cut(v, m) * m \in -(m - 1) .. m - 1
         /\ v >= 0 => 0 <= Cut(v, m) * m /\ Cut(v, m) * m <= v
         /\ v < 0 => v <= Cut(v, m) * m /\ Cut(v, m) * m <= 0
<1>1. CASE v < 0
  <2>1. Cut(v, m) = -((-v) \div m)
    BY <1>1 DEF Cut
  <2>2. PICK q \in Int, w \in 0 .. m - 1 : -v = q * m + w /\ q = (-v) \div m
    <3>1. -v \in Int
      OBVIOUS
    <3> QED BY <3>1, DivMod
  <2>3. v - (-q) * m = -w /\ (-q) * m = -(q * m)
    BY <2>2
  <2>4. q * m >= 0
    <3>1. q * m > -m /\ (q < 0 => q * m <= -m)
      BY <1>1, <2>2
    <3>2. q >= 0
      BY <3>1
    <3> QED BY <3>2
  <2> QED BY <1>1, <2>1, <2>2, <2>3, <2>4
<1>2. CASE ~(v < 0)
  <2>1. Cut(v, m) = v \div m
    BY <1>2 DEF Cut
  <2>2. PICK q \in Int, w \in 0 .. m - 1 : v = q * m + w /\ q = v \div m
    BY DivMod
  <2>3. v - q * m = w
    BY <2>2
  <2>4. q * m >= 0
    <3>1. q * m > -m /\ (q < 0 => q * m <= -m)
      BY <1>2, <2>2
    <3>2. q >= 0
      BY <3>1
    <3> QED BY <3>2
  <2> QED BY <1>2, <2>1, <2>2, <2>3, <2>4
<1> QED BY <1>1, <1>2

\* The last lines of MultModM, and of each component of U01, compute the
\* remainder, of negative numbers too.
LEMMA RestIs ==
  ASSUME NEW v \in Int, NEW m \in Nat \ {0}
  PROVE  Rest(v, m) = v % m
<1>1. PICK k \in Int : k = Cut(v, m) /\ v - k * m \in -(m - 1) .. m - 1
  BY CutIs
<1>2. PICK d \in -(m - 1) .. m - 1 : d = v - k * m
  BY <1>1
<1>3. Rest(v, m) = IF d < 0 THEN d + m ELSE d
  BY <1>1, <1>2 DEF Rest
<1>4. CASE d < 0
  <2>1. v = (k - 1) * m + (d + m) /\ d + m \in 0 .. m - 1 /\ k - 1 \in Int
    BY <1>2, <1>4
  <2> QED BY <1>3, <1>4, <2>1, ModIs
<1>5. CASE ~(d < 0)
  <2>1. v = k * m + d /\ d \in 0 .. m - 1
    BY <1>2, <1>5
  <2> QED BY <1>3, <1>5, <2>1, ModIs
<1> QED BY <1>4, <1>5

\* A double below two53 is exact, and it is found to be.
LEMMA DoubleIs ==
  ASSUME NEW v \in Int
  PROVE  -two53 < v /\ v < two53 => Double(v) = v
BY PrecisionAssumption DEF Double

\* Products of numbers of bounded size.
LEMMA ProductIsBounded ==
  ASSUME NEW x \in Int, NEW y \in Int, NEW a \in Nat, NEW b \in Nat,
         -a <= x, x <= a, -b <= y, y <= b
  PROVE  -(a * b) <= x * y /\ x * y <= a * b
<1>1. ASSUME NEW u \in Nat, NEW w \in Nat, u <= a, w <= b
      PROVE  u * w <= a * b /\ u * w \in Nat
  <2>1. u * w <= a * w /\ a * w <= a * b
    <3>1. (a - u) * w >= 0
      BY <1>1
    <3>2. a * (b - w) >= 0
      BY <1>1
    <3> QED BY <3>1, <3>2
  <2> QED BY <2>1
<1>2. CASE x >= 0 /\ y >= 0
  BY <1>1, <1>2
<1>3. CASE x >= 0 /\ y < 0
  <2>1. x * (-y) <= a * b /\ x * (-y) \in Nat
    BY <1>1, <1>3
  <2> QED BY <2>1
<1>4. CASE x < 0 /\ y >= 0
  <2>1. (-x) * y <= a * b /\ (-x) * y \in Nat
    BY <1>1, <1>4
  <2> QED BY <2>1
<1>5. CASE x < 0 /\ y < 0
  <2>1. (-x) * (-y) <= a * b /\ (-x) * (-y) \in Nat
    BY <1>1, <1>5
  <2> QED BY <2>1
<1> QED BY <1>2, <1>3, <1>4, <1>5

\* The bounds for either modulus.
LEMMA Fits ==
  ASSUME NEW m \in {m1, m2}
  PROVE  /\ m \in Nat \ {0, 1} /\ 2 * (two17 * m) <= two53
         /\ m * m <= two53 * two17 /\ two17 \in Nat \ {0} /\ two53 \in Nat
<1>1. m \in Nat \ {0, 1} /\ m <= m1 /\ m1 \in Nat /\ two17 \in Nat \ {0} /\ two53 \in Nat
  BY RandomAssumption, PrecisionAssumption
<1>2. 2 * (two17 * m1) <= two53
  BY <1>1, PrecisionAssumption
<1>3. two17 * m <= two17 * m1 /\ two17 * m \in Nat /\ two17 * m1 \in Nat
  <2>1. two17 * (m1 - m) >= 0
    BY <1>1
  <2> QED BY <1>1, <2>1
<1>4. m * m <= m1 * m1 /\ m * m \in Nat /\ m1 * m1 \in Nat
  BY <1>1, ProductIsBounded
<1>5. m1 * m1 <= two53 * two17 /\ two53 * two17 \in Nat
  BY <1>1, PrecisionAssumption
<1> QED BY <1>1, <1>2, <1>3, <1>4, <1>5

\* (a*s + c) mod m, exactly, for factors below m in size: where the product may
\* be too large for a double, the parts that a is split into are not.
LEMMA MultModMIs ==
  ASSUME NEW m \in {m1, m2}, NEW a \in -(m - 1) .. m - 1, NEW s \in -(m - 1) .. m - 1,
         NEW c \in 0 .. m - 1
  PROVE  MultModM(a, s, c, m) = (a * s + c) % m
<1>1. /\ m \in Nat \ {0, 1} /\ 2 * (two17 * m) <= two53 /\ m * m <= two53 * two17
      /\ two17 \in Nat \ {0} /\ two53 \in Nat
  BY Fits
<1>2. PICK t \in Nat \ {0}, d \in Nat : t = two17 /\ d = two53
  BY <1>1
<1>3. a \in Int /\ s \in Int /\ c \in Int /\ m \in Int
  BY <1>1
<1>4. PICK x \in Int : x = a * s + c
  BY <1>3
<1>5. PICK a1 \in Int, low \in -(t - 1) .. t - 1 :
        a1 = Cut(a, t) /\ low = a - a1 * t /\ -(m - 1) <= a1 * t /\ a1 * t <= m - 1
  <2>1. Cut(a, t) \in Int /\ a - Cut(a, t) * t \in -(t - 1) .. t - 1
        /\ (a >= 0 => 0 <= Cut(a, t) * t /\ Cut(a, t) * t <= a)
        /\ (a < 0 => a <= Cut(a, t) * t /\ Cut(a, t) * t <= 0)
    BY <1>3, CutIs
  <2>2. Cut(a, t) * t \in Int
    BY <2>1
  <2> QED BY <1>1, <1>3, <2>1, <2>2
<1>6. PICK p \in Int : p = a1 * s
  BY <1>3
<1>7. -d < p /\ p < d
  <2>1. PICK y \in Int : y = a1 * t
    OBVIOUS
  <2>2. -((m - 1) * (m - 1)) <= y * s /\ y * s <= (m - 1) * (m - 1)
    BY <1>1, <1>3, <1>5, <2>1, ProductIsBounded
  <2>3. (m - 1) * (m - 1) < m * m
    BY <1>1
  <2>4. y * s = p * t
    BY <1>3, <1>6, <2>1
  <2>5. -(d * t) < p * t /\ p * t < d * t
    <3>1. (m - 1) * (m - 1) \in Int /\ m * m \in Int /\ d * t \in Int /\ p * t \in Int
      BY <1>1
    <3> QED BY <1>1, <1>2, <2>2, <2>3, <2>4, <3>1
  <2>6. p >= d => p * t >= d * t
    <3>1. p >= d => (p - d) * t >= 0
      OBVIOUS
    <3> QED BY <3>1
  <2>7. p <= -d => p * t <= -(d * t)
    <3>1. p <= -d => (p + d) * t <= 0
      OBVIOUS
    <3> QED BY <3>1
  <2> QED BY <2>5, <2>6, <2>7
<1>8. PICK q \in Int, high \in -(m - 1) .. m - 1 : q = Cut(p, m) /\ high = p - q * m
  BY <1>1, CutIs
<1>9. PICK z \in Int : z = high * t + low * s + c
  BY <1>1, <1>3
<1>10. -d < z /\ z < d
  <2>1. -((m - 1) * t) <= high * t /\ high * t <= (m - 1) * t
    BY <1>1, <1>8, ProductIsBounded
  <2>2. -((t - 1) * (m - 1)) <= low * s /\ low * s <= (t - 1) * (m - 1)
    <3>1. t - 1 \in Nat /\ m - 1 \in Nat /\ low \in Int /\ -(t - 1) <= low /\ low <= t - 1
          /\ -(m - 1) <= s /\ s <= m - 1
      BY <1>1, <1>3, <1>5
    <3> QED BY ONLY <1>3, <3>1, ProductIsBounded
  <2>3. (m - 1) * t + (t - 1) * (m - 1) + (m - 1) = 2 * (t * m) - 2 * t
    BY <1>1
  <2>4. /\ (m - 1) * t \in Int /\ (t - 1) * (m - 1) \in Int /\ t * m \in Int
        /\ high * t \in Int /\ low * s \in Int
    BY <1>1, <1>3
  <2> QED BY <1>1, <1>2, <1>3, <1>9, <2>1, <2>2, <2>3, <2>4
<1>11. z = x + (-(q * t)) * m
  <2>1. high * t = a1 * s * t - q * t * m
    BY <1>1, <1>3, <1>6, <1>8
  <2>2. low * s = a * s - a1 * s * t
    BY <1>3, <1>5
  <2>3. (-(q * t)) * m = -(q * t * m)
    BY <1>1
  <2> QED BY <1>3, <1>4, <1>9, <2>1, <2>2, <2>3
<1>12. z % m = x % m
  <2>1. z \in Int /\ x \in Int /\ -(q * t) \in Int /\ m \in Nat \ {0}
    BY <1>1
  <2>2. \A i, j, l \in Int : i = j + l * m => i % m = j % m
    BY ONLY Congruence, <2>1, Zenon
  <2>3. PICK l \in Int : l = -(q * t)
    OBVIOUS
  <2>4. z = x + l * m
    BY ONLY <1>11, <2>3, Zenon
  <2> QED BY ONLY <2>1, <2>2, <2>3, <2>4, Zenon
<1>13. Double(p) = p /\ Double(z) = z
  BY <1>2, <1>7, <1>10, DoubleIs
<1>14. CASE Double(x) >= d \/ Double(x) <= -d
  <2>1. MultModM(a, s, c, m) = Rest(z, m)
    BY <1>2, <1>4, <1>5, <1>6, <1>8, <1>9, <1>13, <1>14 DEF MultModM
  <2> QED BY <1>1, <1>4, <1>12, <2>1, RestIs
<1>15. CASE ~(Double(x) >= d \/ Double(x) <= -d)
  <2>1. x % 2 \in 0 .. 1 /\ x = (x \div 2) * 2 + (x % 2) /\ x \div 2 \in Int
    BY DivMod
  <2>2. d % 2 = 0 /\ d = (d \div 2) * 2 + (d % 2) /\ d \div 2 \in Int
    <3>1. d % 2 = 0
      BY ONLY <1>2, PrecisionAssumption, Zenon
    <3>2. d \in Int /\ 2 \in Nat \ {0}
      OBVIOUS
    <3> QED BY <3>1, <3>2, DivMod
  <2>3. -d < x /\ x < d
    <3>1. CASE x >= d
      <4>1. Double(x) = x - (x % 2)
        BY <1>2, <3>1 DEF Double
      <4>2. x = d /\ x % 2 = 1
        BY <1>15, <2>1, <3>1, <4>1
      <4> QED BY <2>2, <4>2
    <3>2. CASE x <= -d
      <4>1. Double(x) = x - (x % 2)
        BY <1>2, <3>2 DEF Double
      <4> QED BY <1>15, <2>1, <3>2, <4>1
    <3> QED BY <3>1, <3>2
  <2>4. Double(x) = x
    BY <1>2, <2>3, DoubleIs
  <2>5. MultModM(a, s, c, m) = Rest(x, m)
    BY <1>2, <1>4, <1>15, <2>4 DEF MultModM
  <2> QED BY <1>1, <1>4, <2>5, RestIs
<1> QED BY <1>14, <1>15

-----------------------------------------------------------------------------
(* Matrices *)

\* A remainder in a sum.
LEMMA ModPlus ==
  ASSUME NEW x \in Int, NEW y \in Int, NEW n \in Nat \ {0}
  PROVE  (x + (y % n)) % n = (x + y) % n
<1>1. PICK q \in Int, r \in 0 .. n - 1 : y = q * n + r /\ r = y % n
  BY DivMod
<1>2. PICK u \in Int, w \in Int : u = x + y /\ w = x + r
  OBVIOUS
<1>3. u = w + q * n
  <2>1. y = q * n + r /\ q * n \in Int /\ r \in Int
    BY <1>1
  <2> QED BY <1>2, <2>1
<1>4. u % n = w % n
  BY ONLY <1>3, u \in Int, w \in Int, q \in Int, n \in Nat \ {0}, Congruent
<1> QED BY <1>1, <1>2, <1>4

\* One product after the other.
LEMMA Accumulated ==
  ASSUME NEW x \in Int, NEW y \in Int, NEW z \in Int, NEW n \in Nat \ {0}
  PROVE  (z + ((y + ((x + 0) % n)) % n)) % n = (x + y + z) % n
<1>1. PICK u \in Int : u = y + x
  OBVIOUS
<1>2. (y + (x % n)) % n = u % n
  BY <1>1, ModPlus
<1>3. (z + (u % n)) % n = (z + u) % n
  BY ModPlus
<1>4. x + 0 = x /\ z + u = x + y + z
  BY <1>1
<1> QED BY <1>2, <1>3, <1>4

\* The entries of the matrices, the states of a component, and the sum of the
\* products of a row and a column.
Around(m) == -(m - 1) .. m - 1
Small(m) == [1 .. 3 -> [1 .. 3 -> Around(m)]]
Vectors(m) == [1 .. 3 -> 0 .. m - 1]
Dot(a, s) == a[1] * s[1] + a[2] * s[2] + a[3] * s[3]

\* The order of the factors does not matter.
LEMMA DotCommutes ==
  ASSUME NEW a \in [1 .. 3 -> Int], NEW s \in [1 .. 3 -> Int]
  PROVE  Dot(a, s) = Dot(s, a) /\ Dot(a, s) \in Int
<1>1. PICK a1 \in Int, a2 \in Int, a3 \in Int : a1 = a[1] /\ a2 = a[2] /\ a3 = a[3]
  OBVIOUS
<1>2. PICK s1 \in Int, s2 \in Int, s3 \in Int : s1 = s[1] /\ s2 = s[2] /\ s3 = s[3]
  OBVIOUS
<1>3. a1 * s1 + a2 * s2 + a3 * s3 = s1 * a1 + s2 * a2 + s3 * a3
  OBVIOUS
<1> QED BY <1>1, <1>2, <1>3 DEF Dot

\* The two ways to sum the products of a row, a matrix and a column.
LEMMA RowMatrixColumn ==
  ASSUME NEW a \in [1 .. 3 -> Int], NEW B, \A k \in 1 .. 3 : B[k] \in [1 .. 3 -> Int],
         NEW s \in [1 .. 3 -> Int], NEW x \in [1 .. 3 -> Int], NEW y \in [1 .. 3 -> Int],
         \A j \in 1 .. 3 : x[j] = a[1] * B[1][j] + a[2] * B[2][j] + a[3] * B[3][j],
         \A k \in 1 .. 3 : y[k] = Dot(B[k], s)
  PROVE  Dot(x, s) = Dot(a, y)
<1>1. PICK a1 \in Int, a2 \in Int, a3 \in Int : a1 = a[1] /\ a2 = a[2] /\ a3 = a[3]
  OBVIOUS
<1>2. PICK s1 \in Int, s2 \in Int, s3 \in Int : s1 = s[1] /\ s2 = s[2] /\ s3 = s[3]
  OBVIOUS
<1>3. PICK b1 \in Int, b2 \in Int, b3 \in Int : b1 = B[1][1] /\ b2 = B[1][2] /\ b3 = B[1][3]
  OBVIOUS
<1>4. PICK c1 \in Int, c2 \in Int, c3 \in Int : c1 = B[2][1] /\ c2 = B[2][2] /\ c3 = B[2][3]
  OBVIOUS
<1>5. PICK d1 \in Int, d2 \in Int, d3 \in Int : d1 = B[3][1] /\ d2 = B[3][2] /\ d3 = B[3][3]
  OBVIOUS
<1>6. /\ x[1] = a1 * b1 + a2 * c1 + a3 * d1 /\ x[2] = a1 * b2 + a2 * c2 + a3 * d2
      /\ x[3] = a1 * b3 + a2 * c3 + a3 * d3
  BY <1>1, <1>3, <1>4, <1>5
<1>7. /\ y[1] = b1 * s1 + b2 * s2 + b3 * s3 /\ y[2] = c1 * s1 + c2 * s2 + c3 * s3
      /\ y[3] = d1 * s1 + d2 * s2 + d3 * s3
  BY <1>2, <1>3, <1>4, <1>5 DEF Dot
<1>8. Dot(x, s) = (a1 * b1 + a2 * c1 + a3 * d1) * s1 + (a1 * b2 + a2 * c2 + a3 * d2) * s2
                    + (a1 * b3 + a2 * c3 + a3 * d3) * s3
  BY <1>2, <1>6 DEF Dot
<1>9. Dot(a, y) = a1 * (b1 * s1 + b2 * s2 + b3 * s3) + a2 * (c1 * s1 + c2 * s2 + c3 * s3)
                    + a3 * (d1 * s1 + d2 * s2 + d3 * s3)
  BY <1>1, <1>7 DEF Dot
<1>10. (a1 * b1 + a2 * c1 + a3 * d1) * s1 + (a1 * b2 + a2 * c2 + a3 * d2) * s2
             + (a1 * b3 + a2 * c3 + a3 * d3) * s3
         = a1 * (b1 * s1 + b2 * s2 + b3 * s3) + a2 * (c1 * s1 + c2 * s2 + c3 * s3)
             + a3 * (d1 * s1 + d2 * s2 + d3 * s3)
  OBVIOUS
<1> QED BY <1>8, <1>9, <1>10

\* A sum of products with remainders on one side.
LEMMA DotRemainders ==
  ASSUME NEW x \in [1 .. 3 -> Int], NEW s \in [1 .. 3 -> Int], NEW n \in Nat \ {0},
         NEW r \in [1 .. 3 -> Int], \A j \in 1 .. 3 : r[j] = x[j] % n
  PROVE  Dot(r, s) % n = Dot(x, s) % n
<1>0. \A i, j, k \in Int : i = j + k * n => i % n = j % n
  BY ONLY n \in Nat \ {0}, Congruence, Zenon
<1>1. PICK q \in [1 .. 3 -> Int] : \A j \in 1 .. 3 : x[j] = q[j] * n + r[j]
  <2> DEFINE q == [j \in 1 .. 3 |-> x[j] \div n]
  <2>1. ASSUME NEW j \in 1 .. 3 PROVE q[j] \in Int /\ x[j] = q[j] * n + r[j]
    <3>1. PICK v \in Int : v = x[j]
      OBVIOUS
    <3>2. v \div n \in Int /\ v = (v \div n) * n + (v % n)
      BY DivMod
    <3> QED BY <3>1, <3>2
  <2> QED BY <2>1
<1>2. PICK q1 \in Int, q2 \in Int, q3 \in Int : q1 = q[1] /\ q2 = q[2] /\ q3 = q[3]
  OBVIOUS
<1>3. PICK r1 \in Int, r2 \in Int, r3 \in Int : r1 = r[1] /\ r2 = r[2] /\ r3 = r[3]
  OBVIOUS
<1>4. PICK s1 \in Int, s2 \in Int, s3 \in Int : s1 = s[1] /\ s2 = s[2] /\ s3 = s[3]
  OBVIOUS
<1>5. x[1] = q1 * n + r1 /\ x[2] = q2 * n + r2 /\ x[3] = q3 * n + r3
  BY <1>1, <1>2, <1>3
<1>6. PICK u \in Int, w \in Int, l \in Int :
        /\ u = (q1 * n + r1) * s1 + (q2 * n + r2) * s2 + (q3 * n + r3) * s3
        /\ w = r1 * s1 + r2 * s2 + r3 * s3 /\ l = q1 * s1 + q2 * s2 + q3 * s3
  OBVIOUS
<1>7. u = Dot(x, s) /\ w = Dot(r, s)
  BY <1>3, <1>4, <1>5, <1>6 DEF Dot
<1>8. u = w + l * n
  BY ONLY <1>6, n \in Nat \ {0}, q1 \in Int, q2 \in Int, q3 \in Int, r1 \in Int, r2 \in Int,
          r3 \in Int, s1 \in Int, s2 \in Int, s3 \in Int
<1>9. u % n = w % n
  BY ONLY <1>0, <1>8, u \in Int, w \in Int, l \in Int, Zenon
<1> QED BY <1>7, <1>9

\* A remainder is around zero.
LEMMA IsAround ==
  ASSUME NEW m \in {m1, m2}
  PROVE  /\ m \in Nat \ {0, 1} /\ \A k \in 0 .. m - 1 : k \in Around(m) /\ k \in Int
         /\ \A k \in Around(m) : k \in Int
         /\ \A v \in Int : v % m \in 0 .. m - 1
<1>1. m \in Nat \ {0, 1}
  BY Fits
<1>2. \A v \in Int : v % m \in 0 .. m - 1
  BY <1>1, DivMod
<1> QED BY <1>1, <1>2 DEF Around

\* MatVecModM computes the product of a matrix and a vector.
LEMMA MatVecIs ==
  ASSUME NEW m \in {m1, m2}, NEW A \in Small(m), NEW s \in [1 .. 3 -> Around(m)]
  PROVE  /\ MatVecModM(A, s, m) = [i \in 1 .. 3 |-> Dot(A[i], s) % m]
         /\ MatVecModM(A, s, m) \in Vectors(m)
         /\ \A i \in 1 .. 3 : Dot(A[i], s) \in Int
<1> DEFINE Entry(i) == MultModM(A[i][3], s[3],
                         MultModM(A[i][2], s[2], MultModM(A[i][1], s[1], 0, m), m), m)
<1>1. ASSUME NEW i \in 1 .. 3
      PROVE  Dot(A[i], s) \in Int /\ Entry(i) = Dot(A[i], s) % m /\ Entry(i) \in 0 .. m - 1
  <2>1. PICK a1, a2, a3 : /\ a1 \in Around(m) /\ a2 \in Around(m) /\ a3 \in Around(m)
                          /\ a1 = A[i][1] /\ a2 = A[i][2] /\ a3 = A[i][3]
    <3>1. A[i] \in [1 .. 3 -> Around(m)]
      BY DEF Small
    <3> QED BY <3>1
  <2>2. PICK t1, t2, t3 : /\ t1 \in Around(m) /\ t2 \in Around(m) /\ t3 \in Around(m)
                          /\ t1 = s[1] /\ t2 = s[2] /\ t3 = s[3]
    OBVIOUS
  <2>3. /\ a1 \in Int /\ a2 \in Int /\ a3 \in Int /\ t1 \in Int /\ t2 \in Int /\ t3 \in Int
        /\ m \in Nat \ {0, 1} /\ 0 \in 0 .. m - 1
    BY <2>1, <2>2, IsAround
  <2>4. PICK p1 \in Int, p2 \in Int, p3 \in Int : p1 = a1 * t1 /\ p2 = a2 * t2 /\ p3 = a3 * t3
    BY <2>3
  <2>5. PICK x1 \in 0 .. m - 1 : x1 = MultModM(a1, t1, 0, m) /\ x1 = (p1 + 0) % m
    <3>1. MultModM(a1, t1, 0, m) = (a1 * t1 + 0) % m
      <4>1. a1 \in Around(m) /\ t1 \in Around(m)
        BY <2>1, <2>2
      <4>2. 0 \in 0 .. m - 1
        BY <2>3
      <4> QED BY ONLY <4>1, <4>2, m \in {m1, m2}, MultModMIs, ZenonT(60) DEF Around
    <3>2. (p1 + 0) % m \in 0 .. m - 1
      BY IsAround
    <3> QED BY <2>4, <3>1, <3>2
  <2>6. PICK x2 \in 0 .. m - 1 : x2 = MultModM(a2, t2, x1, m) /\ x2 = (p2 + x1) % m
    <3>1. MultModM(a2, t2, x1, m) = (a2 * t2 + x1) % m
      <4>1. a2 \in Around(m) /\ t2 \in Around(m)
        BY <2>1, <2>2
      <4>2. x1 \in 0 .. m - 1
        OBVIOUS
      <4> QED BY ONLY <4>1, <4>2, m \in {m1, m2}, MultModMIs, ZenonT(60) DEF Around
    <3>2. p2 + x1 \in Int
      BY <2>3
    <3>3. (p2 + x1) % m \in 0 .. m - 1
      BY <3>2, IsAround
    <3> QED BY <2>4, <3>1, <3>3
  <2>7. PICK x3 \in 0 .. m - 1 : x3 = MultModM(a3, t3, x2, m) /\ x3 = (p3 + x2) % m
    <3>1. MultModM(a3, t3, x2, m) = (a3 * t3 + x2) % m
      <4>1. a3 \in Around(m) /\ t3 \in Around(m)
        BY <2>1, <2>2
      <4>2. x2 \in 0 .. m - 1
        OBVIOUS
      <4> QED BY ONLY <4>1, <4>2, m \in {m1, m2}, MultModMIs, ZenonT(60) DEF Around
    <3>2. p3 + x2 \in Int
      BY <2>3
    <3>3. (p3 + x2) % m \in 0 .. m - 1
      BY <3>2, IsAround
    <3> QED BY <2>4, <3>1, <3>3
  <2>8. Entry(i) = x3
    BY <2>1, <2>2, <2>5, <2>6, <2>7
  <2>9. Dot(A[i], s) = p1 + p2 + p3
    BY <2>1, <2>2, <2>4 DEF Dot
  <2>10. x3 = (p1 + p2 + p3) % m
    <3>1. x3 = (p3 + ((p2 + ((p1 + 0) % m)) % m)) % m
      BY ONLY <2>5, <2>6, <2>7, Zenon
    <3>2. (p3 + ((p2 + ((p1 + 0) % m)) % m)) % m = (p1 + p2 + p3) % m
      <4>1. p1 \in Int /\ p2 \in Int /\ p3 \in Int /\ m \in Nat \ {0}
        BY <2>3
      <4> QED BY ONLY <4>1, Accumulated, Zenon
    <3> QED BY ONLY <3>1, <3>2, Zenon
  <2> HIDE DEF Entry
  <2> QED BY <2>8, <2>9, <2>10
<1>2. MatVecModM(A, s, m) = [i \in 1 .. 3 |-> Entry(i)]
  BY Zenon DEF MatVecModM
<1> HIDE DEF Entry
<1> QED BY <1>1, <1>2 DEF Vectors

\* MatMatModM computes the product of two matrices.
LEMMA MatMatIs ==
  ASSUME NEW m \in {m1, m2}, NEW A \in Small(m), NEW B \in Small(m)
  PROVE  /\ MatMatModM(A, B, m) \in Matrices(m) /\ MatMatModM(A, B, m) \in Small(m)
         /\ \A i, j \in 1 .. 3 :
              /\ A[i][1] * B[1][j] + A[i][2] * B[2][j] + A[i][3] * B[3][j] \in Int
              /\ MatMatModM(A, B, m)[i][j]
                   = (A[i][1] * B[1][j] + A[i][2] * B[2][j] + A[i][3] * B[3][j]) % m
<1> DEFINE Column(j) == [i \in 1 .. 3 |-> B[i][j]]
           W == [j \in 1 .. 3 |-> MatVecModM(A, Column(j), m)]
           C == MatMatModM(A, B, m)
<1>1. C = [i \in 1 .. 3 |-> [j \in 1 .. 3 |-> W[j][i]]]
  BY Zenon DEF MatMatModM
<1>2. ASSUME NEW j \in 1 .. 3
      PROVE  /\ W[j] \in Vectors(m)
             /\ \A i \in 1 .. 3 :
                  /\ A[i][1] * B[1][j] + A[i][2] * B[2][j] + A[i][3] * B[3][j] \in Int
                  /\ W[j][i] = (A[i][1] * B[1][j] + A[i][2] * B[2][j] + A[i][3] * B[3][j]) % m
  <2>1. PICK c : c = Column(j)
    OBVIOUS
  <2>2. c \in [1 .. 3 -> Around(m)] /\ c[1] = B[1][j] /\ c[2] = B[2][j] /\ c[3] = B[3][j]
    BY <2>1 DEF Small
  <2>3. W[j] = MatVecModM(A, c, m)
    BY <2>1
  <2>4. /\ W[j] = [i \in 1 .. 3 |-> Dot(A[i], c) % m] /\ W[j] \in Vectors(m)
        /\ \A i \in 1 .. 3 : Dot(A[i], c) \in Int
    <3> HIDE DEF W
    <3> QED BY <2>2, <2>3, MatVecIs
  <2>5. \A i \in 1 .. 3 : Dot(A[i], c) = A[i][1] * B[1][j] + A[i][2] * B[2][j] + A[i][3] * B[3][j]
    BY <2>2 DEF Dot
  <2> HIDE DEF W, Column
  <2> QED BY <2>4, <2>5
<1> HIDE DEF W, C
<1>3. C \in Matrices(m)
  BY <1>1, <1>2 DEF Matrices, Vectors
<1>4. C \in Small(m)
  BY <1>3, IsAround DEF Matrices, Small
<1>5. \A i, j \in 1 .. 3 : C[i][j] = W[j][i]
  BY <1>1
<1> QED BY <1>2, <1>3, <1>4, <1>5 DEF C

\* The product of two matrices moves a state as the two do one after the other.
LEMMA MatMatVec ==
  ASSUME NEW m \in {m1, m2}, NEW A \in Small(m), NEW B \in Small(m), NEW s \in Vectors(m)
  PROVE  MatVecModM(MatMatModM(A, B, m), s, m) = MatVecModM(A, MatVecModM(B, s, m), m)
<1>1. PICK C \in Small(m) :
        /\ C = MatMatModM(A, B, m)
        /\ \A i, j \in 1 .. 3 :
             /\ A[i][1] * B[1][j] + A[i][2] * B[2][j] + A[i][3] * B[3][j] \in Int
             /\ C[i][j] = (A[i][1] * B[1][j] + A[i][2] * B[2][j] + A[i][3] * B[3][j]) % m
  BY MatMatIs
<1>2. s \in [1 .. 3 -> Around(m)]
  BY IsAround DEF Vectors
<1>3. PICK v \in Vectors(m) :
        /\ v = MatVecModM(B, s, m) /\ v = [i \in 1 .. 3 |-> Dot(B[i], s) % m]
        /\ \A i \in 1 .. 3 : Dot(B[i], s) \in Int
  BY <1>2, MatVecIs
<1>4. v \in [1 .. 3 -> Around(m)]
  BY IsAround DEF Vectors
<1>5. ASSUME NEW i \in 1 .. 3
      PROVE  Dot(C[i], s) % m = Dot(A[i], v) % m
  <2>1. PICK n \in Nat \ {0} : n = m
    BY IsAround
  <2>2. PICK a \in [1 .. 3 -> Int] : a = A[i]
    <3>1. A[i] \in [1 .. 3 -> Around(m)]
      BY DEF Small
    <3>2. A[i] \in [1 .. 3 -> Int]
      BY <3>1, IsAround
    <3> QED BY <3>2
  <2>3. s \in [1 .. 3 -> Int] /\ v \in [1 .. 3 -> Int] /\ C[i] \in [1 .. 3 -> Int]
    <3>1. C[i] \in [1 .. 3 -> Around(m)]
      BY DEF Small
    <3> QED BY <1>2, <1>4, <3>1, IsAround
  <2>4. PICK x \in [1 .. 3 -> Int] :
          \A j \in 1 .. 3 : x[j] = a[1] * B[1][j] + a[2] * B[2][j] + a[3] * B[3][j]
    <3> DEFINE x == [j \in 1 .. 3 |-> a[1] * B[1][j] + a[2] * B[2][j] + a[3] * B[3][j]]
    <3>1. x \in [1 .. 3 -> Int]
      BY <1>1, <2>2
    <3> QED BY <3>1
  <2>5. PICK y \in [1 .. 3 -> Int] : \A k \in 1 .. 3 : y[k] = Dot(B[k], s)
    <3> DEFINE y == [k \in 1 .. 3 |-> Dot(B[k], s)]
    <3>1. y \in [1 .. 3 -> Int]
      BY <1>3
    <3> QED BY <3>1
  <2>6. Dot(C[i], s) % n = Dot(x, s) % n
    <3>1. \A j \in 1 .. 3 : C[i][j] = x[j] % n
      BY <1>1, <2>1, <2>2, <2>4
    <3> QED BY <2>3, <3>1, DotRemainders
  <2>7. Dot(v, a) % n = Dot(y, a) % n
    <3>1. \A j \in 1 .. 3 : v[j] = y[j] % n
      BY <1>3, <2>1, <2>5
    <3> QED BY <2>3, <3>1, DotRemainders
  <2>8. Dot(v, a) = Dot(a, v)
    BY <2>3, DotCommutes
  <2>9. Dot(x, s) = Dot(y, a)
    <3>1. \A k \in 1 .. 3 : B[k] \in [1 .. 3 -> Int]
      <4> SUFFICES ASSUME NEW k \in 1 .. 3 PROVE B[k] \in [1 .. 3 -> Int]
        OBVIOUS
      <4>1. B[k] \in [1 .. 3 -> Around(m)]
        BY DEF Small
      <4> QED BY <4>1, IsAround
    <3>2. Dot(x, s) = Dot(a, y)
      BY <2>3, <2>4, <2>5, <3>1, RowMatrixColumn
    <3> QED BY <3>2, DotCommutes
  <2> QED BY <2>1, <2>2, <2>6, <2>7, <2>8, <2>9
<1>6. MatVecModM(C, s, m) = [i \in 1 .. 3 |-> Dot(C[i], s) % m]
  BY <1>2, MatVecIs
<1>7. MatVecModM(A, v, m) = [i \in 1 .. 3 |-> Dot(A[i], v) % m]
  BY <1>4, MatVecIs
<1> QED BY <1>1, <1>3, <1>5, <1>6, <1>7

-----------------------------------------------------------------------------
(* The orbit of a component *)

\* A matrix that moves each state of the orbit o by d steps.
Moves(T, d, o, m) ==
    T \in Small(m) /\ \A n \in Int : MatVecModM(T, o[n], m) = o[n + d]

\* The product moves it by the sum.
LEMMA MovesBoth ==
  ASSUME NEW m \in {m1, m2}, NEW o \in [Int -> Vectors(m)], NEW c \in Int, NEW d \in Int,
         NEW A, NEW B, Moves(A, c, o, m), Moves(B, d, o, m)
  PROVE  Moves(MatMatModM(A, B, m), c + d, o, m)
<1>1. A \in Small(m) /\ B \in Small(m)
  BY DEF Moves
<1>2. MatMatModM(A, B, m) \in Small(m)
  BY <1>1, MatMatIs
<1>3. ASSUME NEW n \in Int
      PROVE  MatVecModM(MatMatModM(A, B, m), o[n], m) = o[n + (c + d)]
  <2>1. MatVecModM(MatMatModM(A, B, m), o[n], m) = MatVecModM(A, MatVecModM(B, o[n], m), m)
    BY <1>1, MatMatVec
  <2>2. MatVecModM(B, o[n], m) = o[n + d]
    BY DEF Moves
  <2>3. PICK k \in Int : k = n + d
    OBVIOUS
  <2>4. MatVecModM(A, o[k], m) = o[k + c]
    BY DEF Moves
  <2>5. k + c = n + (c + d)
    BY <2>3
  <2> QED BY <2>1, <2>2, <2>3, <2>4, <2>5
<1> QED BY <1>2, <1>3 DEF Moves

\* The identity does not move.
LEMMA IdentityStays ==
  ASSUME NEW m \in {m1, m2}, NEW o \in [Int -> Vectors(m)]
  PROVE  Moves(Identity, 0, o, m)
<1>1. m \in Nat \ {0, 1} /\ 0 \in Around(m) /\ 1 \in Around(m)
  <2>1. m \in Nat \ {0, 1}
    BY IsAround
  <2> QED BY <2>1 DEF Around
<1>2. Identity \in Small(m)
  BY <1>1 DEF Identity, Small
<1>3. ASSUME NEW n \in Int PROVE MatVecModM(Identity, o[n], m) = o[n + 0]
  <2>1. PICK s \in Vectors(m) : s = o[n]
    OBVIOUS
  <2>2. s \in [1 .. 3 -> Around(m)]
    BY IsAround DEF Vectors
  <2>3. MatVecModM(Identity, s, m) = [i \in 1 .. 3 |-> Dot(Identity[i], s) % m]
    BY <1>2, <2>2, MatVecIs
  <2>4. ASSUME NEW i \in 1 .. 3 PROVE Dot(Identity[i], s) % m = s[i]
    <3>1. s[1] \in Int /\ s[2] \in Int /\ s[3] \in Int /\ s[i] \in 0 .. m - 1
      <4>1. \A j \in 1 .. 3 : s[j] \in 0 .. m - 1
        BY DEF Vectors
      <4> QED BY <4>1, IsAround
    <3>2. Dot(Identity[i], s) = s[i]
      BY <3>1 DEF Identity, Dot
    <3>3. s[i] = 0 * m + s[i] /\ 0 \in Int /\ s[i] \in Int /\ m \in Nat \ {0}
      BY <1>1, <3>1
    <3>4. s[i] % m = s[i]
      BY ONLY <3>1, <3>3, ModIs, Zenon
    <3> QED BY <3>2, <3>4
  <2> QED BY <2>1, <2>3, <2>4 DEF Vectors
<1> QED BY <1>2, <1>3 DEF Moves

-----------------------------------------------------------------------------
(* Recursive functions *)

\* Every nonempty set of natural numbers has a least member.
LEMMA Least ==
  ASSUME NEW S \in SUBSET Nat, S # {}
  PROVE  \E k \in S : \A n \in S : k <= n
<1>1. PICK k \in S : \A n \in S : ~(<<n, k>> \in OpToRel(<, Nat))
  BY WFMin, NatLessThanWellFounded
<1>2. \A n \in S : ~(n < k)
  BY <1>1 DEF OpToRel
<1> QED BY <1>2

\* Induction for sets.
LEMMA Induction ==
  ASSUME NEW S, 0 \in S, \A n \in Nat : n \in S => n + 1 \in S
  PROVE  \A n \in Nat : n \in S
<1> DEFINE Bad == {n \in Nat : n \notin S}
<1>1. SUFFICES ASSUME Bad # {} PROVE FALSE
  OBVIOUS
<1>2. PICK k \in Bad : \A n \in Bad : k <= n
  <2>1. Bad \in SUBSET Nat
    OBVIOUS
  <2> HIDE DEF Bad
  <2> QED BY <1>1, <2>1, Least
<1>3. k \in Nat /\ k # 0
  OBVIOUS
<1>4. k - 1 \in Nat /\ k - 1 \notin Bad
  <2>1. k - 1 \in Nat /\ ~(k <= k - 1)
    BY <1>3
  <2> HIDE DEF Bad
  <2> QED BY <1>2, <2>1
<1>5. k - 1 \in S /\ k = (k - 1) + 1
  BY <1>3, <1>4
<1> QED BY <1>3, <1>4, <1>5

\* The sequence of the values that a function g leads to from x.
LEMMA Iterates ==
  ASSUME NEW S, NEW x \in S, NEW g \in [S -> S]
  PROVE  \E h \in [Nat -> S] : h[0] = x /\ \A n \in Nat : h[n + 1] = g[h[n]]
<1> DEFINE Begins(f, N) == /\ f \in [0 .. N -> S] /\ f[0] = x
                           /\ \A n \in 1 .. N : f[n] = g[f[n - 1]]
           Exist == {N \in Nat : \E f : Begins(f, N)}
<1>1. \A N \in Nat : N \in Exist
  <2>1. 0 \in Exist
    <3>1. PICK f : f = [n \in 0 .. 0 |-> x]
      OBVIOUS
    <3>2. Begins(f, 0)
      BY <3>1
    <3> QED BY <3>2
  <2>2. ASSUME NEW N \in Nat, N \in Exist PROVE N + 1 \in Exist
    <3>1. PICK f : Begins(f, N)
      BY <2>2
    <3>2. PICK e : e = [n \in 0 .. N + 1 |-> IF n = N + 1 THEN g[f[N]] ELSE f[n]]
      OBVIOUS
    <3>3. e \in [0 .. N + 1 -> S] /\ e[0] = x
      BY <3>1, <3>2
    <3>4. ASSUME NEW n \in 1 .. N + 1 PROVE e[n] = g[e[n - 1]]
      <4>1. CASE n = N + 1
        <5>1. n - 1 = N /\ N \in 0 .. N + 1 /\ n \in 0 .. N + 1 /\ N # N + 1
          BY <4>1
        <5> QED BY <3>2, <4>1, <5>1
      <4>2. CASE n # N + 1
        <5>1. n \in 1 .. N /\ n \in 0 .. N + 1 /\ n - 1 \in 0 .. N + 1 /\ n - 1 # N + 1
          BY <4>2
        <5> QED BY <3>1, <3>2, <4>2, <5>1
      <4> QED BY <4>1, <4>2
    <3>5. Begins(e, N + 1)
      BY <3>3, <3>4
    <3> QED BY <3>5
  <2> HIDE DEF Exist
  <2> QED BY <2>1, <2>2, Induction
<1>2. ASSUME NEW M \in Nat, NEW N \in Nat, NEW e, NEW f, Begins(e, M), Begins(f, N)
      PROVE  \A n \in Nat : n <= M /\ n <= N => e[n] = f[n]
  <2> DEFINE Same == {n \in Nat : n <= M /\ n <= N => e[n] = f[n]}
  <2>1. 0 \in Same
    BY <1>2
  <2>2. ASSUME NEW n \in Nat, n \in Same PROVE n + 1 \in Same
    <3>1. SUFFICES ASSUME n + 1 <= M, n + 1 <= N PROVE e[n + 1] = f[n + 1]
      OBVIOUS
    <3>2. n + 1 \in 1 .. M /\ n + 1 \in 1 .. N /\ (n + 1) - 1 = n /\ n <= M /\ n <= N
      BY <3>1
    <3>3. e[n] = f[n]
      BY <2>2, <3>2
    <3> HIDE DEF Same
    <3>4. e[n + 1] = g[e[(n + 1) - 1]] /\ f[n + 1] = g[f[(n + 1) - 1]]
      BY <1>2, <3>2
    <3> QED BY <3>2, <3>3, <3>4
  <2>3. \A n \in Nat : n \in Same
    <3> HIDE DEF Same
    <3> QED BY <2>1, <2>2, Induction
  <2> QED BY <2>3
<1>3. PICK F : F = [N \in Nat |-> CHOOSE f : Begins(f, N)]
  OBVIOUS
<1>4. \A N \in Nat : Begins(F[N], N)
  <2> SUFFICES ASSUME NEW N \in Nat PROVE Begins(F[N], N)
    BY Zenon
  <2>1. \E f : Begins(f, N)
    BY <1>1
  <2> HIDE DEF Begins
  <2>2. F[N] = CHOOSE f : Begins(f, N)
    BY <1>3
  <2> QED BY <2>1, <2>2, Zenon
<1>5. PICK h : h = [n \in Nat |-> F[n][n]]
  OBVIOUS
<1>6. h \in [Nat -> S] /\ h[0] = x
  <2>1. ASSUME NEW n \in Nat PROVE F[n][n] \in S
    <3>1. n \in 0 .. n /\ F[n] \in [0 .. n -> S]
      BY <1>4
    <3> QED BY <3>1
  <2>2. F[0][0] = x
    BY <1>4
  <2> QED BY <1>5, <2>1, <2>2
<1>7. ASSUME NEW n \in Nat PROVE h[n + 1] = g[h[n]]
  <2>1. Begins(F[n + 1], n + 1) /\ Begins(F[n], n) /\ n + 1 \in Nat
    BY <1>4
  <2>2. F[n + 1][n] = F[n][n]
    <3> HIDE DEF Begins
    <3> QED BY <1>2, <2>1
  <2>3. F[n + 1][n + 1] = g[F[n + 1][(n + 1) - 1]] /\ (n + 1) - 1 = n
    BY <2>1
  <2> QED BY <1>5, <2>1, <2>2, <2>3
<1> QED BY <1>6, <1>7

\* The doublings that TwoTo counts.
LEMMA TwoToIs ==
  ASSUME NEW e \in Nat
  PROVE  \E p \in [0 .. e -> Nat \ {0}] :
            p[0] = 1 /\ p[e] = TwoTo(e) /\ \A i \in 1 .. e : p[i] = 2 * p[i - 1]
<1> DEFINE q == CHOOSE f : f = [i \in 0 .. e |-> IF i = 0 THEN 1 ELSE 2 * f[i - 1]]
<1>1. TwoTo(e) = q[e]
  BY Zenon DEF TwoTo
<1>2. PICK h \in [Nat -> Nat \ {0}] : h[0] = 1 /\ \A n \in Nat : h[n + 1] = 2 * h[n]
  <2>1. PICK g : g = [n \in Nat \ {0} |-> 2 * n]
    OBVIOUS
  <2>2. g \in [Nat \ {0} -> Nat \ {0}] /\ 1 \in Nat \ {0}
    BY <2>1
  <2>3. PICK S, y : S = Nat \ {0} /\ y = 1
    OBVIOUS
  <2>4. y \in S /\ g \in [S -> S]
    BY ONLY <2>2, <2>3, Zenon
  <2>5. PICK h \in [Nat -> S] : h[0] = y /\ \A i \in Nat : h[i + 1] = g[h[i]]
    BY ONLY <2>4, Iterates, SMTT(60)
  <2> QED BY <2>1, <2>3, <2>5
<1>3. PICK f : f = [i \in 0 .. e |-> h[i]]
  OBVIOUS
<1>4. f = [i \in 0 .. e |-> IF i = 0 THEN 1 ELSE 2 * f[i - 1]]
  <2>1. ASSUME NEW i \in 0 .. e, i # 0 PROVE f[i] = 2 * f[i - 1]
    <3>1. i - 1 \in Nat /\ i - 1 \in 0 .. e /\ (i - 1) + 1 = i
      BY <2>1
    <3> QED BY <1>2, <1>3, <3>1
  <2> QED BY <1>2, <1>3, <2>1
<1>5. q = [i \in 0 .. e |-> IF i = 0 THEN 1 ELSE 2 * q[i - 1]]
  BY <1>4, Zenon
<1> HIDE DEF q
<1>6. q[0] = 1 /\ \A i \in 1 .. e : q[i] = 2 * q[i - 1]
  <2>1. \A i \in 0 .. e : q[i] = IF i = 0 THEN 1 ELSE 2 * q[i - 1]
    BY <1>5, Zenon
  <2> QED BY <2>1
<1>7. \A i \in Nat : i <= e => q[i] \in Nat \ {0}
  <2> DEFINE Good == {i \in Nat : i <= e => q[i] \in Nat \ {0}}
  <2>1. 0 \in Good
    BY <1>6
  <2>2. ASSUME NEW i \in Nat, i \in Good PROVE i + 1 \in Good
    <3>1. SUFFICES ASSUME i + 1 <= e PROVE q[i + 1] \in Nat \ {0}
      OBVIOUS
    <3>2. q[i + 1] = 2 * q[(i + 1) - 1] /\ (i + 1) - 1 = i /\ q[i] \in Nat \ {0}
      BY <1>6, <2>2, <3>1
    <3> QED BY <3>2
  <2> HIDE DEF Good
  <2>3. \A i \in Nat : i \in Good
    BY <2>1, <2>2, Induction
  <2> QED BY <2>3 DEF Good
<1>8. q \in [0 .. e -> Nat \ {0}]
  <2>1. q = [i \in 0 .. e |-> q[i]]
    BY <1>5, Zenon
  <2>2. \A i \in 0 .. e : q[i] \in Nat \ {0}
    BY <1>7
  <2> QED BY <2>1, <2>2
<1> QED BY <1>1, <1>6, <1>8

\* Squaring e times makes a matrix that moves 2^e times as far.
LEMMA TwoPowMoves ==
  ASSUME NEW m \in {m1, m2}, NEW o \in [Int -> Vectors(m)], NEW A, NEW d \in Int,
         Moves(A, d, o, m), NEW e \in Nat
  PROVE  Moves(MatTwoPowModM(A, m, e), TwoTo(e) * d, o, m)
<1> DEFINE T == MatTwoPowModM(A, m, e)
           q == CHOOSE f : f = [i \in 0 .. e |-> IF i = 0 THEN A ELSE Squared(f[i - 1], m)]
<1>1. T = q[e]
  BY Zenon DEF MatTwoPowModM
<1>2. PICK h \in [Nat -> Small(m)] : h[0] = A /\ \A n \in Nat : h[n + 1] = Squared(h[n], m)
  <2>1. PICK g : g = [B \in Small(m) |-> Squared(B, m)]
    OBVIOUS
  <2>2. g \in [Small(m) -> Small(m)] /\ A \in Small(m)
    BY <2>1, MatMatIs DEF Squared, Moves
  <2>3. PICK S, y : S = Small(m) /\ y = A
    OBVIOUS
  <2>4. y \in S /\ g \in [S -> S]
    BY ONLY <2>2, <2>3, Zenon
  <2>5. PICK h \in [Nat -> S] : h[0] = y /\ \A i \in Nat : h[i + 1] = g[h[i]]
    BY ONLY <2>4, Iterates, SMTT(60)
  <2> QED BY <2>1, <2>3, <2>5
<1>3. PICK f : f = [i \in 0 .. e |-> h[i]]
  OBVIOUS
<1>4. f = [i \in 0 .. e |-> IF i = 0 THEN A ELSE Squared(f[i - 1], m)]
  <2>1. ASSUME NEW i \in 0 .. e, i # 0 PROVE f[i] = Squared(f[i - 1], m)
    <3>1. i - 1 \in Nat /\ i - 1 \in 0 .. e /\ (i - 1) + 1 = i
      BY <2>1
    <3> QED BY <1>2, <1>3, <3>1
  <2>2. f[0] = A
    BY <1>2, <1>3
  <2> QED BY <1>3, <2>1, <2>2
<1>5. q = [i \in 0 .. e |-> IF i = 0 THEN A ELSE Squared(q[i - 1], m)]
  BY <1>4, Zenon
<1> HIDE DEF q, T
<1>6. q[0] = A /\ \A i \in 1 .. e : q[i] = Squared(q[i - 1], m)
  BY <1>5
<1>7. PICK p \in [0 .. e -> Nat \ {0}] :
        p[0] = 1 /\ p[e] = TwoTo(e) /\ \A i \in 1 .. e : p[i] = 2 * p[i - 1]
  BY TwoToIs
<1>8. \A i \in Nat : i <= e => Moves(q[i], p[i] * d, o, m)
  <2> DEFINE Good == {i \in Nat : i <= e => Moves(q[i], p[i] * d, o, m)}
  <2>1. 0 \in Good
    <3>1. p[0] * d = d
      BY <1>7
    <3> QED BY <1>6, <3>1
  <2>2. ASSUME NEW i \in Nat, i \in Good PROVE i + 1 \in Good
    <3>1. SUFFICES ASSUME i + 1 <= e PROVE Moves(q[i + 1], p[i + 1] * d, o, m)
      OBVIOUS
    <3>2. i + 1 \in 1 .. e /\ (i + 1) - 1 = i /\ i \in 0 .. e
      BY <3>1
    <3>3. q[i + 1] = MatMatModM(q[i], q[i], m) /\ p[i + 1] = 2 * p[i]
      BY <1>6, <1>7, <3>2 DEF Squared
    <3>4. Moves(q[i], p[i] * d, o, m)
      BY <2>2, <3>2
    <3>5. PICK k \in Nat, c \in Int : k = p[i] /\ c = k * d
      <4>1. p[i] \in Nat /\ p[i] * d \in Int
        BY <1>7, <3>2
      <4> QED BY <4>1
    <3>6. p[i + 1] * d = c + c
      BY <3>3, <3>5
    <3>7. Moves(MatMatModM(q[i], q[i], m), c + c, o, m)
      BY <3>4, <3>5, MovesBoth
    <3> QED BY <3>3, <3>6, <3>7
  <2> HIDE DEF Good
  <2>3. \A i \in Nat : i \in Good
    BY <2>1, <2>2, Induction
  <2> QED BY <2>3 DEF Good
<1>9. Moves(q[e], p[e] * d, o, m)
  BY <1>8
<1> QED BY <1>1, <1>7, <1>9 DEF T

\* The rounds of MatPowModM: what is still to be done is in n.
Rounds(m) == [W : Small(m), n : Nat, B : Small(m)]

\* One round halves n.
LEMMA PowRoundIs ==
  ASSUME NEW m \in {m1, m2}, NEW acc \in Rounds(m)
  PROVE  /\ PowRound(acc, m) \in Rounds(m)
         /\ acc.n = 0 => PowRound(acc, m) = acc
         /\ acc.n # 0 => /\ PowRound(acc, m).W = MatMatModM(acc.W, acc.W, m)
                         /\ PowRound(acc, m).n = acc.n \div 2
                         /\ PowRound(acc, m).B = IF acc.n % 2 = 1 THEN MatMatModM(acc.W, acc.B, m)
                                                 ELSE acc.B
<1>1. MatMatModM(acc.W, acc.W, m) \in Small(m) /\ MatMatModM(acc.W, acc.B, m) \in Small(m)
  <2>1. acc.W \in Small(m) /\ acc.B \in Small(m)
    BY DEF Rounds
  <2> QED BY <2>1, MatMatIs
<1>2. acc.n \in Nat /\ acc.n \div 2 \in Nat
  <2>1. acc.n \in Nat
    BY DEF Rounds
  <2> QED BY <2>1
<1>3. CASE acc.n = 0
  BY <1>3 DEF PowRound
<1>4. CASE acc.n # 0
  <2>1. PICK W \in Small(m), B \in Small(m), C \in Small(m), n \in Nat :
          W = MatMatModM(acc.W, acc.W, m) /\ B = MatMatModM(acc.W, acc.B, m) /\ C = acc.B
          /\ n = acc.n \div 2
    BY <1>1, <1>2 DEF Rounds
  <2>2. PowRound(acc, m) = [W |-> W, n |-> n, B |-> IF acc.n % 2 = 1 THEN B ELSE C]
    BY <1>4, <2>1 DEF PowRound, Squared
  <2> QED BY <1>4, <2>1, <2>2 DEF Rounds
<1> QED BY <1>3, <1>4

\* What a round has done to an orbit: W moves by w, B by b, and w for each of
\* what is left.
Reached(r, d, N, o, m) ==
    \E w, b \in Int : /\ Moves(r.W, w, o, m) /\ Moves(r.B, b, o, m)
                      /\ w * r.n + b = N * d

\* A round keeps it.
LEMMA RoundReaches ==
  ASSUME NEW m \in {m1, m2}, NEW o \in [Int -> Vectors(m)], NEW d \in Int, NEW N \in Nat,
         NEW acc \in Rounds(m), Reached(acc, d, N, o, m)
  PROVE  Reached(PowRound(acc, m), d, N, o, m)
<1>1. CASE acc.n = 0
  BY <1>1, PowRoundIs
<1>2. CASE acc.n # 0
  <2>1. PICK w \in Int, b \in Int : Moves(acc.W, w, o, m) /\ Moves(acc.B, b, o, m)
                                    /\ w * acc.n + b = N * d
    BY DEF Reached
  <2>2. PICK r : r = PowRound(acc, m)
    OBVIOUS
  <2>3. /\ r.W = MatMatModM(acc.W, acc.W, m) /\ r.n = acc.n \div 2
        /\ r.B = IF acc.n % 2 = 1 THEN MatMatModM(acc.W, acc.B, m) ELSE acc.B
    BY <1>2, <2>2, PowRoundIs
  <2>4. PICK k \in Nat : k = acc.n
    BY DEF Rounds
  <2>5. k \div 2 \in Int /\ k % 2 \in 0 .. 1 /\ k = (k \div 2) * 2 + (k % 2)
    BY DivMod
  <2>6. Moves(r.W, w + w, o, m)
    BY <2>1, <2>3, MovesBoth
  <2>7. CASE k % 2 = 1
    <3>1. Moves(r.B, w + b, o, m)
      BY <2>1, <2>3, <2>4, <2>7, MovesBoth
    <3>2. (w + w) * (k \div 2) + (w + b) = N * d
      <4>1. PICK j \in Int : j = k \div 2 /\ k = j * 2 + 1
        BY <2>5, <2>7
      <4>2. (w + w) * j + (w + b) = w * (j * 2 + 1) + b
        OBVIOUS
      <4> QED BY <2>1, <2>4, <4>1, <4>2
    <3>3. w + w \in Int /\ w + b \in Int
      OBVIOUS
    <3> QED BY ONLY <2>2, <2>3, <2>4, <2>6, <3>1, <3>2, <3>3, Zenon DEF Reached
  <2>8. CASE k % 2 = 0
    <3>1. Moves(r.B, b, o, m)
      BY <2>1, <2>3, <2>4, <2>8
    <3>2. (w + w) * (k \div 2) + b = N * d
      <4>1. PICK j \in Int : j = k \div 2 /\ k = j * 2
        BY <2>5, <2>8
      <4>2. (w + w) * j + b = w * (j * 2) + b
        OBVIOUS
      <4> QED BY <2>1, <2>4, <4>1, <4>2
    <3>3. w + w \in Int /\ b \in Int
      OBVIOUS
    <3> QED BY ONLY <2>2, <2>3, <2>4, <2>6, <3>1, <3>2, <3>3, Zenon DEF Reached
  <2> QED BY <2>5, <2>7, <2>8
<1> QED BY <1>1, <1>2

\* MatPowModM makes a matrix that moves n times as far.
LEMMA PowMoves ==
  ASSUME NEW m \in {m1, m2}, NEW o \in [Int -> Vectors(m)], NEW A, NEW d \in Int,
         Moves(A, d, o, m), NEW n \in Nat
  PROVE  Moves(MatPowModM(A, m, n), n * d, o, m)
<1> DEFINE T == MatPowModM(A, m, n)
           begin == [W |-> A, n |-> n, B |-> Identity]
           q == CHOOSE f : f = [i \in 0 .. n |-> IF i = 0 THEN [W |-> A, n |-> n, B |-> Identity]
                                                 ELSE PowRound(f[i - 1], m)]
<1>1. T = q[n].B
  BY Zenon DEF MatPowModM
<1>2. begin \in Rounds(m) /\ Reached(begin, d, n, o, m)
  <2>1. A \in Small(m) /\ Identity \in Small(m) /\ Moves(Identity, 0, o, m)
    BY IdentityStays DEF Moves
  <2>2. begin.W = A /\ begin.B = Identity /\ begin.n = n
    OBVIOUS
  <2>3. d * n + 0 = n * d /\ d \in Int /\ 0 \in Int
    OBVIOUS
  <2>4. begin \in Rounds(m)
    BY <2>1 DEF Rounds
  <2> HIDE DEF begin
  <2>5. Reached(begin, d, n, o, m)
    BY ONLY <2>1, <2>2, <2>3, Moves(A, d, o, m), Zenon DEF Reached
  <2> QED BY <2>4, <2>5
<1>3. PICK h \in [Nat -> Rounds(m)] : h[0] = begin /\ \A i \in Nat : h[i + 1] = PowRound(h[i], m)
  <2> HIDE DEF begin
  <2>1. PICK g : g = [r \in Rounds(m) |-> PowRound(r, m)]
    OBVIOUS
  <2>2. g \in [Rounds(m) -> Rounds(m)] /\ begin \in Rounds(m)
    BY <1>2, <2>1, PowRoundIs
  <2>3. PICK S, y : S = Rounds(m) /\ y = begin
    OBVIOUS
  <2>4. y \in S /\ g \in [S -> S]
    BY ONLY <2>2, <2>3, Zenon
  <2>5. PICK h \in [Nat -> S] : h[0] = y /\ \A i \in Nat : h[i + 1] = g[h[i]]
    BY ONLY <2>4, Iterates, SMTT(60)
  <2> QED BY <2>1, <2>3, <2>5
<1>4. PICK f : f = [i \in 0 .. n |-> h[i]]
  OBVIOUS
<1>5. f = [i \in 0 .. n |-> IF i = 0 THEN begin ELSE PowRound(f[i - 1], m)]
  <2> HIDE DEF begin
  <2>1. ASSUME NEW i \in 0 .. n, i # 0 PROVE f[i] = PowRound(f[i - 1], m)
    <3>1. i - 1 \in Nat /\ i - 1 \in 0 .. n /\ (i - 1) + 1 = i
      BY <2>1
    <3> QED BY <1>3, <1>4, <3>1
  <2>2. f[0] = begin
    BY <1>3, <1>4
  <2> QED BY <1>4, <2>1, <2>2
<1>6. q = [i \in 0 .. n |-> IF i = 0 THEN begin ELSE PowRound(q[i - 1], m)]
  BY <1>5, Zenon
<1> HIDE DEF q, T, begin
<1>7. q[0] = begin /\ \A i \in 1 .. n : q[i] = PowRound(q[i - 1], m)
  BY <1>6
<1>8. \A i \in Nat : i <= n => /\ q[i] \in Rounds(m) /\ Reached(q[i], d, n, o, m)
                               /\ q[i].n <= n - i
  <2> DEFINE Good == {i \in Nat : i <= n => /\ q[i] \in Rounds(m) /\ Reached(q[i], d, n, o, m)
                                            /\ q[i].n <= n - i}
  <2>1. 0 \in Good
    <3>1. begin.n = n
      BY DEF begin
    <3> QED BY <1>2, <1>7, <3>1
  <2>2. ASSUME NEW i \in Nat, i \in Good PROVE i + 1 \in Good
    <3>1. SUFFICES ASSUME i + 1 <= n
                   PROVE  /\ q[i + 1] \in Rounds(m) /\ Reached(q[i + 1], d, n, o, m)
                          /\ q[i + 1].n <= n - (i + 1)
      OBVIOUS
    <3>2. i + 1 \in 1 .. n /\ (i + 1) - 1 = i /\ i <= n
      BY <3>1
    <3>3. PICK r \in Rounds(m) : r = q[i] /\ Reached(r, d, n, o, m) /\ r.n <= n - i
      BY <2>2, <3>2
    <3>4. q[i + 1] = PowRound(r, m)
      BY <1>7, <3>2, <3>3
    <3>5. q[i + 1] \in Rounds(m) /\ Reached(q[i + 1], d, n, o, m)
      BY <3>3, <3>4, PowRoundIs, RoundReaches
    <3>6. q[i + 1].n <= n - (i + 1)
      <4>1. PICK k \in Nat : k = r.n
        BY DEF Rounds
      <4>2. q[i + 1].n = IF k = 0 THEN k ELSE k \div 2
        BY <3>4, <4>1, PowRoundIs
      <4>3. k # 0 => k \div 2 <= k - 1
        OBVIOUS
      <4> QED BY <3>1, <3>3, <4>1, <4>2, <4>3
    <3> QED BY <3>5, <3>6
  <2> HIDE DEF Good
  <2>3. \A i \in Nat : i \in Good
    BY <2>1, <2>2, Induction
  <2> QED BY <2>3 DEF Good
<1>9. PICK r \in Rounds(m) : r = q[n] /\ Reached(r, d, n, o, m) /\ r.n = 0
  <2>1. q[n] \in Rounds(m) /\ Reached(q[n], d, n, o, m) /\ q[n].n <= 0
    BY <1>8
  <2>2. q[n].n \in Nat
    BY <2>1 DEF Rounds
  <2> QED BY <2>1, <2>2
<1>10. PICK w \in Int, b \in Int : Moves(r.B, b, o, m) /\ w * r.n + b = n * d
  BY <1>9 DEF Reached
<1>11. b = n * d
  BY <1>9, <1>10
<1> QED BY <1>1, <1>9, <1>10, <1>11 DEF T

-----------------------------------------------------------------------------
(* The orbit of a seed *)

Pairs == Vectors(m1) \X Vectors(m2)

\* The matrices of one step, and their inverses.
LEMMA StepMatrices ==
  /\ A1p0 \in Small(m1) /\ InvA1 \in Small(m1) /\ A2p0 \in Small(m2) /\ InvA2 \in Small(m2)
<1>1. m1 \in Nat \ {0, 1} /\ m2 \in Nat \ {0, 1}
  BY IsAround
<1>2. InvA1 \in Small(m1) /\ InvA2 \in Small(m2)
  BY IsAround, RandomAssumption DEF Matrices, Small
<1>3. /\ 0 \in Around(m1) /\ 1 \in Around(m1) /\ -a13n \in Around(m1) /\ a12 \in Around(m1)
      /\ 0 \in Around(m2) /\ 1 \in Around(m2) /\ -a23n \in Around(m2) /\ a21 \in Around(m2)
  BY <1>1, RandomAssumption DEF Around
<1>4. A1p0 \in Small(m1) /\ A2p0 \in Small(m2)
  BY <1>3 DEF A1p0, A2p0, Small
<1> QED BY <1>2, <1>4

\* The identity does not move a state.
LEMMA IdentityIs ==
  ASSUME NEW m \in {m1, m2}, NEW s \in Vectors(m)
  PROVE  MatVecModM(Identity, s, m) = s
<1>1. PICK o \in [Int -> Vectors(m)] : \A n \in Int : o[n] = s
  <2>1. [n \in Int |-> s] \in [Int -> Vectors(m)]
    OBVIOUS
  <2> QED BY <2>1
<1>2. MatVecModM(Identity, o[0], m) = o[0 + 0]
  BY IdentityStays DEF Moves
<1> QED BY <1>1, <1>2

\* The lines of U01 that step one component compute the product with its matrix.
LEMMA RowsOfStep ==
  ASSUME NEW m \in {m1, m2}, NEW s \in Vectors(m),
         NEW a \in Around(m), NEW b \in Around(m), NEW c \in Around(m)
  PROVE  LET A == << <<0, 1, 0>>, <<0, 0, 1>>, <<a, b, c>> >>
         IN  /\ A \in Small(m)
             /\ MatVecModM(A, s, m) = <<s[2], s[3], (a * s[1] + b * s[2] + c * s[3]) % m>>
<1> DEFINE A == << <<0, 1, 0>>, <<0, 0, 1>>, <<a, b, c>> >>
<1>1. m \in Nat \ {0, 1} /\ 0 \in Around(m) /\ 1 \in Around(m)
  <2>1. m \in Nat \ {0, 1}
    BY IsAround
  <2> QED BY <2>1 DEF Around
<1>2. A \in Small(m)
  BY <1>1 DEF Small
<1>3. s \in [1 .. 3 -> Around(m)] /\ \A i \in 1 .. 3 : s[i] \in 0 .. m - 1
  BY IsAround DEF Vectors
<1>4. PICK x \in 0 .. m - 1, y \in 0 .. m - 1, z \in 0 .. m - 1 : x = s[1] /\ y = s[2] /\ z = s[3]
  BY <1>3
<1>5. a \in Int /\ b \in Int /\ c \in Int /\ x \in Int /\ y \in Int /\ z \in Int
  BY <1>1, IsAround
<1>6. MatVecModM(A, s, m) = [i \in 1 .. 3 |-> Dot(A[i], s) % m]
  <2> HIDE DEF A
  <2> QED BY <1>2, <1>3, MatVecIs
<1>7. Dot(A[1], s) = y /\ Dot(A[2], s) = z /\ Dot(A[3], s) = a * x + b * y + c * z
  <2>1. Dot(A[1], s) = 0 * x + 1 * y + 0 * z
    BY <1>4 DEF Dot
  <2>2. Dot(A[2], s) = 0 * x + 0 * y + 1 * z
    BY <1>4 DEF Dot
  <2>3. Dot(A[3], s) = a * x + b * y + c * z
    BY <1>4 DEF Dot
  <2> HIDE DEF A
  <2> QED BY <1>5, <2>1, <2>2, <2>3
<1>8. y % m = y /\ z % m = z
  <2>1. y = 0 * m + y /\ z = 0 * m + z /\ 0 \in Int /\ y \in Int /\ z \in Int /\ m \in Nat \ {0}
        /\ y \in 0 .. m - 1 /\ z \in 0 .. m - 1
    BY <1>1
  <2> QED BY ONLY <2>1, ModIs, Zenon
<1>9. PICK r : r = (a * x + b * y + c * z) % m
  OBVIOUS
<1>10. MatVecModM(A, s, m) = <<y, z, r>>
  <2> HIDE DEF A
  <2> QED BY <1>6, <1>7, <1>8, <1>9
<1> QED BY <1>2, <1>4, <1>9, <1>10

\* U01 moves the state by the matrices of one step.
LEMMA StepIs ==
  ASSUME NEW s \in Pairs
  PROVE  /\ Step(s) = <<MatVecModM(A1p0, s[1], m1), MatVecModM(A2p0, s[2], m2)>>
         /\ Step(s) \in Pairs
<1>1. s[1] \in Vectors(m1) /\ s[2] \in Vectors(m2)
  BY DEF Pairs
<1>2. /\ m1 \in Nat \ {0, 1} /\ m2 \in Nat \ {0, 1} /\ a12 \in Int /\ a13n \in Int
      /\ a21 \in Int /\ a23n \in Int
      /\ 0 \in Around(m1) /\ -a13n \in Around(m1) /\ a12 \in Around(m1)
      /\ 0 \in Around(m2) /\ -a23n \in Around(m2) /\ a21 \in Around(m2)
  <2>1. m1 \in Nat \ {0, 1} /\ m2 \in Nat \ {0, 1}
    BY IsAround
  <2> QED BY <2>1, RandomAssumption DEF Around
<1>3. PICK x \in Int, y \in Int, z \in Int : x = s[1][1] /\ y = s[1][2] /\ z = s[1][3]
  <2>1. \A i \in 1 .. 3 : s[1][i] \in 0 .. m1 - 1
    BY <1>1 DEF Vectors
  <2> QED BY <1>2, <2>1
<1>4. PICK u \in Int, v \in Int, w \in Int : u = s[2][1] /\ v = s[2][2] /\ w = s[2][3]
  <2>1. \A i \in 1 .. 3 : s[2][i] \in 0 .. m2 - 1
    BY <1>1 DEF Vectors
  <2> QED BY <1>2, <2>1
<1>5. MatVecModM(A1p0, s[1], m1) = <<y, z, ((-a13n) * x + a12 * y + 0 * z) % m1>>
  BY <1>1, <1>2, <1>3, RowsOfStep DEF A1p0
<1>6. MatVecModM(A2p0, s[2], m2) = <<v, w, ((-a23n) * u + 0 * v + a21 * w) % m2>>
  BY <1>1, <1>2, <1>4, RowsOfStep DEF A2p0
<1>7. (-a13n) * x + a12 * y + 0 * z = a12 * y - a13n * x
  BY <1>2
<1>8. (-a23n) * u + 0 * v + a21 * w = a21 * w - a23n * u
  BY <1>2
<1>9. Rest(a12 * y - a13n * x, m1) = (a12 * y - a13n * x) % m1
  BY <1>2, RestIs
<1>10. Rest(a21 * w - a23n * u, m2) = (a21 * w - a23n * u) % m2
  BY <1>2, RestIs
<1>11. Step(s) = << <<y, z, Rest(a12 * y - a13n * x, m1)>>, <<v, w, Rest(a21 * w - a23n * u, m2)>> >>
  BY <1>3, <1>4 DEF Step
<1>12. Step(s) = <<MatVecModM(A1p0, s[1], m1), MatVecModM(A2p0, s[2], m2)>>
  BY <1>5, <1>6, <1>7, <1>8, <1>9, <1>10, <1>11
<1>13. MatVecModM(A1p0, s[1], m1) \in Vectors(m1) /\ MatVecModM(A2p0, s[2], m2) \in Vectors(m2)
  <2>1. s[1] \in [1 .. 3 -> Around(m1)] /\ s[2] \in [1 .. 3 -> Around(m2)]
    BY <1>1, IsAround DEF Vectors
  <2> QED BY <2>1, StepMatrices, MatVecIs
<1> QED BY <1>12, <1>13 DEF Pairs

\* The product with a matrix and then with its inverse.
LEMMA ThereAndBack ==
  ASSUME NEW m \in {m1, m2}, NEW A \in Small(m), NEW B \in Small(m),
         MatMatModM(A, B, m) = Identity, NEW s \in Vectors(m)
  PROVE  MatVecModM(A, MatVecModM(B, s, m), m) = s
BY MatMatVec, IdentityIs

\* What a step comes from is unique, and the product with the inverses.
LEMMA BeforeIs ==
  ASSUME NEW s \in Pairs
  PROVE  /\ Before(s) = <<MatVecModM(InvA1, s[1], m1), MatVecModM(InvA2, s[2], m2)>>
         /\ Before(s) \in Pairs /\ Step(Before(s)) = s
<1>1. s[1] \in Vectors(m1) /\ s[2] \in Vectors(m2)
  BY DEF Pairs
<1>2. PICK x \in Vectors(m1), y \in Vectors(m2) :
        x = MatVecModM(InvA1, s[1], m1) /\ y = MatVecModM(InvA2, s[2], m2)
  <2>1. s[1] \in [1 .. 3 -> Around(m1)] /\ s[2] \in [1 .. 3 -> Around(m2)]
    BY <1>1, IsAround DEF Vectors
  <2> QED BY <2>1, StepMatrices, MatVecIs
<1>3. MatVecModM(A1p0, x, m1) = s[1] /\ MatVecModM(A2p0, y, m2) = s[2]
  BY <1>1, <1>2, StepMatrices, InverseAssumption, ThereAndBack
<1>4. ASSUME NEW z \in Vectors(m1) PROVE Step(<<z, s[2]>>)[1] = MatVecModM(A1p0, z, m1)
  <2>1. <<z, s[2]>> \in Pairs
    BY <1>1 DEF Pairs
  <2>2. PICK p \in Pairs : p = <<z, s[2]>>
    BY <2>1
  <2>3. Step(p) = <<MatVecModM(A1p0, p[1], m1), MatVecModM(A2p0, p[2], m2)>>
    BY StepIs
  <2> QED BY <2>2, <2>3
<1>5. ASSUME NEW z \in Vectors(m2) PROVE Step(<<s[1], z>>)[2] = MatVecModM(A2p0, z, m2)
  <2>1. <<s[1], z>> \in Pairs
    BY <1>1 DEF Pairs
  <2>2. PICK p \in Pairs : p = <<s[1], z>>
    BY <2>1
  <2>3. Step(p) = <<MatVecModM(A1p0, p[1], m1), MatVecModM(A2p0, p[2], m2)>>
    BY StepIs
  <2> QED BY <2>2, <2>3
<1>6. \A z \in Vectors(m1) : MatVecModM(A1p0, z, m1) = s[1] <=> z = x
  <2>1. \A z \in Vectors(m1) : MatVecModM(InvA1, MatVecModM(A1p0, z, m1), m1) = z
    BY StepMatrices, InverseAssumption, ThereAndBack
  <2> QED BY <1>2, <1>3, <2>1
<1>7. \A z \in Vectors(m2) : MatVecModM(A2p0, z, m2) = s[2] <=> z = y
  <2>1. \A z \in Vectors(m2) : MatVecModM(InvA2, MatVecModM(A2p0, z, m2), m2) = z
    BY StepMatrices, InverseAssumption, ThereAndBack
  <2> QED BY <1>2, <1>3, <2>1
<1>8. (CHOOSE z \in Vectors(m1) : Step(<<z, s[2]>>)[1] = s[1]) = x
  BY <1>4, <1>6
<1>9. (CHOOSE z \in Vectors(m2) : Step(<<s[1], z>>)[2] = s[2]) = y
  BY <1>5, <1>7
<1>10. Before(s) = <<x, y>>
  BY <1>8, <1>9 DEF Before, Vectors
<1>11. PICK p \in Pairs : p = <<x, y>>
  BY DEF Pairs
<1>12. Step(p) = <<s[1], s[2]>>
  BY <1>3, <1>11, StepIs
<1>13. s = <<s[1], s[2]>>
  BY DEF Pairs
<1> QED BY <1>2, <1>10, <1>11, <1>12, <1>13

\* The orbit: its definition is recursive in both directions.
LEMMA OrbitIs ==
  ASSUME NEW k \in Nat, LegalSeed(Vector(k))
  PROVE  /\ Orbit(k) \in [Int -> Pairs] /\ Orbit(k)[0] = Vector(k)
         /\ \A n \in Int : Orbit(k)[n + 1] = Step(Orbit(k)[n]) /\ Orbit(k)[n - 1] = Before(Orbit(k)[n])
<1> DEFINE q == CHOOSE f : f = [n \in Int |-> IF n = 0 THEN Vector(k)
                                   ELSE IF n > 0 THEN Step(f[n - 1]) ELSE Before(f[n + 1])]
<1>1. Orbit(k) = q
  BY Zenon DEF Orbit
<1>2. Vector(k) \in Pairs
  BY DEF LegalSeed, Pairs, Vectors, Vector
<1>3. \E h \in [Nat -> Pairs] : h[0] = Vector(k) /\ \A n \in Nat : h[n + 1] = Step(h[n])
  <2>1. PICK g : g = [s \in Pairs |-> Step(s)]
    OBVIOUS
  <2>2. g \in [Pairs -> Pairs]
    BY <2>1, StepIs
  <2>3. PICK S, y : S = Pairs /\ y = Vector(k)
    OBVIOUS
  <2>4. y \in S /\ g \in [S -> S]
    BY ONLY <1>2, <2>2, <2>3, Zenon
  <2>5. PICK d \in [Nat -> S] : d[0] = y /\ \A i \in Nat : d[i + 1] = g[d[i]]
    BY ONLY <2>4, Iterates, SMTT(60)
  <2> QED BY <2>1, <2>3, <2>5
<1>4. \E b \in [Nat -> Pairs] : b[0] = Vector(k) /\ \A n \in Nat : b[n + 1] = Before(b[n])
  <2>1. PICK g : g = [s \in Pairs |-> Before(s)]
    OBVIOUS
  <2>2. g \in [Pairs -> Pairs]
    BY <2>1, BeforeIs
  <2>3. PICK S, y : S = Pairs /\ y = Vector(k)
    OBVIOUS
  <2>4. y \in S /\ g \in [S -> S]
    BY ONLY <1>2, <2>2, <2>3, Zenon
  <2>5. PICK d \in [Nat -> S] : d[0] = y /\ \A i \in Nat : d[i + 1] = g[d[i]]
    BY ONLY <2>4, Iterates, SMTT(60)
  <2> QED BY <2>1, <2>3, <2>5
<1>5. PICK h \in [Nat -> Pairs] : h[0] = Vector(k) /\ \A n \in Nat : h[n + 1] = Step(h[n])
  BY <1>3
<1>6. PICK b \in [Nat -> Pairs] : b[0] = Vector(k) /\ \A n \in Nat : b[n + 1] = Before(b[n])
  BY <1>4
<1>7. PICK f : f = [n \in Int |-> IF n >= 0 THEN h[n] ELSE b[-n]]
  OBVIOUS
<1>8. f = [n \in Int |-> IF n = 0 THEN Vector(k)
                         ELSE IF n > 0 THEN Step(f[n - 1]) ELSE Before(f[n + 1])]
  <2>1. ASSUME NEW n \in Int, n > 0 PROVE f[n] = Step(f[n - 1])
    <3>1. PICK j \in Nat : n = j + 1 /\ n - 1 = j
      <4>1. n - 1 \in Nat /\ n = (n - 1) + 1
        BY <2>1
      <4> QED BY <4>1
    <3>2. f[n] = h[j + 1] /\ f[n - 1] = h[j]
      BY <1>7, <3>1
    <3> QED BY <1>5, <3>2
  <2>2. ASSUME NEW n \in Int, n < 0 PROVE f[n] = Before(f[n + 1])
    <3>1. PICK j \in Nat : -n = j + 1 /\ -(n + 1) = j
      <4>1. -n - 1 \in Nat /\ -n = (-n - 1) + 1 /\ -(n + 1) = -n - 1
        BY <2>2
      <4> QED BY <4>1
    <3>2. f[n] = b[j + 1]
      BY <1>7, <2>2, <3>1
    <3>3. f[n + 1] = b[j]
      <4>1. CASE j = 0
        <5>1. n + 1 = 0
          BY <3>1, <4>1
        <5> QED BY <1>5, <1>6, <1>7, <4>1, <5>1
      <4>2. CASE j # 0
        <5>1. n + 1 \in Int /\ ~(n + 1 >= 0)
          BY <3>1, <4>2
        <5> QED BY <1>7, <3>1, <5>1
      <4> QED BY <4>1, <4>2
    <3> QED BY <1>6, <3>2, <3>3
  <2>3. f[0] = Vector(k)
    BY <1>5, <1>7
  <2>4. ASSUME NEW n \in Int
        PROVE  f[n] = IF n = 0 THEN Vector(k)
                      ELSE IF n > 0 THEN Step(f[n - 1]) ELSE Before(f[n + 1])
    <3>1. CASE n = 0
      BY <2>3, <3>1
    <3>2. CASE n > 0
      BY <2>1, <3>2
    <3>3. CASE n < 0
      BY <2>2, <3>3
    <3> QED BY <3>1, <3>2, <3>3
  <2>5. f = [n \in Int |-> f[n]]
    BY <1>7
  <2> QED BY <2>4, <2>5, Zenon
<1>9. q = [n \in Int |-> IF n = 0 THEN Vector(k)
                         ELSE IF n > 0 THEN Step(q[n - 1]) ELSE Before(q[n + 1])]
  BY <1>8, Zenon
<1> HIDE DEF q
<1>10. \A n \in Int : q[n] = IF n = 0 THEN Vector(k)
                            ELSE IF n > 0 THEN Step(q[n - 1]) ELSE Before(q[n + 1])
  BY <1>9, Zenon
<1>11. q[0] = Vector(k)
  BY <1>10
<1>12. \A n \in Nat : q[n] \in Pairs /\ q[-n] \in Pairs
  <2> DEFINE Good == {n \in Nat : q[n] \in Pairs /\ q[-n] \in Pairs}
  <2>1. 0 \in Good
    <3>1. PICK n \in Nat : n = 0 /\ -n = 0
      OBVIOUS
    <3>2. n \in Good
      BY <1>2, <1>11, <3>1
    <3> QED BY <3>1, <3>2
  <2>2. ASSUME NEW n \in Nat, n \in Good PROVE n + 1 \in Good
    <3>1. /\ n + 1 \in Int /\ n + 1 > 0 /\ n + 1 # 0 /\ (n + 1) - 1 = n
          /\ -(n + 1) \in Int /\ -(n + 1) # 0 /\ ~(-(n + 1) > 0) /\ -(n + 1) + 1 = -n
      OBVIOUS
    <3>2. q[n + 1] = Step(q[n]) /\ q[-(n + 1)] = Before(q[-n])
      BY <1>10, <3>1
    <3>3. Step(q[n]) \in Pairs /\ Before(q[-n]) \in Pairs
      BY <2>2, StepIs, BeforeIs
    <3> QED BY <3>2, <3>3
  <2> HIDE DEF Good
  <2>3. \A n \in Nat : n \in Good
    BY <2>1, <2>2, Induction
  <2> QED BY <2>3 DEF Good
<1>13. \A n \in Int : q[n] \in Pairs
  <2> SUFFICES ASSUME NEW n \in Int PROVE q[n] \in Pairs
    OBVIOUS
  <2>1. n \in Nat \/ (-n \in Nat /\ n = -(-n))
    OBVIOUS
  <2> QED BY <1>12, <2>1
<1>14. ASSUME NEW n \in Int PROVE q[n + 1] = Step(q[n])
  <2>1. CASE n >= 0
    <3>1. n + 1 \in Int /\ n + 1 > 0 /\ n + 1 # 0 /\ (n + 1) - 1 = n
      BY <2>1
    <3> QED BY <1>10, <3>1
  <2>2. CASE n < 0
    <3>1. q[n] = Before(q[n + 1]) /\ q[n + 1] \in Pairs
      <4>1. n # 0 /\ ~(n > 0) /\ n + 1 \in Int
        BY <2>2
      <4> QED BY <1>10, <1>13, <4>1
    <3> QED BY <3>1, BeforeIs
  <2> QED BY <2>1, <2>2
<1>15. ASSUME NEW n \in Int PROVE q[n - 1] = Before(q[n])
  <2>1. PICK a \in Pairs, c \in Pairs : a = q[n - 1] /\ c = q[n] /\ c = Step(a)
    <3>1. n - 1 \in Int /\ (n - 1) + 1 = n
      OBVIOUS
    <3> QED BY <1>13, <1>14, <3>1
  <2>2. c = <<MatVecModM(A1p0, a[1], m1), MatVecModM(A2p0, a[2], m2)>>
    BY <2>1, StepIs
  <2>3. Before(c) = <<MatVecModM(InvA1, c[1], m1), MatVecModM(InvA2, c[2], m2)>>
    BY BeforeIs
  <2>4. a[1] \in Vectors(m1) /\ a[2] \in Vectors(m2) /\ a = <<a[1], a[2]>>
    BY DEF Pairs
  <2>5. c[1] = MatVecModM(A1p0, a[1], m1) /\ c[2] = MatVecModM(A2p0, a[2], m2)
    BY <2>2
  <2>6. MatVecModM(InvA1, c[1], m1) = a[1] /\ MatVecModM(InvA2, c[2], m2) = a[2]
    BY <2>4, <2>5, StepMatrices, InverseAssumption, ThereAndBack
  <2> QED BY <2>1, <2>3, <2>4, <2>6
<1> QED
  <2>1. q = [n \in Int |-> q[n]]
    BY <1>9, Zenon
  <2>2. q \in [Int -> Pairs]
    BY <1>13, <2>1
  <2> QED BY <1>1, <1>11, <1>14, <1>15, <2>2

\* The number of steps that advance_state makes for the exponent e.
Distance(e) == IF e > 0 THEN TwoTo(e) ELSE IF e < 0 THEN -TwoTo(-e) ELSE 0

\* A power of two is positive.
LEMMA TwoToIsPositive ==
  ASSUME NEW e \in Nat
  PROVE  TwoTo(e) \in Nat \ {0}
<1>1. PICK p \in [0 .. e -> Nat \ {0}] : p[e] = TwoTo(e)
  BY TwoToIs
<1> QED BY <1>1

\* The matrix of advance_state moves by the number of steps it stands for,
\* forwards or backwards.
LEMMA AdvancedMoves ==
  ASSUME NEW m \in {m1, m2}, NEW o \in [Int -> Vectors(m)], NEW A, NEW InvA,
         Moves(A, 1, o, m), Moves(InvA, -1, o, m), NEW e \in Int, NEW c \in Int
  PROVE  /\ Moves(Advanced(A, InvA, m, e, c), Distance(e) + c, o, m)
         /\ Distance(e) \in Int
<1> DEFINE power == IF c >= 0 THEN MatPowModM(A, m, c) ELSE MatPowModM(InvA, m, -c)
           two == IF e > 0 THEN MatTwoPowModM(A, m, e) ELSE MatTwoPowModM(InvA, m, -e)
<1>1. Advanced(A, InvA, m, e, c) = IF e = 0 THEN power ELSE MatMatModM(two, power, m)
  BY Zenon DEF Advanced
<1>2. Moves(power, c, o, m)
  <2>1. CASE c >= 0
    <3>1. Moves(MatPowModM(A, m, c), c * 1, o, m) /\ c * 1 = c
      BY <2>1, PowMoves
    <3> QED BY <2>1, <3>1
  <2>2. CASE ~(c >= 0)
    <3>1. PICK j \in Nat : j = -c /\ j * (-1) = c
      BY <2>2
    <3>2. Moves(MatPowModM(InvA, m, j), j * (-1), o, m)
      BY PowMoves
    <3> QED BY <2>2, <3>1, <3>2
  <2> QED BY <2>1, <2>2
<1>3. CASE e = 0
  <2>1. Distance(e) = 0 /\ 0 + c = c
    BY <1>3 DEF Distance
  <2> HIDE DEF power, two
  <2> QED BY <1>1, <1>2, <1>3, <2>1
<1>4. CASE e # 0
  <2>1. Moves(two, Distance(e), o, m) /\ Distance(e) \in Int
    <3>1. CASE e > 0
      <4>1. e \in Nat /\ Distance(e) = TwoTo(e) /\ two = MatTwoPowModM(A, m, e)
        BY <3>1 DEF Distance
      <4>2. TwoTo(e) \in Int /\ TwoTo(e) * 1 = TwoTo(e)
        BY <4>1, TwoToIsPositive
      <4>3. Moves(MatTwoPowModM(A, m, e), TwoTo(e) * 1, o, m)
        BY <4>1, TwoPowMoves
      <4> HIDE DEF two
      <4> QED BY <4>1, <4>2, <4>3
    <3>2. CASE ~(e > 0)
      <4>1. PICK j \in Nat : j = -e
        BY <3>2
      <4>2. Distance(e) = -TwoTo(j) /\ two = MatTwoPowModM(InvA, m, j)
        BY <1>4, <3>2, <4>1 DEF Distance
      <4>3. TwoTo(j) \in Int /\ TwoTo(j) * (-1) = -TwoTo(j)
        BY TwoToIsPositive
      <4>4. Moves(MatTwoPowModM(InvA, m, j), TwoTo(j) * (-1), o, m)
        BY TwoPowMoves
      <4> HIDE DEF two
      <4> QED BY <4>2, <4>3, <4>4
    <3> QED BY <3>1, <3>2
  <2> HIDE DEF power, two
  <2>2. Moves(MatMatModM(two, power, m), Distance(e) + c, o, m)
    BY <1>2, <2>1, MovesBoth
  <2> QED BY <1>1, <1>4, <2>1, <2>2
<1> QED BY <1>3, <1>4

\* A component that is not stuck at zero never was and never will be.
LEMMA NeverZero ==
  ASSUME NEW m \in {m1, m2}, NEW o \in [Int -> Vectors(m)], NEW A, NEW InvA,
         Moves(A, 1, o, m), Moves(InvA, -1, o, m), o[0] # <<0, 0, 0>>, NEW n \in Int
  PROVE  o[n] # <<0, 0, 0>>
<1>1. SUFFICES ASSUME o[n] = <<0, 0, 0>> PROVE FALSE
  OBVIOUS
<1>2. PICK T : Moves(T, -n, o, m)
  <2>1. CASE n <= 0
    <3>1. PICK j \in Nat : j = -n /\ j * 1 = j
      BY <2>1
    <3>2. Moves(MatPowModM(A, m, j), j * 1, o, m)
      BY PowMoves
    <3> QED BY <3>1, <3>2
  <2>2. CASE n > 0
    <3>1. PICK j \in Nat : j = n /\ j * (-1) = -n
      BY <2>2
    <3>2. Moves(MatPowModM(InvA, m, j), j * (-1), o, m)
      BY PowMoves
    <3> QED BY <3>1, <3>2
  <2> QED BY <2>1, <2>2
<1>3. o[0] = MatVecModM(T, o[n], m)
  <2>1. n + (-n) = 0
    OBVIOUS
  <2> QED BY <1>2, <2>1 DEF Moves
<1>4. MatVecModM(T, <<0, 0, 0>>, m) = <<0, 0, 0>>
  <2>1. m \in Nat \ {0, 1} /\ T \in Small(m)
    BY <1>2, IsAround DEF Moves
  <2>2. PICK z \in [1 .. 3 -> Around(m)] : z = <<0, 0, 0>>
    <3>1. 0 \in Around(m)
      BY <2>1 DEF Around
    <3>2. <<0, 0, 0>> \in [1 .. 3 -> Around(m)]
      BY <3>1
    <3> QED BY <3>2
  <2>3. MatVecModM(T, z, m) = [i \in 1 .. 3 |-> Dot(T[i], z) % m]
    BY <2>1, MatVecIs
  <2>4. ASSUME NEW i \in 1 .. 3 PROVE Dot(T[i], z) % m = 0
    <3>1. T[i][1] \in Int /\ T[i][2] \in Int /\ T[i][3] \in Int
      <4>1. T[i] \in [1 .. 3 -> Around(m)]
        BY <2>1 DEF Small
      <4> QED BY <4>1, IsAround
    <3>2. Dot(T[i], z) = 0
      BY <2>2, <3>1 DEF Dot
    <3> QED BY <2>1, <3>2
  <2> QED BY <2>2, <2>3, <2>4
<1> QED BY <1>1, <1>3, <1>4

\* The components of the orbit.
First(k) == [n \in Int |-> Orbit(k)[n][1]]
Second(k) == [n \in Int |-> Orbit(k)[n][2]]

\* Each is moved by its matrices.
LEMMA Components ==
  ASSUME NEW k \in Nat, LegalSeed(Vector(k))
  PROVE  /\ First(k) \in [Int -> Vectors(m1)] /\ Second(k) \in [Int -> Vectors(m2)]
         /\ \A n \in Int : Orbit(k)[n] = <<First(k)[n], Second(k)[n]>>
         /\ Moves(A1p0, 1, First(k), m1) /\ Moves(InvA1, -1, First(k), m1)
         /\ Moves(A2p0, 1, Second(k), m2) /\ Moves(InvA2, -1, Second(k), m2)
<1>1. PICK q \in [Int -> Pairs] : q = Orbit(k)
  BY OrbitIs
<1>2. \A n \in Int : q[n + 1] = Step(q[n]) /\ q[n - 1] = Before(q[n])
  BY <1>1, OrbitIs
<1>3. PICK f, g : f = First(k) /\ g = Second(k)
  OBVIOUS
<1>4. /\ f \in [Int -> Vectors(m1)] /\ g \in [Int -> Vectors(m2)]
      /\ \A n \in Int : q[n] = <<f[n], g[n]>>
  BY <1>1, <1>3 DEF First, Second, Pairs
<1>5. ASSUME NEW n \in Int
      PROVE  /\ MatVecModM(A1p0, f[n], m1) = f[n + 1] /\ MatVecModM(A2p0, g[n], m2) = g[n + 1]
             /\ MatVecModM(InvA1, f[n], m1) = f[n + (-1)]
             /\ MatVecModM(InvA2, g[n], m2) = g[n + (-1)]
  <2>1. PICK s \in Pairs : s = q[n] /\ s[1] = f[n] /\ s[2] = g[n]
    BY <1>4
  <2>2. Step(s) = <<MatVecModM(A1p0, s[1], m1), MatVecModM(A2p0, s[2], m2)>>
    BY StepIs
  <2>3. Before(s) = <<MatVecModM(InvA1, s[1], m1), MatVecModM(InvA2, s[2], m2)>>
    BY BeforeIs
  <2>4. PICK i \in Int, j \in Int : i = n + 1 /\ j = n - 1 /\ j = n + (-1)
    OBVIOUS
  <2>5. q[i] = Step(s) /\ q[j] = Before(s)
    BY <1>2, <2>1, <2>4
  <2>6. q[i] = <<f[i], g[i]>> /\ q[j] = <<f[j], g[j]>>
    BY <1>4
  <2> QED BY <2>1, <2>2, <2>3, <2>4, <2>5, <2>6
<1>6. /\ Moves(A1p0, 1, f, m1) /\ Moves(InvA1, -1, f, m1)
      /\ Moves(A2p0, 1, g, m2) /\ Moves(InvA2, -1, g, m2)
  BY <1>5, StepMatrices DEF Moves
<1> QED BY <1>1, <1>3, <1>4, <1>6

\* Every state of the orbit is a legal seed.
LEMMA OrbitIsLegal ==
  ASSUME NEW k \in Nat, LegalSeed(Vector(k)), NEW n \in Int
  PROVE  LegalSeed(Orbit(k)[n])
<1>1. PICK f \in [Int -> Vectors(m1)], g \in [Int -> Vectors(m2)] : f = First(k) /\ g = Second(k)
  BY Components
<1>2. Orbit(k)[0] = <<f[0], g[0]>> /\ Orbit(k)[n] = <<f[n], g[n]>>
  BY <1>1, Components
<1>3. f[0] # <<0, 0, 0>> /\ g[0] # <<0, 0, 0>>
  BY <1>2, OrbitIs DEF LegalSeed
<1>4. f[n] # <<0, 0, 0>> /\ g[n] # <<0, 0, 0>>
  BY <1>1, <1>3, Components, NeverZero
<1>5. PICK p : p = Orbit(k)[n] /\ p[1] = f[n] /\ p[2] = g[n]
  BY <1>2
<1>6. f[n] \in [1 .. 3 -> 0 .. m1 - 1] /\ g[n] \in [1 .. 3 -> 0 .. m2 - 1]
  BY DEF Vectors
<1>7. LegalSeed(p)
  BY <1>4, <1>5, <1>6 DEF LegalSeed
<1> QED BY <1>5, <1>7

\* A pair of matrices that move the components by d steps.
LEMMA JumpMoves ==
  ASSUME NEW k \in Nat, LegalSeed(Vector(k)), NEW d \in Int, NEW T, NEW U,
         Moves(T, d, First(k), m1), Moves(U, d, Second(k), m2), NEW n \in Int
  PROVE  Jump(Orbit(k)[n], <<T, U>>) = Orbit(k)[n + d]
<1>1. PICK f \in [Int -> Vectors(m1)], g \in [Int -> Vectors(m2)] : f = First(k) /\ g = Second(k)
  BY Components
<1>2. PICK i \in Int : i = n + d
  OBVIOUS
<1>3. Orbit(k)[n] = <<f[n], g[n]>> /\ Orbit(k)[i] = <<f[i], g[i]>>
  BY <1>1, Components
<1>4. MatVecModM(T, f[n], m1) = f[i] /\ MatVecModM(U, g[n], m2) = g[i]
  BY <1>1, <1>2 DEF Moves
<1> QED BY <1>2, <1>3, <1>4 DEF Jump

\* The jumps to the next substream and the next stream, and of advance_state.
LEMMA JumpsAre ==
  ASSUME NEW k \in Nat, LegalSeed(Vector(k)), NEW n \in Int
  PROVE  /\ Jump(Orbit(k)[n], SubTables) = Orbit(k)[n + TwoTo(SubJump)]
         /\ Jump(Orbit(k)[n], StreamTables) = Orbit(k)[n + TwoTo(StreamJump)]
         /\ \A j \in Jumps : /\ Distance(j[1]) + j[2] \in Int
                             /\ Jump(Orbit(k)[n], Advances[j]) = Orbit(k)[n + (Distance(j[1]) + j[2])]
<1>1. /\ First(k) \in [Int -> Vectors(m1)] /\ Second(k) \in [Int -> Vectors(m2)]
      /\ Moves(A1p0, 1, First(k), m1) /\ Moves(InvA1, -1, First(k), m1)
      /\ Moves(A2p0, 1, Second(k), m2) /\ Moves(InvA2, -1, Second(k), m2)
  BY Components
<1>2. ASSUME NEW e \in Nat
      PROVE  Jump(Orbit(k)[n], <<MatTwoPowModM(A1p0, m1, e), MatTwoPowModM(A2p0, m2, e)>>)
               = Orbit(k)[n + TwoTo(e)]
  <2>1. PICK d \in Int : d = TwoTo(e) /\ d * 1 = d
    BY TwoToIsPositive
  <2>2. Moves(MatTwoPowModM(A1p0, m1, e), d, First(k), m1)
    BY <1>1, <2>1, TwoPowMoves
  <2>3. Moves(MatTwoPowModM(A2p0, m2, e), d, Second(k), m2)
    BY <1>1, <2>1, TwoPowMoves
  <2> QED BY <2>1, <2>2, <2>3, JumpMoves
<1>3. /\ Jump(Orbit(k)[n], SubTables) = Orbit(k)[n + TwoTo(SubJump)]
      /\ Jump(Orbit(k)[n], StreamTables) = Orbit(k)[n + TwoTo(StreamJump)]
  BY <1>2, RandomAssumption, TableAssumption DEF SubTables, StreamTables
<1>4. ASSUME NEW j \in Jumps
      PROVE  /\ Distance(j[1]) + j[2] \in Int
             /\ Jump(Orbit(k)[n], Advances[j]) = Orbit(k)[n + (Distance(j[1]) + j[2])]
  <2>1. PICK e \in Int, c \in Int : e = j[1] /\ c = j[2]
    BY RandomAssumption
  <2>2. PICK T, U : T = Advanced(A1p0, InvA1, m1, e, c) /\ U = Advanced(A2p0, InvA2, m2, e, c)
    OBVIOUS
  <2>3. Moves(T, Distance(e) + c, First(k), m1) /\ Distance(e) \in Int
    BY <1>1, <2>2, AdvancedMoves
  <2>4. Moves(U, Distance(e) + c, Second(k), m2)
    BY <1>1, <2>2, AdvancedMoves
  <2>5. PICK d \in Int : d = Distance(e) + c
    BY <2>3
  <2>6. Jump(Orbit(k)[n], <<T, U>>) = Orbit(k)[n + d]
    <3>1. Moves(T, d, First(k), m1) /\ Moves(U, d, Second(k), m2)
      BY <2>3, <2>4, <2>5
    <3> QED BY <3>1, JumpMoves, SMTT(30)
  <2>7. Advances[j] = <<T, U>>
    BY <2>1, <2>2 DEF Advances
  <2> QED BY <2>1, <2>5, <2>6, <2>7
<1> QED BY <1>3, <1>4

-----------------------------------------------------------------------------
(* The numbers *)

\* The powers that TwoTo counts.
LEMMA TwoToNext ==
  ASSUME NEW e \in Nat
  PROVE  TwoTo(0) = 1 /\ TwoTo(e + 1) = 2 * TwoTo(e)
<1>1. PICK p \in [0 .. e -> Nat \ {0}] :
        p[0] = 1 /\ p[e] = TwoTo(e) /\ \A i \in 1 .. e : p[i] = 2 * p[i - 1]
  BY TwoToIs
<1>2. PICK r \in [0 .. e + 1 -> Nat \ {0}] :
        r[0] = 1 /\ r[e + 1] = TwoTo(e + 1) /\ \A i \in 1 .. e + 1 : r[i] = 2 * r[i - 1]
  <2>1. PICK k \in Nat : k = e + 1
    OBVIOUS
  <2>2. \E r \in [0 .. k -> Nat \ {0}] :
          r[0] = 1 /\ r[k] = TwoTo(k) /\ \A i \in 1 .. k : r[i] = 2 * r[i - 1]
    BY TwoToIs
  <2> QED BY <2>1, <2>2, Zenon
<1>3. \A i \in Nat : i <= e => p[i] = r[i]
  <2> DEFINE Same == {i \in Nat : i <= e => p[i] = r[i]}
  <2>1. 0 \in Same
    BY <1>1, <1>2
  <2>2. ASSUME NEW i \in Nat, i \in Same PROVE i + 1 \in Same
    <3>1. SUFFICES ASSUME i + 1 <= e PROVE p[i + 1] = r[i + 1]
      OBVIOUS
    <3>2. i + 1 \in 1 .. e /\ i + 1 \in 1 .. e + 1 /\ (i + 1) - 1 = i /\ p[i] = r[i]
      BY <2>2, <3>1
    <3> HIDE DEF Same
    <3>3. p[i + 1] = 2 * p[(i + 1) - 1] /\ r[i + 1] = 2 * r[(i + 1) - 1]
      BY <1>1, <1>2, <3>2
    <3> QED BY <3>2, <3>3
  <2> HIDE DEF Same
  <2>3. \A i \in Nat : i \in Same
    BY <2>1, <2>2, Induction
  <2> QED BY <2>3 DEF Same
<1>4. r[e + 1] = 2 * r[(e + 1) - 1] /\ (e + 1) - 1 = e
  <2>1. e + 1 \in 1 .. e + 1
    OBVIOUS
  <2> QED BY <1>2, <2>1
<1>5. TwoTo(0) = 1
  <2>1. PICK q \in [0 .. 0 -> Nat \ {0}] : q[0] = 1 /\ q[0] = TwoTo(0)
    BY TwoToIs
  <2> QED BY <2>1
<1> QED BY <1>1, <1>2, <1>3, <1>4, <1>5

\* A power of two divides the larger ones.
LEMMA TwoToDivides ==
  ASSUME NEW e \in Nat, NEW i \in 0 .. e
  PROVE  \E q \in Nat \ {0} : TwoTo(e) = q * TwoTo(i)
<1> DEFINE Divided == {d \in Nat : \E q \in Nat \ {0} : TwoTo(i + d) = q * TwoTo(i)}
<1>0. i \in Nat /\ \A d \in Nat : TwoTo(i + d) \in Nat \ {0}
  BY TwoToIsPositive
<1>1. 0 \in Divided
  <2>1. i + 0 = i /\ TwoTo(i) \in Nat
    BY <1>0, TwoToIsPositive
  <2>2. TwoTo(i + 0) = 1 * TwoTo(i)
    BY <2>1
  <2> QED BY <2>2
<1>2. ASSUME NEW d \in Nat, d \in Divided PROVE d + 1 \in Divided
  <2>1. PICK q \in Nat \ {0} : TwoTo(i + d) = q * TwoTo(i)
    BY <1>2
  <2>2. PICK b \in Nat : b = TwoTo(i)
    BY <1>0, TwoToIsPositive
  <2>3. i + d \in Nat /\ i + (d + 1) = (i + d) + 1
    BY <1>0
  <2>4. TwoTo(i + (d + 1)) = 2 * (q * b)
    BY <2>1, <2>2, <2>3, TwoToNext
  <2>5. 2 * (q * b) = (2 * q) * b /\ 2 * q \in Nat \ {0} /\ d + 1 \in Nat
    BY <2>2
  <2> QED BY <2>2, <2>4, <2>5
<1>3. \A d \in Nat : d \in Divided
  <2> HIDE DEF Divided
  <2> QED BY <1>1, <1>2, Induction
<1>4. PICK d \in Nat : d = e - i /\ i + d = e
  OBVIOUS
<1>5. d \in Divided
  BY <1>3
<1> QED BY <1>4, <1>5

\* The sizes of what numbers are made of.
LEMMA OneIs ==
  /\ m1 \in Nat /\ m1 >= 3 /\ Denominator \in Nat /\ Denominator >= 2
  /\ two53 \in Nat /\ 4 * (m1 + 1) <= two53
  /\ TwoTo(Bits) \in Nat \ {0} /\ One = (m1 + 1) * TwoTo(Bits) /\ One \in Nat
  /\ two53 * (m1 + 1) <= TwoTo(Bits) /\ 4 * TwoTo(Bits) <= One
<1>1. PICK n, D, P, E :
        /\ n = m1 /\ D = Denominator /\ P = two53 /\ E = TwoTo(Bits)
        /\ n \in Nat /\ n >= 3 /\ D \in Nat /\ D >= 2 /\ P \in Nat /\ 4 * (n + 1) <= P
        /\ E \in Nat \ {0} /\ (n + 1) * P * D <= E
  BY RandomAssumption, PrecisionAssumption, RoundingAssumption, TwoToIsPositive
<1>2. P * (n + 1) <= E
  <2>1. PICK k \in Nat : k = (n + 1) * P
    BY <1>1
  <2>2. k <= k * D
    <3>1. k * (D - 1) >= 0
      BY <1>1
    <3> QED BY <1>1, <3>1
  <2>3. k * D <= E
    BY <1>1, <2>1
  <2> QED BY <1>1, <2>1, <2>2, <2>3
<1>3. 4 * E <= (n + 1) * E /\ (n + 1) * E \in Nat
  <2>1. (n + 1 - 4) * E >= 0
    BY <1>1
  <2> QED BY <1>1, <2>1
<1> QED BY <1>1, <1>2, <1>3 DEF One

\* The distance of doubles divides One, and is small beside the number.
LEMMA SpacingIs ==
  ASSUME NEW v \in Int, -2 * One <= v, v <= 2 * One
  PROVE  \E s \in Nat \ {0} :
            /\ s = Spacing(v) /\ \E q \in Nat : One = q * s
            /\ s = m1 + 1 \/ (v >= 0 /\ two53 * s <= 2 * v) \/ (v < 0 /\ two53 * s <= 2 * (-v))
<1>1. PICK n, P, E :
        /\ n = m1 /\ P = two53 /\ E = TwoTo(Bits) /\ n \in Nat /\ P \in Nat /\ P >= 16
        /\ E \in Nat \ {0} /\ One = (n + 1) * E /\ One \in Nat \ {0} /\ Bits \in Nat
  BY OneIs, RoundingAssumption
<1>2. PICK size \in Nat : /\ size = (IF v < 0 THEN -v ELSE v) /\ size <= 2 * One
  BY <1>1
<1> DEFINE S == {i \in 0 .. Bits : size \div ((n + 1) * TwoTo(i)) < P}
<1>3. \A i \in Nat : TwoTo(i) \in Nat \ {0} /\ (n + 1) * TwoTo(i) \in Nat \ {0}
  <2> SUFFICES ASSUME NEW i \in Nat PROVE TwoTo(i) \in Nat \ {0} /\ (n + 1) * TwoTo(i) \in Nat \ {0}
    OBVIOUS
  <2>1. PICK t \in Nat \ {0} : t = TwoTo(i)
    BY TwoToIsPositive
  <2>2. (n + 1) * t \in Nat \ {0}
    BY <1>1
  <2> QED BY <2>1, <2>2
<1>4. Bits \in S
  <2>1. PICK N \in Nat \ {0} : N = One
    BY <1>1
  <2>2. PICK d \in Int, r \in 0 .. N - 1 : size = d * N + r /\ d = size \div N
    <3>1. size \in Int
      OBVIOUS
    <3> QED BY <3>1, Division
  <2>3. d < 3
    <3>1. d >= 3 => d * N >= 3 * N
      <4>1. d >= 3 => (d - 3) * N >= 0
        OBVIOUS
      <4> QED BY <4>1
    <3> QED BY <1>2, <2>1, <2>2, <3>1
  <2> QED BY <1>1, <2>1, <2>2, <2>3
<1>5. PICK i \in S : i = Min(S) /\ \A j \in S : i <= j
  <2>1. S \in SUBSET Nat /\ S # {}
    BY <1>1, <1>4
  <2> HIDE DEF S
  <2>2. \E x \in S : \A y \in S : x <= y
    BY <2>1, Least
  <2> QED BY <2>2 DEF Min
<1>6. PICK s \in Nat \ {0} : s = (n + 1) * TwoTo(i) /\ s = Spacing(v)
  <2>1. Spacing(v) = (n + 1) * TwoTo(Min(S))
    BY <1>1, <1>2 DEF Spacing
  <2> HIDE DEF S
  <2>2. i \in Nat
    BY <1>5 DEF S
  <2> QED BY <1>3, <1>5, <2>1, <2>2
<1>7. \E q \in Nat : One = q * s
  <2>1. i \in 0 .. Bits
    OBVIOUS
  <2>2. PICK q \in Nat \ {0} : E = q * TwoTo(i)
    BY <1>1, <2>1, TwoToDivides
  <2>3. PICK t \in Nat : t = TwoTo(i)
    BY <1>3, <2>1
  <2>4. (n + 1) * (q * t) = q * ((n + 1) * t)
    BY <1>1
  <2> QED BY <1>1, <1>6, <2>2, <2>3, <2>4
<1>8. CASE i = 0
  <2>1. s = n + 1
    BY <1>1, <1>6, <1>8, TwoToNext
  <2> QED BY <1>1, <1>6, <1>7, <2>1
<1>9. CASE i # 0
  <2>1. PICK j \in Nat : j = i - 1 /\ j + 1 = i /\ j \in 0 .. Bits /\ ~(i <= j)
    <3>1. i \in 0 .. Bits
      OBVIOUS
    <3> HIDE DEF S
    <3>2. i \in Nat /\ i - 1 \in Nat /\ (i - 1) + 1 = i /\ i - 1 \in 0 .. Bits /\ ~(i <= i - 1)
      BY <1>1, <1>9, <3>1
    <3> QED BY <3>2
  <2>2. PICK k \in Nat \ {0} : k = (n + 1) * TwoTo(j)
    BY <1>3
  <2>3. s = 2 * k
    <3>1. TwoTo(i) = 2 * TwoTo(j)
      BY <2>1, TwoToNext
    <3>2. PICK t \in Nat : t = TwoTo(j)
      BY <1>3
    <3>3. (n + 1) * (2 * t) = 2 * ((n + 1) * t)
      BY <1>1
    <3> QED BY <1>6, <2>2, <3>1, <3>2, <3>3
  <2>4. ~(size \div k < P)
    <3>1. j \notin S
      <4> HIDE DEF S
      <4> QED BY <1>5, <2>1
    <3> QED BY <2>1, <2>2, <3>1
  <2>5. PICK d \in Int, r \in 0 .. k - 1 : size = d * k + r /\ d = size \div k
    <3>1. size \in Int
      OBVIOUS
    <3> QED BY <3>1, Division
  <2>6. P * k <= size
    <3>1. (d - P) * k >= 0
      BY <1>1, <2>4, <2>5
    <3> QED BY <1>1, <2>5, <3>1
  <2>7. P * s <= 2 * size
    <3>1. P * (2 * k) = 2 * (P * k)
      BY <1>1
    <3> QED BY <1>1, <2>3, <2>6, <3>1
  <2> QED BY <1>1, <1>2, <1>6, <1>7, <2>7
<1> QED BY <1>8, <1>9

\* What a number is rounded to: the error is at most half the distance, and a
\* multiple of the distance is not passed.
LEMMA NearestIs ==
  ASSUME NEW v \in Int, -2 * One <= v, v <= 2 * One
  PROVE  \E w \in Int, s \in Nat \ {0} :
            /\ w = Nearest(v) /\ 2 * (w - v) <= s /\ 2 * (v - w) <= s
            /\ s = m1 + 1 \/ (v >= 0 /\ two53 * s <= 2 * v) \/ (v < 0 /\ two53 * s <= 2 * (-v))
            /\ v >= 0 => w >= 0
            /\ v <= One => w <= One
<1>1. PICK s \in Nat \ {0}, q1 \in Nat :
        /\ s = Spacing(v) /\ One = q1 * s
        /\ s = m1 + 1 \/ (v >= 0 /\ two53 * s <= 2 * v) \/ (v < 0 /\ two53 * s <= 2 * (-v))
  BY SpacingIs
<1>2. PICK q \in Int, r \in 0 .. s - 1 : v = q * s + r /\ q = v \div s /\ r = v % s
  BY DivMod
<1>3. PICK w \in Int : w = Nearest(v)
                       /\ w = IF 2 * r > s \/ (2 * r = s /\ q % 2 = 1) THEN (q + 1) * s ELSE q * s
  <2>1. (q + 1) * s \in Int /\ q * s \in Int
    OBVIOUS
  <2>2. Nearest(v) = IF 2 * r > s \/ (2 * r = s /\ q % 2 = 1) THEN (q + 1) * s ELSE q * s
    BY <1>1, <1>2 DEF Nearest
  <2> QED BY <2>1, <2>2
<1>4. PICK a \in Int : a = q * s /\ (q + 1) * s = a + s /\ v = a + r
  BY <1>2
<1>0. One \in Int
  BY OneIs
<1>5. /\ w = a \/ w = a + s
      /\ 2 * (w - v) <= s /\ 2 * (v - w) <= s /\ (r = 0 => w = a)
  BY <1>3, <1>4
<1>6. v >= 0 => w >= 0
  <2>1. v >= 0 => a >= 0
    <3>1. q < 0 => (q + 1) * s <= 0
      OBVIOUS
    <3>2. q >= 0 => q * s >= 0
      OBVIOUS
    <3> QED BY <1>2, <1>4, <3>1, <3>2
  <2> QED BY <1>5, <2>1
<1>7. v <= One => w <= One
  <2>0. PICK b \in Int : b = One /\ b = q1 * s
    BY <1>0, <1>1
  <2>1. CASE q >= q1
    <3>1. a >= b
      <4>1. (q - q1) * s >= 0
        BY <2>1
      <4>2. (q - q1) * s = a - b
        BY <1>4, <2>0
      <4> QED BY <2>0, <4>1, <4>2
    <3> QED BY <1>4, <1>5, <2>0, <3>1
  <2>2. CASE q < q1
    <3>1. a + s <= b
      <4>1. (q1 - (q + 1)) * s >= 0
        BY <2>2
      <4>2. (q1 - (q + 1)) * s = b - (a + s)
        BY <1>4, <2>0
      <4> QED BY <2>0, <4>1, <4>2
    <3> QED BY <1>5, <2>0, <3>1
  <2> QED BY <2>1, <2>2
<1> QED BY <1>1, <1>3, <1>5, <1>6, <1>7

\* The error of numbers up to 1, and up to 2, in quarters and halves of
\* TwoTo(Bits); that of norm is much smaller.
LEMMA ErrorIs ==
  ASSUME NEW v \in Int, -2 * One <= v, v <= 2 * One
  PROVE  \E w \in Int :
            /\ w = Nearest(v) /\ (v >= 0 => w >= 0) /\ (v <= One => w <= One)
            /\ 2 * (w - v) <= TwoTo(Bits) /\ 2 * (v - w) <= TwoTo(Bits)
            /\ -One <= v /\ v <= One => 4 * (w - v) <= TwoTo(Bits) /\ 4 * (v - w) <= TwoTo(Bits)
            /\ v = TwoTo(Bits) => /\ two53 * (w - v) <= TwoTo(Bits)
                                  /\ two53 * (v - w) <= TwoTo(Bits)
<1>1. PICK n, P, E :
        /\ n = m1 /\ P = two53 /\ E = TwoTo(Bits) /\ n \in Nat /\ P \in Nat
        /\ 4 * (n + 1) <= P /\ E \in Nat \ {0} /\ One = (n + 1) * E /\ P * (n + 1) <= E
  BY OneIs
<1>2. PICK w \in Int, s \in Nat \ {0} :
            /\ w = Nearest(v) /\ 2 * (w - v) <= s /\ 2 * (v - w) <= s
            /\ s = n + 1 \/ (v >= 0 /\ P * s <= 2 * v) \/ (v < 0 /\ P * s <= 2 * (-v))
            /\ (v >= 0 => w >= 0) /\ (v <= One => w <= One)
  BY <1>1, NearestIs
<1>3. ASSUME NEW c \in Nat, -(c * One) <= v, v <= c * One, c >= 1 PROVE 2 * s <= c * E
  <2>1. CASE s = n + 1
    <3>1. 4 * (n + 1) <= P * (n + 1)
      <4>1. (P - 4) * (n + 1) >= 0
        BY <1>1
      <4> QED BY <1>1, <4>1
    <3>2. E <= c * E
      <4>1. (c - 1) * E >= 0
        BY <1>1, <1>3
      <4> QED BY <1>1, <4>1
    <3> QED BY <1>1, <2>1, <3>1, <3>2
  <2>2. CASE s # n + 1
    <3>1. P * s <= 2 * (c * ((n + 1) * E))
      <4>1. PICK x \in Int : x = c * One /\ x = c * ((n + 1) * E) /\ v <= x /\ -x <= v
        BY <1>1, <1>3
      <4> QED BY <1>1, <1>2, <2>2, <4>1
    <3>2. 4 * ((n + 1) * s) <= P * s
      <4>1. (P - 4 * (n + 1)) * s >= 0
        BY <1>1
      <4>2. (P - 4 * (n + 1)) * s = P * s - 4 * ((n + 1) * s)
        BY <1>1
      <4> QED BY <1>1, <4>1, <4>2
    <3>3. 2 * (c * ((n + 1) * E)) = 2 * ((n + 1) * (c * E))
      BY <1>1
    <3>4. PICK x \in Int, y \in Int, u \in Int :
            x = (n + 1) * s /\ y = (n + 1) * (c * E) /\ u = P * s
      BY <1>1
    <3>5. 2 * x <= y
      <4>1. 4 * x <= u
        BY <3>2, <3>4
      <4>2. u <= 2 * y
        <5>1. PICK b : b = c * ((n + 1) * E)
          OBVIOUS
        <5>2. 2 * b = 2 * y
          BY ONLY <3>3, <3>4, <5>1, Zenon
        <5>3. u <= 2 * b
          BY ONLY <3>1, <3>4, <5>1, Zenon
        <5> QED BY ONLY <5>2, <5>3, Zenon
      <4>3. x \in Int /\ y \in Int /\ u \in Int
        BY <3>4
      <4> QED BY ONLY <4>1, <4>2, <4>3
    <3>6. PICK z \in Int, t \in Int : z = c * E /\ t = z - 2 * s
      <4>1. PICK z \in Int : z = c * E
        BY <1>1
      <4>2. z - 2 * s \in Int
        OBVIOUS
      <4> QED BY <4>1, <4>2
    <3>7. (n + 1) * t = y - 2 * x
      <4>1. (n + 1) * (z - 2 * s) = (n + 1) * z - 2 * ((n + 1) * s)
        BY <1>1
      <4> QED BY <3>4, <3>6, <4>1
    <3>8. t < 0 => (n + 1) * t < 0
      BY <1>1
    <3> QED BY <3>4, <3>5, <3>6, <3>7, <3>8
  <2> QED BY <2>1, <2>2
<1>4. 2 * s <= 2 * E
  <2>1. -(2 * One) <= v /\ v <= 2 * One
    OBVIOUS
  <2> QED BY <1>3, <2>1
<1>5. -One <= v /\ v <= One => 2 * s <= E
  <2> HAVE -One <= v /\ v <= One
  <2>1. 1 * One = One /\ 1 * E = E
    BY <1>1
  <2>2. -(1 * One) <= v /\ v <= 1 * One /\ 1 \in Nat /\ 1 >= 1
    BY <2>1
  <2>3. 2 * s <= 1 * E
    BY ONLY <1>3, <2>2
  <2> QED BY <2>1, <2>3
<1>6. v = E => P * (w - v) <= E /\ P * (v - w) <= E
  <2> HAVE v = E
  <2>1. P * s <= 2 * E
    <3>1. E >= 0 /\ P * (n + 1) <= 2 * E
      BY <1>1
    <3> QED BY <1>1, <1>2, <3>1
  <2>2. ASSUME NEW d \in Int, 2 * d <= s PROVE P * d <= E
    <3>1. P * (s - 2 * d) >= 0
      BY <1>1, <2>2
    <3>2. P * (s - 2 * d) = P * s - 2 * (P * d)
      BY <1>1
    <3>3. P * s \in Int /\ P * d \in Int
      BY <1>1
    <3> QED BY <1>1, <2>1, <3>1, <3>2, <3>3
  <2> QED BY <1>2, <2>2
<1> QED BY <1>1, <1>2, <1>4, <1>5, <1>6

\* Whatever its state, U01 returns a number well between 0 and 1.
LEMMA U01Is ==
  ASSUME NEW s \in Pairs, NEW anti \in BOOLEAN
  PROVE  \E u \in Int : /\ u = U01(s, anti)
                        /\ TwoTo(Bits) <= 4 * u /\ TwoTo(Bits) <= 4 * (One - u)
<1>1. PICK x \in 0 .. m1 - 1, y \in 0 .. m2 - 1 : x = s[1][3] /\ y = s[2][3]
  <2>1. s[1] \in Vectors(m1) /\ s[2] \in Vectors(m2)
    BY DEF Pairs
  <2> QED BY <2>1 DEF Vectors
<1>2. PICK n, P, E, N :
        /\ n = m1 /\ P = two53 /\ E = TwoTo(Bits) /\ N = One
        /\ n \in Nat /\ n >= 3 /\ P \in Nat /\ 4 * (n + 1) <= P /\ E \in Nat \ {0}
        /\ N = (n + 1) * E /\ N \in Nat /\ 4 * E <= N /\ m2 \in Nat /\ m2 < n
  BY OneIs, RandomAssumption
<1>3. PICK c \in 1 .. n : c = Combined(x, y)
  BY <1>1, <1>2 DEF Combined
<1>4. PICK h \in Int : h = norm /\ P * (h - E) <= E /\ P * (E - h) <= E
  <2>1. -2 * One <= E /\ E <= 2 * One /\ E \in Int
    BY <1>2
  <2>2. PICK w \in Int : /\ w = Nearest(E)
                         /\ E = TwoTo(Bits) => /\ two53 * (w - E) <= TwoTo(Bits)
                                               /\ two53 * (E - w) <= TwoTo(Bits)
    BY <2>1, ErrorIs
  <2> QED BY <1>2, <2>2 DEF norm
<1>5. ASSUME NEW d \in Int, P * d <= E, d >= 0 PROVE 4 * (n * d) <= E /\ 4 * d <= E
  <2>1. (P - 4 * (n + 1)) * d >= 0
    BY <1>2, <1>5
  <2>2. (P - 4 * (n + 1)) * d = P * d - 4 * (n * d) - 4 * d
    BY <1>2
  <2>3. n * d >= 0 /\ n * d \in Int /\ P * d \in Int
    BY <1>2, <1>5
  <2> QED BY <1>2, <1>5, <2>1, <2>2, <2>3
<1>6. /\ 4 * (n * (h - E)) <= E /\ 4 * (E - h) <= E
  <2>1. CASE h >= E
    <3>1. PICK d \in Int : d = h - E /\ d >= 0 /\ P * d <= E
      BY <1>2, <1>4, <2>1
    <3>2. 4 * (n * d) <= E
      BY <1>5, <3>1
    <3>3. 4 * (E - h) <= E
      BY <1>2, <2>1
    <3> QED BY <3>1, <3>2, <3>3
  <2>2. CASE h < E
    <3>1. 4 * (n * (h - E)) <= E
      <4>1. PICK d \in Int : d = n * (h - E) /\ d <= 0
        BY <1>2, <2>2
      <4> QED BY <1>2, <4>1
    <3>2. 4 * (E - h) <= E
      <4>1. E - h \in Int /\ E - h >= 0 /\ P * (E - h) <= E
        BY <1>2, <1>4, <2>2
      <4> QED BY <1>5, <4>1
    <3> QED BY <3>1, <3>2
  <2> QED BY <1>2, <2>1, <2>2
<1>7. PICK v \in Int : v = c * h /\ 3 * E <= 4 * v /\ 4 * v <= 4 * (N - E) + E
  <2>1. h <= c * h /\ c * h <= n * h /\ c * h \in Int /\ n * h \in Int
    <3>1. h >= 0
      BY <1>2, <1>6
    <3>2. (c - 1) * h >= 0 /\ (n - c) * h >= 0
      BY <1>2, <3>1
    <3> QED BY <1>2, <3>2
  <2>2. n * (h - E) = n * h - n * E /\ N = n * E + E /\ n * E \in Int
    BY <1>2
  <2> QED BY <1>2, <1>6, <2>1, <2>2
<1>8. PICK u \in Int : u = Nearest(v) /\ E <= 2 * u /\ E <= 2 * (N - u)
  <2>1. 0 <= v /\ v <= One /\ -2 * One <= v /\ v <= 2 * One /\ -One <= v
    BY <1>2, <1>7
  <2>2. PICK w \in Int : w = Nearest(v) /\ 4 * (w - v) <= E /\ 4 * (v - w) <= E
    BY <1>2, <2>1, ErrorIs
  <2> QED BY <1>2, <1>7, <2>2
<1>9. U01(s, anti) = IF anti THEN Nearest(N - u) ELSE u
  BY <1>1, <1>2, <1>3, <1>4, <1>7, <1>8 DEF U01
<1>10. CASE ~anti
  BY <1>2, <1>8, <1>9, <1>10
<1>11. CASE anti
  <2>1. N - u \in Int /\ -2 * One <= N - u /\ N - u <= 2 * One /\ -One <= N - u /\ N - u <= One
    BY <1>2, <1>8
  <2>2. PICK w \in Int : /\ w = Nearest(N - u) /\ 4 * (w - (N - u)) <= E
                         /\ 4 * ((N - u) - w) <= E
    BY <1>2, <2>1, ErrorIs
  <2> QED BY <1>2, <1>8, <1>9, <1>11, <2>2
<1> QED BY <1>10, <1>11

\* The number of either precision.
LEMMA NumberIs ==
  ASSUME NEW s \in Pairs, NEW t \in Pairs, NEW anti \in BOOLEAN
  PROVE  /\ U01(s, anti) \in 1 .. One - 1
         /\ U01d(s, t, anti) \in 0 .. One
         /\ ~anti => U01d(s, t, anti) # One
<1>1. PICK E \in Nat \ {0}, N \in Nat, D \in Nat :
        E = TwoTo(Bits) /\ N = One /\ D = Denominator /\ D >= 2 /\ 4 * E <= N
  BY OneIs
<1>2. PICK a \in Int, b \in Int :
        /\ a = U01(s, anti) /\ E <= 4 * a /\ E <= 4 * (N - a)
        /\ b = U01(t, anti) /\ E <= 4 * b /\ E <= 4 * (N - b)
  BY <1>1, U01Is
<1>3. a \in 1 .. N - 1
  BY <1>1, <1>2
<1>4. ASSUME NEW x \in 0 .. N PROVE \E d \in Int : d = x \div D /\ 0 <= d /\ 2 * d <= N
  <2>1. PICK d \in Int, r \in 0 .. D - 1 : x = d * D + r /\ d = x \div D
    <3>1. x \in Int /\ D \in Nat \ {0}
      BY <1>1
    <3> QED BY <3>1, Division
  <2>2. d >= 0
    <3>1. d < 0 => (d + 1) * D <= 0
      BY <1>1
    <3>2. (d + 1) * D = d * D + D
      BY <1>1
    <3> QED BY <1>1, <2>1, <3>1, <3>2
  <2>3. 2 * d <= d * D
    <3>1. d * (D - 2) >= 0
      BY <1>1, <2>2
    <3> QED BY <1>1, <3>1
  <2> QED BY <1>1, <2>1, <2>2, <2>3
<1>5. CASE anti
  <2>1. PICK x \in 0 .. N : x = Nearest(N - b)
    <3>1. N - b \in Int /\ 0 <= N - b /\ N - b <= One /\ -2 * One <= N - b /\ N - b <= 2 * One
      BY <1>1, <1>2
    <3>2. PICK w \in Int : /\ w = Nearest(N - b) /\ (N - b >= 0 => w >= 0)
                           /\ (N - b <= One => w <= One)
      BY <3>1, ErrorIs
    <3> QED BY <1>1, <3>1, <3>2
  <2>2. PICK d \in Int : d = x \div D /\ 0 <= d /\ 2 * d <= N
    BY <1>4
  <2>3. PICK v \in Int : v = a - d /\ v = a + (-d)
    BY <1>2
  <2>4. v <= One /\ -One <= v /\ -2 * One <= v /\ v <= 2 * One /\ -N <= 2 * v
    BY <1>1, <1>3, <2>2, <2>3
  <2>5. PICK w \in Int : w = Nearest(v) /\ w <= N /\ 4 * (v - w) <= E
    BY <1>1, <2>4, ErrorIs
  <2>6. U01d(s, t, anti) = IF w < 0 THEN Nearest(w + N) ELSE w
    BY <1>1, <1>2, <1>5, <2>1, <2>2, <2>3, <2>5 DEF U01d
  <2>7. CASE w < 0
    <3>1. w + N \in Int /\ 0 <= w + N /\ w + N <= One /\ -2 * One <= w + N /\ w + N <= 2 * One
      BY <1>1, <2>4, <2>5, <2>7
    <3>2. PICK z \in Int : z = Nearest(w + N) /\ (w + N >= 0 => z >= 0) /\ (w + N <= One => z <= One)
      BY <3>1, ErrorIs
    <3>3. U01d(s, t, anti) = z
      BY <2>6, <2>7, <3>2
    <3>4. z \in 0 .. One
      BY <1>1, <3>1, <3>2
    <3> QED BY <1>1, <1>2, <1>3, <1>5, <3>3, <3>4
  <2>8. CASE ~(w < 0)
    <3>1. U01d(s, t, anti) = w
      BY <2>6, <2>8
    <3>2. w \in 0 .. One
      BY <1>1, <2>5, <2>8
    <3> QED BY <1>1, <1>2, <1>3, <1>5, <3>1, <3>2
  <2> QED BY <2>7, <2>8
<1>6. CASE ~anti
  <2>1. b \in 0 .. N
    BY <1>1, <1>2
  <2>2. PICK d \in Int : d = b \div D /\ 0 <= d /\ 2 * d <= N
    BY <1>4, <2>1
  <2>3. PICK v \in Int : v = a + d
    BY <1>2
  <2>4. 0 <= v /\ -2 * One <= v /\ v <= 2 * One /\ 2 * v <= 3 * N
    BY <1>1, <1>3, <2>2, <2>3
  <2>5. PICK w \in Int : w = Nearest(v) /\ w >= 0 /\ 2 * (w - v) <= E
    BY <1>1, <2>4, ErrorIs
  <2>6. U01d(s, t, anti) = IF w < N THEN w ELSE Nearest(w - N)
    BY <1>1, <1>2, <1>6, <2>2, <2>3, <2>5 DEF U01d
  <2>7. CASE w >= N
    <3>1. PICK y \in Int : y = w - N /\ 0 <= y /\ 8 * y <= 5 * N
      BY <1>1, <2>4, <2>5, <2>7
    <3>2. y <= One /\ -One <= y /\ -2 * One <= y /\ y <= 2 * One
      BY <1>1, <3>1
    <3>3. PICK z \in Int : z = Nearest(y) /\ (y >= 0 => z >= 0) /\ 4 * (z - y) <= E
      BY <1>1, <3>2, ErrorIs
    <3>4. z \in 0 .. N - 1
      <4>1. z >= 0 /\ 4 * (z - y) <= E
        BY <3>1, <3>3
      <4> QED BY <1>1, <3>1, <4>1
    <3>5. U01d(s, t, anti) = z
      BY <1>1, <2>6, <2>7, <3>1, <3>3
    <3> QED BY <1>1, <1>2, <1>3, <3>4, <3>5
  <2> QED BY <1>1, <1>2, <1>3, <2>5, <2>6, <2>7
<1> QED BY <1>5, <1>6

\* rand_int of a number below 1 is within its bounds, and of 1 just above them.
LEMMA RandIntIs ==
  ASSUME NEW u \in 0 .. One
  PROVE  /\ RandInt(0, MaxInt, u) \in 0 .. MaxInt + 1
         /\ u # One => RandInt(0, MaxInt, u) \in 0 .. MaxInt
<1>1. PICK N \in Nat \ {0}, M \in Nat : N = One /\ M = MaxInt
  <2>1. 4 * TwoTo(Bits) <= One /\ TwoTo(Bits) \in Nat \ {0} /\ One \in Nat
    BY OneIs
  <2> QED BY <2>1, RandomAssumption
<1>2. PICK w \in Int : w = (M + 1) * u
  BY <1>1
<1>3. w \div N \in Int /\ w % N \in 0 .. N - 1 /\ w = (w \div N) * N + (w % N)
  BY DivMod
<1>4. PICK i \in Int, r \in 0 .. N - 1 : i = w \div N /\ w = i * N + r
  BY <1>3
<1>5. 0 <= w /\ w <= (M + 1) * N /\ (u # N => w < (M + 1) * N)
  <2>1. (M + 1) * (N - u) >= 0 /\ (u # N => (M + 1) * (N - u) > 0)
    BY <1>1
  <2> QED BY <1>1, <1>2, <2>1
<1>6. i >= 0
  <2>1. i < 0 => i * N <= -N
    OBVIOUS
  <2> QED BY <1>4, <1>5, <2>1
<1>7. i <= M + 1 /\ (u # N => i <= M)
  <2>1. i > M => i * N >= (M + 1) * N
    <3>1. i > M => (i - (M + 1)) * N >= 0
      OBVIOUS
    <3> QED BY <3>1
  <2>2. i > M + 1 => i * N >= (M + 2) * N
    <3>1. i > M + 1 => (i - (M + 2)) * N >= 0
      OBVIOUS
    <3> QED BY <3>1
  <2>3. i * N \in Int /\ (M + 1) * N \in Int /\ (M + 2) * N = (M + 1) * N + N
    OBVIOUS
  <2> QED BY <1>4, <1>5, <2>1, <2>2, <2>3
<1>8. RandInt(0, MaxInt, u) = i
  <2>1. (M - 0 + 1) * u = w
    BY <1>1, <1>2
  <2>2. RandInt(0, MaxInt, u) = 0 + i
    BY <1>1, <1>4, <2>1 DEF RandInt
  <2> QED BY <2>2
<1> QED BY <1>1, <1>6, <1>7, <1>8

-----------------------------------------------------------------------------
(* The inductive invariant: rng, next_seed and history name states of orbits *)

GoodSeeds == {k \in Seeds : LegalSeed(Vector(k))}
Streams == [Cg : Pairs, Bg : Pairs, Ig : Pairs, anti : BOOLEAN, inc : BOOLEAN]
Histories ==
    [seed : GoodSeeds, cur : -MaxMoves .. MaxMoves, sub : 0 .. MaxMoves, start : 0 .. MaxMoves,
     package : GoodSeeds, next : 0 .. MaxMoves + TwoTo(StreamJump)]

\* The states are where the history says.
Follows(r, s, h) ==
    /\ r.Cg = Orbit(h.seed)[h.cur] /\ r.Bg = Orbit(h.seed)[h.sub]
    /\ r.Ig = Orbit(h.seed)[h.start] /\ s = Orbit(h.package)[h.next]

Inv ==
    /\ rng \in Streams /\ history \in Histories
    /\ Follows(rng, next_seed, history)
    /\ DrawsAreInRange

\* What the orbit of a legal seed is, and the numbers that bound the positions.
LEMMA GoodSeedsAre ==
  /\ MaxMoves \in Nat /\ TwoTo(SubJump) \in Nat /\ TwoTo(StreamJump) \in Nat
  /\ \A k \in GoodSeeds : /\ k \in Seeds /\ k \in Nat /\ LegalSeed(Vector(k))
                          /\ Vector(k) \in Pairs /\ Vector(k) = Orbit(k)[0]
                          /\ \A n \in Int : Orbit(k)[n] \in Pairs
<1>1. MaxMoves \in Nat /\ TwoTo(SubJump) \in Nat /\ TwoTo(StreamJump) \in Nat
  BY RandomAssumption, TwoToIsPositive
<1>2. ASSUME NEW k \in GoodSeeds
      PROVE  /\ k \in Seeds /\ k \in Nat /\ LegalSeed(Vector(k))
             /\ Vector(k) \in Pairs /\ Vector(k) = Orbit(k)[0]
             /\ \A n \in Int : Orbit(k)[n] \in Pairs
  <2>1. k \in Seeds /\ k \in Nat /\ LegalSeed(Vector(k))
    BY RandomAssumption DEF GoodSeeds
  <2>2. Orbit(k) \in [Int -> Pairs] /\ Orbit(k)[0] = Vector(k)
    BY <2>1, OrbitIs
  <2> QED BY <2>1, <2>2
<1> QED BY <1>1, <1>2

\* Nothing was drawn.
LEMMA NothingIsInRange ==
  /\ Nothing.u \in 0 .. One /\ Nothing.u # 0 /\ Nothing.u # One
  /\ Nothing.int \in 0 .. MaxInt + 1 /\ ~(Nothing.int > MaxInt)
<1>1. One \in Nat /\ One >= 2 /\ MaxInt \in Nat
  BY OneIs, RandomAssumption
<1>2. Nothing.u = 1 /\ Nothing.int = 0
  BY DEF Nothing
<1> QED BY <1>1, <1>2

\* A stream that begins at the position p of the orbit of k.
LEMMA BeginningIs ==
  ASSUME NEW k \in GoodSeeds, NEW p \in 0 .. MaxMoves, NEW s, s = Orbit(k)[p]
  PROVE  LET r == [Cg |-> s, Bg |-> s, Ig |-> s, anti |-> FALSE, inc |-> FALSE]
             h == [seed |-> k, cur |-> p, sub |-> p, start |-> p,
                   package |-> k, next |-> p + TwoTo(StreamJump)]
         IN  r \in Streams /\ h \in Histories /\ Follows(r, Jump(s, StreamTables), h)
<1> DEFINE r == [Cg |-> s, Bg |-> s, Ig |-> s, anti |-> FALSE, inc |-> FALSE]
           h == [seed |-> k, cur |-> p, sub |-> p, start |-> p,
                 package |-> k, next |-> p + TwoTo(StreamJump)]
<1>1. p \in Int /\ MaxMoves \in Nat /\ TwoTo(StreamJump) \in Nat
  BY GoodSeedsAre
<1>2. s \in Pairs /\ k \in Nat /\ LegalSeed(Vector(k))
  BY <1>1, GoodSeedsAre
<1>3. Jump(s, StreamTables) = Orbit(k)[p + TwoTo(StreamJump)]
  BY <1>1, <1>2, JumpsAre
<1>4. r \in Streams
  BY <1>2 DEF Streams
<1>5. h \in Histories
  <2>1. PICK n : n = p + TwoTo(StreamJump) /\ n \in 0 .. MaxMoves + TwoTo(StreamJump)
    BY <1>1
  <2>2. p \in -MaxMoves .. MaxMoves
    BY <1>1
  <2> QED BY <2>1, <2>2 DEF Histories
<1>6. Follows(r, Jump(s, StreamTables), h)
  BY <1>3 DEF Follows
<1> QED BY <1>4, <1>5, <1>6

\* The inductive invariant holds initially.
LEMMA InvInit == Init => Inv
<1> SUFFICES ASSUME Init PROVE Inv
  OBVIOUS
<1>1. PICK k \in Seeds :
        /\ LegalSeed(Vector(k))
        /\ rng = [Cg |-> Vector(k), Bg |-> Vector(k), Ig |-> Vector(k),
                  anti |-> FALSE, inc |-> FALSE]
        /\ next_seed = Jump(Vector(k), StreamTables)
        /\ drawn = Nothing
        /\ history = [seed |-> k, cur |-> 0, sub |-> 0, start |-> 0,
                      package |-> k, next |-> TwoTo(StreamJump)]
  BY DEF Init
<1>2. k \in GoodSeeds
  BY <1>1 DEF GoodSeeds
<1>3. Vector(k) = Orbit(k)[0] /\ 0 \in 0 .. MaxMoves /\ 0 + TwoTo(StreamJump) = TwoTo(StreamJump)
  BY <1>2, GoodSeedsAre
<1>4. rng \in Streams /\ history \in Histories /\ Follows(rng, next_seed, history)
  BY <1>1, <1>2, <1>3, BeginningIs
<1> QED BY <1>1, <1>4, NothingIsInRange DEF Inv, DrawsAreInRange

\* A stream that is made anew.
LEMMA InitStreamInv ==
  ASSUME NEW k \in GoodSeeds, NEW p \in 0 .. MaxMoves, NEW s, s = Orbit(k)[p],
         InitStream(s, k, p), Forget
  PROVE  Inv'
<1>1. rng' \in Streams /\ history' \in Histories /\ Follows(rng', next_seed', history')
  BY BeginningIs DEF InitStream
<1>2. DrawsAreInRange'
  BY NothingIsInRange DEF DrawsAreInRange, Forget
<1> QED BY <1>1, <1>2 DEF Inv

\* A step that moves the current state, and perhaps the substream's, along the
\* orbit of the stream's seed.
LEMMA MoveInv ==
  ASSUME Inv, NEW c \in -MaxMoves .. MaxMoves, NEW b \in 0 .. MaxMoves, NEW s, NEW t,
         s = Orbit(history.seed)[c], t = Orbit(history.seed)[b],
         rng' = [rng EXCEPT !.Cg = s, !.Bg = t],
         history' = [history EXCEPT !.cur = c, !.sub = b],
         UNCHANGED next_seed
  PROVE  rng' \in Streams /\ history' \in Histories /\ Follows(rng', next_seed', history')
<1>1. rng \in Streams /\ history \in Histories /\ Follows(rng, next_seed, history)
  BY DEF Inv
<1>2. history.seed \in GoodSeeds /\ c \in Int /\ b \in Int
  BY <1>1, GoodSeedsAre DEF Histories
<1>3. s \in Pairs /\ t \in Pairs
  BY <1>2, GoodSeedsAre
<1>4. rng' \in Streams /\ rng'.Cg = s /\ rng'.Bg = t /\ rng'.Ig = rng.Ig
  BY <1>1, <1>3 DEF Streams
<1>5. /\ history' \in Histories /\ history'.seed = history.seed /\ history'.cur = c
      /\ history'.sub = b /\ history'.start = history.start
      /\ history'.package = history.package /\ history'.next = history.next
  BY <1>1 DEF Histories
<1> QED BY <1>1, <1>4, <1>5 DEF Follows

\* Every step keeps the inductive invariant.
LEMMA InvNext == Inv /\ [Next]_vars => Inv'
<1> SUFFICES ASSUME Inv, [Next]_vars PROVE Inv'
  OBVIOUS
<1>1. rng \in Streams /\ history \in Histories /\ Follows(rng, next_seed, history)
      /\ DrawsAreInRange
  BY DEF Inv
<1>2. PICK k, cur, sub, start, k2, next :
        /\ k \in GoodSeeds /\ cur \in -MaxMoves .. MaxMoves /\ sub \in 0 .. MaxMoves
        /\ start \in 0 .. MaxMoves /\ k2 \in GoodSeeds
        /\ next \in 0 .. MaxMoves + TwoTo(StreamJump)
        /\ k = history.seed /\ cur = history.cur /\ sub = history.sub /\ start = history.start
        /\ k2 = history.package /\ next = history.next
  BY <1>1 DEF Histories
<1>3. /\ rng.Cg = Orbit(k)[cur] /\ rng.Bg = Orbit(k)[sub] /\ rng.Ig = Orbit(k)[start]
      /\ next_seed = Orbit(k2)[next]
  BY <1>1, <1>2 DEF Follows
<1>4. /\ MaxMoves \in Nat /\ TwoTo(SubJump) \in Nat /\ TwoTo(StreamJump) \in Nat
      /\ k \in Nat /\ LegalSeed(Vector(k)) /\ cur \in Int /\ sub \in Int /\ start \in Int
      /\ next \in Int
  BY <1>2, GoodSeedsAre
<1>5. ASSUME NEW g \in Seeds, SetSeed(g) PROVE Inv'
  <2>1. g \in GoodSeeds /\ InitStream(Vector(g), g, 0) /\ Forget
    BY <1>5 DEF SetSeed, GoodSeeds
  <2>2. Vector(g) = Orbit(g)[0] /\ 0 \in 0 .. MaxMoves
    BY <1>4, <2>1, GoodSeedsAre
  <2> QED BY <2>1, <2>2, InitStreamInv
<1>6. ASSUME NEW g \in Seeds, SetSeedVector(g) PROVE Inv'
  <2>1. g \in GoodSeeds
    BY <1>6 DEF SetSeedVector, GoodSeeds
  <2>2. PICK s : s = Vector(g) /\ s = Orbit(g)[0] /\ s \in Pairs
    BY <2>1, GoodSeedsAre
  <2>3. /\ rng' = [rng EXCEPT !.Cg = s, !.Bg = s, !.Ig = s]
        /\ history' = [history EXCEPT !.seed = g, !.cur = 0, !.sub = 0, !.start = 0]
        /\ next_seed' = next_seed
    BY <1>6, <2>2 DEF SetSeedVector
  <2>4. rng' \in Streams /\ rng'.Cg = s /\ rng'.Bg = s /\ rng'.Ig = s
    BY <1>1, <2>2, <2>3 DEF Streams
  <2>5. 0 \in 0 .. MaxMoves /\ 0 \in -MaxMoves .. MaxMoves
    BY <1>4
  <2>6. /\ history' \in Histories /\ history'.seed = g /\ history'.cur = 0 /\ history'.sub = 0
        /\ history'.start = 0 /\ history'.package = k2 /\ history'.next = next
    BY <1>1, <1>2, <2>1, <2>3, <2>5 DEF Histories
  <2>7. Follows(rng', next_seed', history')
    BY <1>3, <2>2, <2>3, <2>4, <2>6 DEF Follows
  <2>8. DrawsAreInRange'
    BY <1>6, NothingIsInRange DEF DrawsAreInRange, SetSeedVector, Forget
  <2> QED BY <2>4, <2>6, <2>7, <2>8 DEF Inv
<1>7. CASE NextStream
  <2>1. InitStream(next_seed, k2, next) /\ Forget /\ next <= MaxMoves
    BY <1>2, <1>7 DEF NextStream
  <2>2. next \in 0 .. MaxMoves
    BY <1>2, <1>4, <2>1
  <2> QED BY <1>2, <1>3, <2>1, <2>2, InitStreamInv
<1>8. CASE Draw
  <2>1. PICK s \in Pairs, t \in Pairs, c \in Pairs :
          /\ c = rng.Cg /\ s = Step(c) /\ t = Step(s)
          /\ s = Orbit(k)[cur + 1] /\ t = Orbit(k)[cur + 2]
    <3>1. rng.Cg \in Pairs
      BY <1>1 DEF Streams
    <3>2. Step(rng.Cg) \in Pairs
      BY <3>1, StepIs
    <3>3. Step(Step(rng.Cg)) \in Pairs
      BY <3>2, StepIs
    <3>4. \A n \in Int : Orbit(k)[n + 1] = Step(Orbit(k)[n])
      BY <1>4, OrbitIs
    <3>5. cur + 1 \in Int /\ (cur + 1) + 1 = cur + 2
      BY <1>4
    <3>6. Step(rng.Cg) = Orbit(k)[cur + 1] /\ Step(Step(rng.Cg)) = Orbit(k)[cur + 2]
      BY <1>3, <1>4, <3>4, <3>5
    <3> QED BY <3>1, <3>2, <3>3, <3>6
  <2>2. rng.anti \in BOOLEAN /\ rng.inc \in BOOLEAN
    BY <1>1 DEF Streams
  <2>3. PICK e, d : /\ d = (IF rng.inc THEN 2 ELSE 1) /\ e = (IF rng.inc THEN t ELSE s)
                    /\ d \in 1 .. 2 /\ e = Orbit(k)[cur + d]
    <3>1. CASE rng.inc
      BY <2>1, <3>1
    <3>2. CASE ~rng.inc
      BY <2>1, <3>2
    <3> QED BY <3>1, <3>2
  <2>4. /\ cur + d <= MaxMoves /\ rng' = [rng EXCEPT !.Cg = e]
        /\ history' = [history EXCEPT !.cur = @ + d] /\ next_seed' = next_seed
        /\ drawn' = [u |-> Uniform(rng.Cg), int |-> RandInt(0, MaxInt, Uniform(rng.Cg)),
                     anti |-> rng.anti, inc |-> rng.inc]
    BY <1>2, <1>8, <2>1, <2>3, Zenon DEF Draw
  <2>5. cur + d \in -MaxMoves .. MaxMoves
    BY <1>2, <1>4, <2>3, <2>4
  <2>6. PICK b : b = rng.Bg /\ b = Orbit(k)[sub]
    BY <1>3
  <2>7. rng' = [rng EXCEPT !.Cg = e, !.Bg = b]
    BY <1>1, <2>4, <2>6 DEF Streams
  <2>8. PICK p : p = cur + d
    OBVIOUS
  <2>9. history' = [history EXCEPT !.cur = p, !.sub = sub]
    BY <1>1, <1>2, <2>4, <2>8 DEF Histories
  <2>10. rng' \in Streams /\ history' \in Histories /\ Follows(rng', next_seed', history')
    <3>1. p \in -MaxMoves .. MaxMoves /\ e = Orbit(history.seed)[p] /\ b = Orbit(history.seed)[sub]
      BY <1>2, <2>3, <2>5, <2>6, <2>8
    <3>2. UNCHANGED next_seed /\ sub \in 0 .. MaxMoves
      BY <1>2, <2>4
    <3> QED BY ONLY Inv, <1>2, <2>7, <2>9, <3>1, <3>2, MoveInv, Zenon
  <2>11. PICK u : /\ u = Uniform(rng.Cg) /\ u \in 0 .. One /\ (u = 0 => rng.inc)
                  /\ (u = One => rng.anti /\ rng.inc)
    <3>1. CASE rng.inc
      <4>1. PICK n : n = Uniform(rng.Cg) /\ n = U01d(s, t, rng.anti)
        BY <2>1, <3>1 DEF Uniform
      <4>2. n \in 0 .. One /\ (~rng.anti => n # One)
        BY <2>2, <4>1, NumberIs, Zenon
      <4> QED BY <3>1, <4>1, <4>2, Zenon
    <3>2. CASE ~rng.inc
      <4>1. PICK n : n = Uniform(rng.Cg) /\ n = U01(s, rng.anti)
        BY <2>1, <3>2 DEF Uniform
      <4>2. n \in 1 .. One - 1 /\ One \in Nat
        BY <2>2, <4>1, NumberIs, OneIs, Zenon
      <4>3. n \in 0 .. One /\ n # 0 /\ n # One
        BY <4>2
      <4> QED BY <4>1, <4>3, Zenon
    <3> QED BY <3>1, <3>2
  <2>12. PICK i : /\ i = RandInt(0, MaxInt, u) /\ i \in 0 .. MaxInt + 1
                  /\ (u # One => i \in 0 .. MaxInt)
    BY <2>11, RandIntIs
  <2>13. drawn' = [u |-> u, int |-> i, anti |-> rng.anti, inc |-> rng.inc]
    BY <2>4, <2>11, <2>12, Zenon
  <2>14. drawn'.u = u /\ drawn'.int = i /\ drawn'.anti = rng.anti /\ drawn'.inc = rng.inc
    BY <2>13
  <2>15. DrawsAreInRange'
    <3>1. i > MaxInt => u = One
      BY <2>12, RandomAssumption
    <3>2. u \in 0 .. One /\ (u = 0 => rng.inc) /\ (u = One => rng.anti /\ rng.inc)
          /\ i \in 0 .. MaxInt + 1
      BY <2>11, <2>12, Zenon
    <3> QED BY <2>14, <3>1, <3>2, Zenon DEF DrawsAreInRange
  <2> QED BY <2>10, <2>15 DEF Inv
<1>9. ASSUME NEW c \in -MaxMoves .. MaxMoves, NEW b \in 0 .. MaxMoves, NEW s, NEW t,
             s = Orbit(k)[c], t = Orbit(k)[b], rng' = [rng EXCEPT !.Cg = s, !.Bg = t],
             history' = [history EXCEPT !.cur = c, !.sub = b],
             next_seed' = next_seed, Forget
      PROVE  Inv'
  <2>1. rng' \in Streams /\ history' \in Histories /\ Follows(rng', next_seed', history')
    BY <1>2, <1>9, MoveInv
  <2>2. DrawsAreInRange'
    BY <1>9, NothingIsInRange DEF DrawsAreInRange, Forget
  <2> QED BY <2>1, <2>2 DEF Inv
<1>10. CASE ResetStartStream
  <2>1. PICK s : s = rng.Ig /\ s = Orbit(k)[start]
    BY <1>3
  <2>2. /\ rng' = [rng EXCEPT !.Cg = s, !.Bg = s] /\ Forget /\ next_seed' = next_seed
        /\ history' = [history EXCEPT !.cur = start, !.sub = start]
    BY <1>2, <1>10, <2>1 DEF ResetStartStream
  <2>3. start \in -MaxMoves .. MaxMoves
    BY <1>2, <1>4
  <2> QED BY <1>2, <1>9, <2>1, <2>2, <2>3
<1>11. CASE ResetStartSubstream
  <2>1. PICK s : s = rng.Bg /\ s = Orbit(k)[sub]
    BY <1>3
  <2>2. /\ rng' = [rng EXCEPT !.Cg = s] /\ Forget /\ next_seed' = next_seed
        /\ history' = [history EXCEPT !.cur = sub]
    BY <1>2, <1>11, <2>1 DEF ResetStartSubstream
  <2>3. rng' = [rng EXCEPT !.Cg = s, !.Bg = s]
    BY <1>1, <2>1, <2>2 DEF Streams
  <2>4. history' = [history EXCEPT !.cur = sub, !.sub = sub]
    BY <1>1, <1>2, <2>2 DEF Histories
  <2>5. sub \in -MaxMoves .. MaxMoves
    BY <1>2, <1>4
  <2>6. Forget /\ next_seed' = next_seed /\ sub \in 0 .. MaxMoves
    BY <1>2, <2>2
  <2> QED BY ONLY <1>9, <2>1, <2>3, <2>4, <2>5, <2>6, Zenon
<1>12. CASE ResetNextSubstream
  <2>1. PICK p : p = sub + TwoTo(SubJump)
    OBVIOUS
  <2>2. PICK s : s = Jump(rng.Bg, SubTables) /\ s = Orbit(k)[p]
    BY <1>3, <1>4, <2>1, JumpsAre
  <2>3. /\ rng' = [rng EXCEPT !.Cg = s, !.Bg = s] /\ Forget /\ next_seed' = next_seed
        /\ history' = [history EXCEPT !.sub = @ + TwoTo(SubJump), !.cur = sub + TwoTo(SubJump)]
        /\ p <= MaxMoves
    BY <1>2, <1>12, <2>1, <2>2, Zenon DEF ResetNextSubstream
  <2>4. history' = [history EXCEPT !.cur = p, !.sub = p]
    BY <1>1, <1>2, <2>1, <2>3 DEF Histories
  <2>5. p \in 0 .. MaxMoves /\ p \in -MaxMoves .. MaxMoves
    BY <1>2, <1>4, <2>1, <2>3
  <2> QED BY <1>9, <2>2, <2>3, <2>4, <2>5
<1>13. ASSUME NEW j \in Jumps, AdvanceState(j[1], j[2]) PROVE Inv'
  <2>1. j = <<j[1], j[2]>>
    BY RandomAssumption
  <2>2. PICK p : p = cur + (Distance(j[1]) + j[2])
    OBVIOUS
  <2>3. PICK s : s = Jump(rng.Cg, Advances[j]) /\ s = Orbit(k)[p]
    BY <1>3, <1>4, <2>2, JumpsAre
  <2>4. /\ p \in -MaxMoves .. MaxMoves
        /\ history' = [history EXCEPT !.cur = @ + (Distance(j[1]) + j[2])]
        /\ rng' = [rng EXCEPT !.Cg = Jump(@, Advances[j])]
        /\ Forget /\ next_seed' = next_seed
    BY <1>2, <1>13, <2>1, <2>2, Zenon DEF AdvanceState, Distance
  <2>5. PICK b : b = rng.Bg /\ b = Orbit(k)[sub]
    BY <1>3
  <2>6. rng' = [rng EXCEPT !.Cg = s, !.Bg = b]
    BY <1>1, <2>3, <2>4, <2>5 DEF Streams
  <2>7. history' = [history EXCEPT !.cur = p, !.sub = sub]
    BY <1>1, <1>2, <2>2, <2>4 DEF Histories
  <2>8. p \in -MaxMoves .. MaxMoves /\ Forget /\ next_seed' = next_seed /\ sub \in 0 .. MaxMoves
    BY <1>2, <2>4
  <2> QED BY ONLY <1>9, <2>3, <2>5, <2>6, <2>7, <2>8, Zenon
<1>14. CASE SetAntithetic
  <2>1. rng' \in Streams /\ rng'.Cg = rng.Cg /\ rng'.Bg = rng.Bg /\ rng'.Ig = rng.Ig
    BY <1>1, <1>14 DEF SetAntithetic, Streams
  <2>2. history' = history /\ next_seed' = next_seed /\ DrawsAreInRange'
    BY <1>14, NothingIsInRange DEF DrawsAreInRange, SetAntithetic, Forget
  <2> QED BY <1>1, <2>1, <2>2 DEF Inv, Follows
<1>15. CASE IncreasedPrecis
  <2>1. rng' \in Streams /\ rng'.Cg = rng.Cg /\ rng'.Bg = rng.Bg /\ rng'.Ig = rng.Ig
    BY <1>1, <1>15 DEF IncreasedPrecis, Streams
  <2>2. history' = history /\ next_seed' = next_seed /\ DrawsAreInRange'
    BY <1>15, NothingIsInRange DEF DrawsAreInRange, IncreasedPrecis, Forget
  <2> QED BY <1>1, <2>1, <2>2 DEF Inv, Follows
<1>16. CASE UNCHANGED vars
  BY <1>1, <1>16 DEF vars, Inv, Follows, DrawsAreInRange
<1> QED
  BY <1>5, <1>6, <1>7, <1>8, <1>10, <1>11, <1>12, <1>13, <1>14, <1>15, <1>16 DEF Next

LEMMA Invariance == Spec => []Inv
<1>1. Init => Inv
  BY InvInit
<1>2. Inv /\ [Next]_vars => Inv'
  BY InvNext
<1> QED BY <1>1, <1>2, PTL DEF Spec

\* The states are legal seeds.
THEOREM StreamTypes == Spec => []TypeOK
<1>1. Inv => TypeOK
  <2> SUFFICES ASSUME Inv PROVE TypeOK
    OBVIOUS
  <2>1. rng \in Streams /\ history \in Histories /\ Follows(rng, next_seed, history)
    BY DEF Inv
  <2>2. ASSUME NEW k \in GoodSeeds, NEW n \in Int PROVE LegalSeed(Orbit(k)[n])
    BY GoodSeedsAre, OrbitIsLegal
  <2>3. /\ history.seed \in GoodSeeds /\ history.package \in GoodSeeds /\ history.cur \in Int
        /\ history.sub \in Int /\ history.start \in Int /\ history.next \in Int
    BY <2>1, GoodSeedsAre DEF Histories
  <2>4. /\ LegalSeed(rng.Cg) /\ LegalSeed(rng.Bg) /\ LegalSeed(rng.Ig) /\ LegalSeed(next_seed)
    BY <2>1, <2>2, <2>3 DEF Follows
  <2>5. rng.anti \in BOOLEAN /\ rng.inc \in BOOLEAN
    BY <2>1 DEF Streams
  <2> QED BY <2>4, <2>5 DEF TypeOK
<1> QED BY <1>1, Invariance, PTL

\* The jumps land where single steps would have led.
THEOREM JumpsAreSteps == Spec => []StreamsFollowTheSteps
<1>1. Inv => StreamsFollowTheSteps
  <2> SUFFICES ASSUME Inv PROVE StreamsFollowTheSteps
    OBVIOUS
  <2>1. history \in Histories /\ Follows(rng, next_seed, history)
    BY DEF Inv
  <2>2. ASSUME NEW k \in GoodSeeds, NEW n \in -MaxMoves .. MaxMoves + TwoTo(StreamJump)
        PROVE  Orbits[k][n] = Orbit(k)[n]
    <3>1. k \in Seeds
      BY GoodSeedsAre
    <3> QED BY <3>1 DEF Orbits
  <2>3. /\ history.seed \in GoodSeeds /\ history.package \in GoodSeeds
        /\ history.cur \in -MaxMoves .. MaxMoves + TwoTo(StreamJump)
        /\ history.sub \in -MaxMoves .. MaxMoves + TwoTo(StreamJump)
        /\ history.start \in -MaxMoves .. MaxMoves + TwoTo(StreamJump)
        /\ history.next \in -MaxMoves .. MaxMoves + TwoTo(StreamJump)
    BY <2>1, GoodSeedsAre DEF Histories
  <2> QED BY <2>1, <2>2, <2>3 DEF Follows, StreamsFollowTheSteps
<1> QED BY <1>1, Invariance, PTL

\* The numbers lie between 0 and 1; 0 is only drawn with increased precision,
\* and 1, which takes rand_int past its bounds, only when the numbers are
\* antithetic too.
THEOREM NumbersInRange == Spec => []DrawsAreInRange
<1>1. Inv => DrawsAreInRange
  BY DEF Inv
<1> QED BY <1>1, Invariance, PTL
=============================================================================
