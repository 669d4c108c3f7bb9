-------------------------- MODULE TimestampsProofs --------------------------
(***************************************************************************)
(* TLAPS proofs about Timestamps, for digit groups of any size, any skew   *)
(* and any two times: that comparing texts compares times, and that the    *)
(* seconds cut off by client and gateway make up for each other.           *)
(***************************************************************************)
EXTENDS Timestamps, SequenceTheorems, TLAPS

-----------------------------------------------------------------------------
(* Whole numbers and remainders. *)

(* What `\div` and `%` of Duration and of the digits compute.                *)
LEMMA Division ==
  ASSUME NEW n \in Nat, NEW d \in Nat \ {0}
  PROVE  /\ n \div d \in Nat
         /\ n % d \in 0..(d - 1)
         /\ n = d * (n \div d) + (n % d)
OBVIOUS

(* A product grows with its factors.                                         *)
LEMMA ProductGrows ==
  ASSUME NEW d \in Nat \ {0}, NEW j \in Int, NEW k \in Int, j < k
  PROVE  d * j + d <= d * k
<1>1. PICK m \in Nat : k = j + 1 + m
  <2>1. k - j - 1 \in Nat /\ k = j + 1 + (k - j - 1)
    OBVIOUS
  <2> QED
    BY <2>1
<1>2. d * k = d * j + d + d * m
  BY <1>1
<1>3. d * m >= 0
  OBVIOUS
<1>4. d * j \in Int /\ d * k \in Int /\ d * m \in Int
  OBVIOUS
<1> QED
  BY <1>2, <1>3, <1>4

(* There is one way to write a number with a remainder.                      *)
LEMMA DivisionUnique ==
  ASSUME NEW d \in Nat \ {0}, NEW k \in Nat, NEW r \in 0..(d - 1),
         NEW n \in Nat, n = d * k + r
  PROVE  n \div d = k /\ n % d = r
<1> DEFINE j == n \div d
           s == n % d
<1>1. j \in Nat /\ s \in 0..(d - 1) /\ n = d * j + s
  BY Division
<1>2. d * j \in Int /\ d * k \in Int
  BY <1>1
<1> HIDE DEF j, s
<1>3. ~ (j < k)
  <2> SUFFICES ASSUME j < k PROVE FALSE
    OBVIOUS
  <2>1. d * j + d <= d * k
    BY <1>1, ProductGrows
  <2> QED
    BY <1>1, <1>2, <2>1
<1>4. ~ (k < j)
  <2> SUFFICES ASSUME k < j PROVE FALSE
    OBVIOUS
  <2>1. d * k + d <= d * j
    BY <1>1, ProductGrows
  <2> QED
    BY <1>1, <1>2, <2>1
<1>5. j = k
  BY <1>1, <1>3, <1>4
<1>6. s = r
  BY <1>1, <1>2, <1>5
<1> QED
  BY <1>5, <1>6 DEF j, s

(* Numbers compare as their quotients do, and as their remainders where the  *)
(* quotients are equal.                                                      *)
LEMMA DigitwiseOrder ==
  ASSUME NEW d \in Nat \ {0}, NEW m \in Nat, NEW n \in Nat, m < n
  PROVE  \/ m \div d < n \div d
         \/ m \div d = n \div d /\ m % d < n % d
<1> DEFINE i == m \div d
           j == n \div d
<1>1. i \in Nat /\ m % d \in 0..(d - 1) /\ m = d * i + (m % d)
  BY Division
<1>2. j \in Nat /\ n % d \in 0..(d - 1) /\ n = d * j + (n % d)
  BY Division
<1>3. d * i \in Int /\ d * j \in Int
  BY <1>1, <1>2
<1> HIDE DEF i, j
<1>4. ~ (j < i)
  <2> SUFFICES ASSUME j < i PROVE FALSE
    OBVIOUS
  <2>1. d * j + d <= d * i
    BY <1>1, <1>2, ProductGrows
  <2> QED
    BY <1>1, <1>2, <1>3, <2>1
<1>5. i = j => m % d < n % d
  BY <1>1, <1>2, <1>3
<1>6. i < j \/ (i = j /\ m % d < n % d)
  BY <1>1, <1>2, <1>4, <1>5
<1> QED
  BY <1>6 DEF i, j

(* A quotient is at most k when the number is below the next multiple.       *)
LEMMA QuotientBound ==
  ASSUME NEW d \in Nat \ {0}, NEW n \in Nat, NEW k \in Nat
  PROVE  n \div d <= k <=> n < d * k + d
<1> DEFINE j == n \div d
<1>1. j \in Nat /\ n % d \in 0..(d - 1) /\ n = d * j + (n % d)
  BY Division
<1>2. d * j \in Int /\ d * k \in Int
  BY <1>1
<1> HIDE DEF j
<1>3. ASSUME j <= k PROVE n < d * k + d
  <2>1. CASE j = k
    BY <1>1, <1>2, <2>1
  <2>2. CASE j < k
    <3>1. d * j + d <= d * k
      BY <1>1, <2>2, ProductGrows
    <3> QED
      BY <1>1, <1>2, <3>1
  <2> QED
    BY <1>1, <1>3, <2>1, <2>2
<1>4. ASSUME k < j PROVE ~ (n < d * k + d)
  <2>1. d * k + d <= d * j
    BY <1>1, <1>4, ProductGrows
  <2> QED
    BY <1>1, <1>2, <2>1
<1>5. j <= k <=> n < d * k + d
  BY <1>1, <1>3, <1>4
<1> QED
  BY <1>5 DEF j

(* A second is a positive number of units.                                   *)
LEMMA SecondPositive == Group \in Nat \ {0} /\ Group * Group \in Nat \ {0} /\ Second \in Nat \ {0}
<1>1. Group \in Nat \ {0}
  BY TimestampConstants
<1>2. \A a, b \in Nat \ {0} : a * b \in Nat \ {0}
  OBVIOUS
<1>3. Group * Group \in Nat \ {0}
  BY <1>1, <1>2
<1> QED
  BY <1>1, <1>2, <1>3 DEF Second

-----------------------------------------------------------------------------
(* The two clocks of a signed request. *)

Clocks == stamp \in Nat /\ now \in Nat

(* The clock of a run and the time it is compared with are times.            *)
LEMMA ClocksAlways == Spec => []Clocks
<1> DEFINE InTimes == stamp \in Times /\ now \in Nat
<1>1. Init => InTimes
  BY DEF Init
<1>2. InTimes /\ [Tick]_vars => InTimes'
  BY DEF Tick, vars
<1>3. InTimes => Clocks
  BY DEF Times, Clocks
<1> QED
  BY <1>1, <1>2, <1>3, PTL DEF Spec

(* What the two sides cut off never adds up to more than the contract lets   *)
(* differ, nor lets through two seconds more.                                *)
LEMMA SkewMeetsContract == Clocks => FreshWithinSkew
<1> SUFFICES ASSUME stamp \in Nat, now \in Nat PROVE FreshWithinSkew
  BY DEF Clocks
<1>1. Second \in Nat \ {0} /\ MaxSkew \in Nat
  BY SecondPositive, TimestampConstants
<1> DEFINE cut == stamp % Second
           d == now - Signed(stamp)
           off == IF stamp < now THEN now - stamp ELSE stamp - now
           bound == Second * MaxSkew
<1>2. Signed(stamp) \in Int /\ cut \in 0..(Second - 1) /\ stamp = Signed(stamp) + cut
  BY <1>1, Division DEF Signed
<1>3. /\ bound \in Int /\ bound >= 0
      /\ MaxSkew * Second = bound /\ (MaxSkew + 2) * Second = bound + Second + Second
  BY <1>1
<1>4. d \in Int /\ d = now - stamp + cut
  BY <1>2
<1>5. d >= 0 => (within_skew(Signed(stamp)) <=> d < bound + Second)
  <2> SUFFICES ASSUME d >= 0 PROVE within_skew(Signed(stamp)) <=> d < bound + Second
    OBVIOUS
  <2>1. d \in Nat
    BY <1>4
  <2>2. num_seconds(d) = d \div Second /\ d \div Second \in Nat
    BY <1>1, <2>1, Division DEF num_seconds
  <2>3. within_skew(Signed(stamp)) <=> d \div Second <= MaxSkew
    BY <1>1, <2>2 DEF within_skew
  <2> QED
    BY <1>1, <2>1, <2>3, QuotientBound
<1>6. d < 0 => (within_skew(Signed(stamp)) <=> -d < bound + Second)
  <2> SUFFICES ASSUME d < 0 PROVE within_skew(Signed(stamp)) <=> -d < bound + Second
    OBVIOUS
  <2>1. -d \in Nat
    BY <1>4
  <2>2. num_seconds(d) = -((-d) \div Second) /\ (-d) \div Second \in Nat
    BY <1>1, <2>1, Division DEF num_seconds
  <2>3. within_skew(Signed(stamp)) <=> (-d) \div Second <= MaxSkew
    BY <1>1, <2>2 DEF within_skew
  <2> QED
    BY <1>1, <2>1, <2>3, QuotientBound
<1> HIDE DEF d, cut, bound
<1>7. off <= bound => within_skew(Signed(stamp))
  BY <1>1, <1>2, <1>3, <1>4, <1>5, <1>6
<1>8. within_skew(Signed(stamp)) => off < bound + Second + Second
  BY <1>1, <1>2, <1>3, <1>4, <1>5, <1>6
<1> QED
  BY <1>3, <1>7, <1>8 DEF FreshWithinSkew

(* A client whose clock is within the documented skew is never turned away,  *)
(* and none that is two seconds off it gets through, for every skew and      *)
(* every resolution of the clocks.                                           *)
THEOREM SkewIsAsDocumented == Spec => []FreshWithinSkew
BY ClocksAlways, SkewMeetsContract, PTL

-----------------------------------------------------------------------------
(* Texts. *)

(* The groups of digits of a fraction, and which of them it takes.           *)
LEMMA Groups ==
  ASSUME NEW n \in Nat
  PROVE  LET a == n \div (Group * Group)
             b == (n \div Group) % Group
             c == n % Group
         IN  /\ a \in Nat /\ b \in Nat /\ c \in Nat
             /\ (n \div Group) \div Group = a
             /\ n % (Group * Group) = 0 <=> b = 0 /\ c = 0
             /\ n = 0 <=> a = 0 /\ b = 0 /\ c = 0
<1> DEFINE u == n \div Group
           k == u \div Group
           b == u % Group
           c == n % Group
           G2 == Group * Group
<1>1. Group \in Nat \ {0} /\ G2 \in Nat \ {0}
  BY SecondPositive
<1>2. u \in Nat /\ c \in 0..(Group - 1) /\ n = Group * u + c
  BY <1>1, Division
<1>3. k \in Nat /\ b \in 0..(Group - 1) /\ u = Group * k + b
  BY <1>1, <1>2, Division
<1> HIDE DEF u, k, b, c
<1>4. Group * b \in Nat /\ Group * b + Group <= G2 /\ (Group * b = 0 <=> b = 0)
  <2>1. Group * b + Group <= G2
    BY <1>1, <1>3, ProductGrows
  <2>2. Group * b \in Nat /\ (Group * b = 0 <=> b = 0)
    BY <1>1, <1>3
  <2> QED
    BY <2>1, <2>2
<1>5. n = G2 * k + (Group * b + c)
  BY <1>1, <1>2, <1>3
<1>6. Group * b + c \in 0..(G2 - 1)
  BY <1>1, <1>2, <1>4
<1>7. n \div G2 = k /\ n % G2 = Group * b + c
  <2> DEFINE r == Group * b + c
  <2>1. r \in 0..(G2 - 1) /\ n = G2 * k + r
    BY <1>5, <1>6
  <2> HIDE DEF G2, r
  <2>2. n \div G2 = k /\ n % G2 = r
    BY <1>1, <1>3, <2>1, DivisionUnique
  <2> QED
    BY <2>2 DEF r
<1>8. n % G2 = 0 <=> b = 0 /\ c = 0
  BY <1>2, <1>4, <1>7
<1>9. G2 * k \in Nat /\ (G2 * k = 0 <=> k = 0)
  BY <1>1, <1>3
<1>10. n = 0 <=> k = 0 /\ b = 0 /\ c = 0
  BY <1>2, <1>4, <1>5, <1>9
<1>11. /\ n \div G2 \in Nat /\ b \in Nat /\ c \in Nat
       /\ k = n \div G2
       /\ n % G2 = 0 <=> b = 0 /\ c = 0
       /\ n = 0 <=> n \div G2 = 0 /\ b = 0 /\ c = 0
  BY <1>2, <1>3, <1>7, <1>8, <1>10
<1> QED
  BY <1>11, Zenon DEF u, k, b, c

\* The text of the time with q whole seconds and the digit groups a, b, c.
Shape(q, a, b, c) ==
  IF a = 0 /\ b = 0 /\ c = 0 THEN <<q + 2, 0>>
  ELSE IF b = 0 /\ c = 0 THEN <<q + 2, 1, a + 2, 0>>
  ELSE IF c = 0 THEN <<q + 2, 1, a + 2, b + 2, 0>>
  ELSE <<q + 2, 1, a + 2, b + 2, c + 2, 0>>

\* The first place at which the texts of two times differ, if the first time
\* is the earlier one.
FirstDifference(q, a, b, c, qq, aa, bb) ==
  IF q # qq THEN 1
  ELSE IF a = 0 /\ b = 0 /\ c = 0 THEN 2
  ELSE IF a # aa THEN 3
  ELSE IF b # bb THEN 4
  ELSE IF b = 0 /\ c = 0 THEN 4
  ELSE 5

(* A fraction between the whole seconds and the offset.                      *)
LEMMA Enclosed ==
  ASSUME NEW x \in Int, NEW z \in Int, NEW f \in Seq(Int)
  PROVE  LET w == <<x>> \o f \o <<z>>
         IN  /\ w \in Seq(Int)
             /\ Len(w) = Len(f) + 2
             /\ w[1] = x
             /\ \A i \in 1..Len(f) : w[i + 1] = f[i]
             /\ w[Len(f) + 2] = z
<1> DEFINE v == <<x>> \o f
           w == v \o <<z>>
<1>1. /\ <<x>> \in Seq(Int) /\ <<z>> \in Seq(Int)
      /\ Len(<<x>>) = 1 /\ Len(<<z>>) = 1 /\ <<x>>[1] = x /\ <<z>>[1] = z
      /\ Len(f) \in Nat
  OBVIOUS
<1>2. /\ v \in Seq(Int) /\ Len(v) = Len(f) + 1 /\ v[1] = x
      /\ \A i \in 1..Len(f) : v[i + 1] = f[i]
  BY <1>1, ConcatProperties
<1> HIDE DEF v
<1>3. /\ w \in Seq(Int) /\ Len(w) = Len(v) + 1
      /\ \A i \in 1..Len(v) : w[i] = v[i]
      /\ w[Len(v) + 1] = z
  BY <1>1, <1>2, ConcatProperties
<1> HIDE DEF w
<1>4. /\ w[1] = x
      /\ \A i \in 1..Len(f) : w[i + 1] = f[i]
      /\ w[Len(f) + 2] = z
  BY <1>1, <1>2, <1>3
<1> QED
  BY <1>1, <1>2, <1>3, <1>4 DEF v, w

(* The pieces of a text, put together.                                       *)
LEMMA Pieces ==
  ASSUME NEW x \in Int, NEW z \in Int, NEW a \in Int, NEW b \in Int, NEW c \in Int
  PROVE  /\ <<x>> \o <<>> \o <<z>> = <<x, z>>
         /\ <<x>> \o <<1, a>> \o <<z>> = <<x, 1, a, z>>
         /\ <<x>> \o <<1, a, b>> \o <<z>> = <<x, 1, a, b, z>>
         /\ <<x>> \o <<1, a, b, c>> \o <<z>> = <<x, 1, a, b, c, z>>
<1>1. <<x>> \o <<>> \o <<z>> = <<x, z>>
  <2> DEFINE f == <<>>
             w == <<x>> \o f \o <<z>>
  <2>1. f \in Seq(Int)
    OBVIOUS
  <2>2. Len(f) = 0
    OBVIOUS
  <2>3. w \in Seq(Int) /\ Len(w) = 2 /\ w[1] = x /\ w[2] = z
        /\ \A i \in 1..0 : w[i + 1] = f[i]
    <3> HIDE DEF f
    <3>1. /\ w \in Seq(Int) /\ Len(w) = Len(f) + 2 /\ w[1] = x
          /\ \A i \in 1..Len(f) : w[i + 1] = f[i]
          /\ w[Len(f) + 2] = z
      BY <2>1, Enclosed
    <3> HIDE DEF w
    <3> QED
      BY <2>2, <3>1
  <2> HIDE DEF w
  <2>4. w = <<x, z>>
    BY <2>2, <2>3
  <2> QED
    BY <2>4 DEF w
<1>2. <<x>> \o <<1, a>> \o <<z>> = <<x, 1, a, z>>
  <2> DEFINE f == <<1, a>>
             w == <<x>> \o f \o <<z>>
  <2>1. f \in Seq(Int)
    OBVIOUS
  <2>2. Len(f) = 2 /\ f[1] = 1 /\ f[2] = a
    OBVIOUS
  <2>3. w \in Seq(Int) /\ Len(w) = 4 /\ w[1] = x /\ w[4] = z
        /\ \A i \in 1..2 : w[i + 1] = f[i]
    <3> HIDE DEF f
    <3>1. /\ w \in Seq(Int) /\ Len(w) = Len(f) + 2 /\ w[1] = x
          /\ \A i \in 1..Len(f) : w[i + 1] = f[i]
          /\ w[Len(f) + 2] = z
      BY <2>1, Enclosed
    <3> HIDE DEF w
    <3> QED
      BY <2>2, <3>1
  <2> HIDE DEF w
  <2>4. w = <<x, 1, a, z>>
    BY <2>2, <2>3
  <2> QED
    BY <2>4 DEF w
<1>3. <<x>> \o <<1, a, b>> \o <<z>> = <<x, 1, a, b, z>>
  <2> DEFINE f == <<1, a, b>>
             w == <<x>> \o f \o <<z>>
  <2>1. f \in Seq(Int)
    OBVIOUS
  <2>2. Len(f) = 3 /\ f[1] = 1 /\ f[2] = a /\ f[3] = b
    OBVIOUS
  <2>3. w \in Seq(Int) /\ Len(w) = 5 /\ w[1] = x /\ w[5] = z
        /\ \A i \in 1..3 : w[i + 1] = f[i]
    <3> HIDE DEF f
    <3>1. /\ w \in Seq(Int) /\ Len(w) = Len(f) + 2 /\ w[1] = x
          /\ \A i \in 1..Len(f) : w[i + 1] = f[i]
          /\ w[Len(f) + 2] = z
      BY <2>1, Enclosed
    <3> HIDE DEF w
    <3> QED
      BY <2>2, <3>1
  <2> HIDE DEF w
  <2>4. w = <<x, 1, a, b, z>>
    BY <2>2, <2>3
  <2> QED
    BY <2>4 DEF w
<1>4. <<x>> \o <<1, a, b, c>> \o <<z>> = <<x, 1, a, b, c, z>>
  <2> DEFINE f == <<1, a, b, c>>
             w == <<x>> \o f \o <<z>>
  <2>1. f \in Seq(Int)
    OBVIOUS
  <2>2. Len(f) = 4 /\ f[1] = 1 /\ f[2] = a /\ f[3] = b /\ f[4] = c
    OBVIOUS
  <2>3. w \in Seq(Int) /\ Len(w) = 6 /\ w[1] = x /\ w[6] = z
        /\ \A i \in 1..4 : w[i + 1] = f[i]
    <3> HIDE DEF f
    <3>1. /\ w \in Seq(Int) /\ Len(w) = Len(f) + 2 /\ w[1] = x
          /\ \A i \in 1..Len(f) : w[i + 1] = f[i]
          /\ w[Len(f) + 2] = z
      BY <2>1, Enclosed
    <3> HIDE DEF w
    <3> QED
      BY <2>2, <3>1
  <2> HIDE DEF w
  <2>4. w = <<x, 1, a, b, c, z>>
    BY <2>2, <2>3
  <2> QED
    BY <2>4 DEF w
<1> QED
  BY <1>1, <1>2, <1>3, <1>4

(* The text of a time, from its whole seconds and its digit groups.          *)
LEMMA TextShape ==
  ASSUME NEW t \in Nat
  PROVE  LET n == t % Second
         IN  to_rfc3339(t) = Shape(t \div Second, n \div (Group * Group),
                                   (n \div Group) % Group, n % Group)
<1> DEFINE q == t \div Second
           n == t % Second
           a == n \div (Group * Group)
           b == (n \div Group) % Group
           c == n % Group
<1>1. q \in Nat /\ n \in Nat
  BY SecondPositive, Division
<1>2. /\ a \in Nat /\ b \in Nat /\ c \in Nat
      /\ n % (Group * Group) = 0 <=> b = 0 /\ c = 0
      /\ n = 0 <=> a = 0 /\ b = 0 /\ c = 0
  BY <1>1, Groups
<1>3. to_rfc3339(t) = <<q + 2>> \o Fraction(n) \o <<0>>
  BY DEF to_rfc3339, Rfc3339, Digits, Plus
<1>4. Fraction(n) = IF a = 0 /\ b = 0 /\ c = 0 THEN <<>>
                    ELSE IF b = 0 /\ c = 0 THEN <<1, a + 2>>
                    ELSE IF c = 0 THEN <<1, a + 2, b + 2>>
                    ELSE <<1, a + 2, b + 2, c + 2>>
  <2> DEFINE w == n % (Group * Group)
  <2>1. Fraction(n) = CASE n = 0 -> <<>>
                        [] n # 0 /\ w = 0 -> <<1, a + 2>>
                        [] w # 0 /\ c = 0 -> <<1, a + 2, b + 2>>
                        [] c # 0 -> <<1, a + 2, b + 2, c + 2>>
    BY DEF Fraction, Digits, Point
  <2>2. w = 0 <=> b = 0 /\ c = 0
    BY <1>2
  <2> HIDE DEF w, n, a, b, c
  <2>3. CASE n = 0
    BY <1>2, <2>1, <2>2, <2>3
  <2>4. CASE n # 0 /\ w = 0
    BY <1>2, <2>1, <2>2, <2>4
  <2>5. CASE w # 0 /\ c = 0
    BY <1>2, <2>1, <2>2, <2>5
  <2>6. CASE c # 0
    BY <1>2, <2>1, <2>2, <2>6
  <2> QED
    BY <1>2, <2>2, <2>3, <2>4, <2>5, <2>6
<1> HIDE DEF q, n, a, b, c
<1>5. to_rfc3339(t) = Shape(q, a, b, c)
  <2>1. /\ <<q + 2>> \o <<>> \o <<0>> = <<q + 2, 0>>
        /\ <<q + 2>> \o <<1, a + 2>> \o <<0>> = <<q + 2, 1, a + 2, 0>>
        /\ <<q + 2>> \o <<1, a + 2, b + 2>> \o <<0>> = <<q + 2, 1, a + 2, b + 2, 0>>
        /\ <<q + 2>> \o <<1, a + 2, b + 2, c + 2>> \o <<0>>
             = <<q + 2, 1, a + 2, b + 2, c + 2, 0>>
    <3> DEFINE x == q + 2
               y == a + 2
               z == b + 2
               w == c + 2
    <3>1. x \in Int /\ 0 \in Int /\ y \in Int /\ z \in Int /\ w \in Int
      BY <1>1, <1>2
    <3> HIDE DEF x, y, z, w
    <3>2. /\ <<x>> \o <<>> \o <<0>> = <<x, 0>>
          /\ <<x>> \o <<1, y>> \o <<0>> = <<x, 1, y, 0>>
          /\ <<x>> \o <<1, y, z>> \o <<0>> = <<x, 1, y, z, 0>>
          /\ <<x>> \o <<1, y, z, w>> \o <<0>> = <<x, 1, y, z, w, 0>>
      BY <3>1, Pieces
    <3> QED
      BY <3>2 DEF x, y, z, w
  <2>2. CASE a = 0 /\ b = 0 /\ c = 0
    <3>1. to_rfc3339(t) = <<q + 2>> \o <<>> \o <<0>>
      BY <1>2, <1>3, <1>4, <2>2
    <3> QED
      BY <1>2, <2>1, <2>2, <3>1 DEF Shape
  <2>3. CASE a # 0 /\ b = 0 /\ c = 0
    <3>1. to_rfc3339(t) = <<q + 2>> \o <<1, a + 2>> \o <<0>>
      BY <1>2, <1>3, <1>4, <2>3
    <3> QED
      BY <1>2, <2>1, <2>3, <3>1 DEF Shape
  <2>4. CASE b # 0 /\ c = 0
    <3>1. to_rfc3339(t) = <<q + 2>> \o <<1, a + 2, b + 2>> \o <<0>>
      BY <1>2, <1>3, <1>4, <2>4
    <3> QED
      BY <1>2, <2>1, <2>4, <3>1 DEF Shape
  <2>5. CASE c # 0
    <3>1. to_rfc3339(t) = <<q + 2>> \o <<1, a + 2, b + 2, c + 2>> \o <<0>>
      BY <1>2, <1>3, <1>4, <2>5
    <3> QED
      BY <1>2, <2>1, <2>5, <3>1 DEF Shape
  <2> QED
    BY <1>2, <2>2, <2>3, <2>4, <2>5
<1> QED
  BY <1>5 DEF q, n, a, b, c

(* Of two texts at most one comes before the other, and then they differ.    *)
LEMMA TextLessIsStrict ==
  ASSUME NEW s \in Seq(Int), NEW t \in Seq(Int), TextLess(s, t)
  PROVE  s # t /\ ~ TextLess(t, s)
<1>1. /\ DOMAIN s = 1..Len(s) /\ DOMAIN t = 1..Len(t)
      /\ Len(s) \in Nat /\ Len(t) \in Nat
      /\ \A i \in DOMAIN s : s[i] \in Int
      /\ \A i \in DOMAIN t : t[i] \in Int
  OBVIOUS
<1>2. ASSUME NEW k \in DOMAIN s \cap DOMAIN t, \A i \in 1..(k - 1) : s[i] = t[i], s[k] < t[k]
      PROVE  s # t /\ ~ TextLess(t, s)
  <2>1. s # t
    BY <1>1, <1>2
  <2>2. ASSUME NEW j \in DOMAIN s \cap DOMAIN t, \A i \in 1..(j - 1) : t[i] = s[i], t[j] < s[j]
        PROVE  FALSE
    <3>1. j \in Nat /\ k \in Nat /\ j >= 1 /\ k >= 1
      BY <1>1
    <3>2. CASE j < k
      BY <1>1, <1>2, <2>2, <3>1, <3>2
    <3>3. CASE k < j
      BY <1>1, <1>2, <2>2, <3>1, <3>3
    <3>4. CASE j = k
      BY <1>1, <1>2, <2>2, <3>4
    <3> QED
      BY <3>1, <3>2, <3>3, <3>4
  <2>3. ~ \A i \in DOMAIN t : t[i] = s[i]
    BY <1>1, <1>2
  <2> QED
    BY <2>1, <2>2, <2>3 DEF TextLess
<1>3. ASSUME Len(s) < Len(t), \A i \in DOMAIN s : s[i] = t[i]
      PROVE  s # t /\ ~ TextLess(t, s)
  <2>1. s # t /\ ~ (Len(t) < Len(s))
    BY <1>1, <1>3
  <2>2. \A k \in DOMAIN s \cap DOMAIN t : ~ (t[k] < s[k])
    BY <1>1, <1>3
  <2> QED
    BY <2>1, <2>2 DEF TextLess
<1> QED
  BY <1>2, <1>3 DEF TextLess

(* The text of the earlier of two times comes first: at the first place      *)
(* where they differ it has the smaller digits, or ends where the other goes *)
(* on, and the "+" and the "." that follow there come before every digit.    *)
LEMMA EarlierComesFirst ==
  ASSUME NEW q \in Nat, NEW a \in Nat, NEW b \in Nat, NEW c \in Nat,
         NEW qq \in Nat, NEW aa \in Nat, NEW bb \in Nat, NEW cc \in Nat,
         \/ q < qq
         \/ q = qq /\ a < aa
         \/ q = qq /\ a = aa /\ b < bb
         \/ q = qq /\ a = aa /\ b = bb /\ c < cc
  PROVE  TextLess(Shape(q, a, b, c), Shape(qq, aa, bb, cc))
<1> DEFINE s == Shape(q, a, b, c)
           t == Shape(qq, aa, bb, cc)
           k == FirstDifference(q, a, b, c, qq, aa, bb)
<1>1. /\ DOMAIN s = IF a = 0 /\ b = 0 /\ c = 0 THEN 1..2
                    ELSE IF b = 0 /\ c = 0 THEN 1..4 ELSE IF c = 0 THEN 1..5 ELSE 1..6
      /\ s[1] = q + 2
      /\ s[2] = IF a = 0 /\ b = 0 /\ c = 0 THEN 0 ELSE 1
      /\ ~ (a = 0 /\ b = 0 /\ c = 0) => s[3] = a + 2
      /\ ~ (a = 0 /\ b = 0 /\ c = 0) => s[4] = IF b = 0 /\ c = 0 THEN 0 ELSE b + 2
      /\ ~ (b = 0 /\ c = 0) => s[5] = IF c = 0 THEN 0 ELSE c + 2
  BY DEF Shape
<1>2. /\ DOMAIN t = IF aa = 0 /\ bb = 0 /\ cc = 0 THEN 1..2
                    ELSE IF bb = 0 /\ cc = 0 THEN 1..4 ELSE IF cc = 0 THEN 1..5 ELSE 1..6
      /\ t[1] = qq + 2
      /\ t[2] = IF aa = 0 /\ bb = 0 /\ cc = 0 THEN 0 ELSE 1
      /\ ~ (aa = 0 /\ bb = 0 /\ cc = 0) => t[3] = aa + 2
      /\ ~ (aa = 0 /\ bb = 0 /\ cc = 0) => t[4] = IF bb = 0 /\ cc = 0 THEN 0 ELSE bb + 2
      /\ ~ (bb = 0 /\ cc = 0) => t[5] = IF cc = 0 THEN 0 ELSE cc + 2
  BY DEF Shape
<1> HIDE DEF s, t
<1>3. k \in DOMAIN s \cap DOMAIN t
  BY <1>1, <1>2 DEF FirstDifference
<1>4. \A i \in 1..(k - 1) : s[i] = t[i]
  <2>1. k \in 1..5
    BY DEF FirstDifference
  <2>2. /\ k > 1 => s[1] = t[1]
        /\ k > 2 => s[2] = t[2]
        /\ k > 3 => s[3] = t[3]
        /\ k > 4 => s[4] = t[4]
    BY <1>1, <1>2 DEF FirstDifference
  <2> HIDE DEF k
  <2>3. ASSUME NEW i \in 1..(k - 1) PROVE s[i] = t[i]
    <3>1. i \in {1, 2, 3, 4} /\ i < k
      BY <2>1
    <3> QED
      BY <2>2, <3>1
  <2> QED
    BY <2>3
<1>5. s[k] < t[k]
  BY <1>1, <1>2 DEF FirstDifference
<1>6. TextLess(s, t)
  BY <1>3, <1>4, <1>5 DEF TextLess
<1> QED
  BY <1>6 DEF s, t

(* Whatever fractions two times have, the earlier one has the smaller text.  *)
LEMMA EarlierTextFirst ==
  ASSUME NEW x \in Nat, NEW y \in Nat, x < y
  PROVE  TextLess(to_rfc3339(x), to_rfc3339(y))
<1> DEFINE q == x \div Second
           m == x % Second
           qq == y \div Second
           n == y % Second
<1>1. q \in Nat /\ m \in Nat /\ qq \in Nat /\ n \in Nat
  BY SecondPositive, Division
<1>2. q < qq \/ (q = qq /\ m < n)
  BY SecondPositive, DigitwiseOrder
<1>3. m < n => \/ m \div Group < n \div Group
               \/ m \div Group = n \div Group /\ m % Group < n % Group
  BY <1>1, SecondPositive, DigitwiseOrder
<1> DEFINE u == m \div Group
           v == n \div Group
<1>4. u \in Nat /\ v \in Nat
  BY <1>1, SecondPositive, Division
<1>5. u < v => \/ u \div Group < v \div Group
               \/ u \div Group = v \div Group /\ u % Group < v % Group
  BY <1>4, SecondPositive, DigitwiseOrder
<1> DEFINE a == m \div (Group * Group)
           b == u % Group
           c == m % Group
           aa == n \div (Group * Group)
           bb == v % Group
           cc == n % Group
<1>6. /\ a \in Nat /\ b \in Nat /\ c \in Nat /\ u \div Group = a
      /\ aa \in Nat /\ bb \in Nat /\ cc \in Nat /\ v \div Group = aa
  BY <1>1, Groups
<1>7. u = v => a = aa /\ b = bb
  BY <1>6
<1>8. to_rfc3339(x) = Shape(q, a, b, c) /\ to_rfc3339(y) = Shape(qq, aa, bb, cc)
  BY TextShape
<1>9. \/ q < qq
      \/ q = qq /\ a < aa
      \/ q = qq /\ a = aa /\ b < bb
      \/ q = qq /\ a = aa /\ b = bb /\ c < cc
  <2> HIDE DEF q, qq, m, n, u, v, a, b, c, aa, bb, cc
  <2>1. m < n => u < v \/ (u = v /\ c < cc)
    BY <1>3 DEF u, v, c, cc
  <2>2. u < v => a < aa \/ (a = aa /\ b < bb)
    BY <1>5, <1>6 DEF b, bb
  <2> QED
    BY <1>2, <1>7, <2>1, <2>2
<1> HIDE DEF q, qq, m, n, u, v, a, b, c, aa, bb, cc
<1>10. TextLess(Shape(q, a, b, c), Shape(qq, aa, bb, cc))
  BY <1>1, <1>6, <1>9, EarlierComesFirst
<1> QED
  BY <1>8, <1>10

(* SQLite's order of the texts of stored times is the order of the times.    *)
LEMMA TextsCompareAsTimes == Clocks => TextOrderIsTimeOrder
<1> SUFFICES ASSUME stamp \in Nat, now \in Nat PROVE TextOrderIsTimeOrder
  BY DEF Clocks
<1>1. ASSUME NEW x \in Nat PROVE to_rfc3339(x) \in Seq(Int)
  <2> DEFINE n == x % Second
             q == x \div Second
             a == n \div (Group * Group)
             b == (n \div Group) % Group
             c == n % Group
  <2>1. q \in Nat /\ n \in Nat
    BY SecondPositive, Division
  <2>2. a \in Nat /\ b \in Nat /\ c \in Nat
    BY <2>1, Groups
  <2>3. to_rfc3339(x) = Shape(q, a, b, c)
    BY TextShape
  <2> HIDE DEF n, q, a, b, c
  <2> QED
    BY <2>1, <2>2, <2>3 DEF Shape
<1> DEFINE row == to_rfc3339(stamp)
           clock == to_rfc3339(now)
<1>2. row \in Seq(Int) /\ clock \in Seq(Int)
  BY <1>1
<1>3. stamp < now => TextLess(row, clock)
  BY EarlierTextFirst
<1>4. now < stamp => TextLess(clock, row)
  BY EarlierTextFirst
<1>5. stamp = now => row = clock
  OBVIOUS
<1> HIDE DEF row, clock
<1>6. /\ TextLess(row, clock) => row # clock /\ ~ TextLess(clock, row)
      /\ TextLess(clock, row) => row # clock /\ ~ TextLess(row, clock)
  BY <1>2, TextLessIsStrict
<1>7. /\ TextLess(row, clock) <=> stamp < now
      /\ row = clock <=> stamp = now
  BY <1>3, <1>4, <1>5, <1>6
<1> QED
  BY <1>7 DEF row, clock, TextOrderIsTimeOrder

(* No row is loaded early, sorted out of turn or pruned too soon because of  *)
(* the shape of its time: the texts compare as the times do, for every size  *)
(* of the digit groups and every two times.                                  *)
THEOREM TextsSortAsTimes == Spec => []TextOrderIsTimeOrder
BY ClocksAlways, TextsCompareAsTimes, PTL
=============================================================================
