------------------------- MODULE ScheduleTableProofs -------------------------
(***************************************************************************)
(* What ScheduleTable computes, for every task set: the macro GCD is a     *)
(* greatest common divisor where eight levels are enough, the duration of  *)
(* a table is then the least common multiple of its periods, and its       *)
(* expiry points are the times of a round at which some task is due.       *)
(* Each loop is first put into the form of Induction's Recurses.           *)
(***************************************************************************)
EXTENDS ScheduleTable, Induction

-----------------------------------------------------------------------------
(* Division.                                                               *)

\* A multiple of d has remainder 0 and its factor as the quotient.
LEMMA Multiple ==
    ASSUME NEW d \in Nat \ {0}, NEW k \in Int
    PROVE  (d * k) % d = 0 /\ (d * k) \div d = k
OBVIOUS

\* A number with remainder 0 is a multiple.
LEMMA Quotient ==
    ASSUME NEW n \in Int, NEW d \in Nat \ {0}, n % d = 0
    PROVE  \E k \in Int : n = d * k
<1>1. n = d * (n \div d) + (n % d) /\ n \div d \in Int
  OBVIOUS
<1>2. n = d * (n \div d)
  BY <1>1
<1>3. QED
  BY <1>1, <1>2

\* What divides two numbers divides their sums of multiples.
LEMMA DividesSum ==
    ASSUME NEW d \in Nat \ {0}, NEW m \in Int, NEW n \in Int, NEW k \in Int,
           m % d = 0, n % d = 0
    PROVE  (m * k + n) % d = 0
<1>1. PICK i \in Int : m = d * i
  BY Quotient
<1>2. PICK j \in Int : n = d * j
  BY Quotient
<1>3. m * k + n = d * (i * k + j)
  BY <1>1, <1>2
<1>4. i * k + j \in Int
  OBVIOUS
<1>5. QED
  BY <1>3, <1>4, Multiple

\* What divides a divisor divides the number.
LEMMA DividesTransitive ==
    ASSUME NEW d \in Nat \ {0}, NEW e \in Nat \ {0}, NEW n \in Int, e % d = 0, n % e = 0
    PROVE  n % d = 0
<1>1. PICK i \in Int : n = e * i
  BY Quotient
<1>2. PICK j \in Int : e = d * j
  BY Quotient
<1>3. n = d * (j * i) /\ j * i \in Int
  BY <1>1, <1>2
<1>4. QED
  BY <1>3, Multiple

-----------------------------------------------------------------------------
(* The macro GCD: after enough levels, the greatest common divisor.        *)

Pairs == (Nat \ {0}) \X Nat

DividesPair(d, pair) == pair[1] % d = 0 /\ pair[2] % d = 0

\* Bezout: a pair of sums of multiples of a and b.
Combines(pair, a, b) ==
    /\ \E x, y \in Int : pair[1] = x * a + y * b
    /\ \E x, y \in Int : pair[2] = x * a + y * b

\* A level of the macro keeps a pair of naturals whose first is positive.
LEMMA StepPairs ==
    ASSUME NEW pair \in Pairs
    PROVE  EuclidStep(pair) \in Pairs
<1>1. pair[1] \in Nat \ {0} /\ pair[2] \in Nat
  BY DEF Pairs
<1>2. CASE pair[2] = 0
  BY <1>2 DEF EuclidStep
<1>3. CASE pair[2] # 0
  <2>1. pair[1] % pair[2] \in Nat
    BY <1>1, <1>3
  <2>2. QED
    BY <1>1, <1>3, <2>1 DEF EuclidStep, Pairs
<1>4. QED
  BY <1>2, <1>3

\* The remainder of a step is a combination of the pair, and the other way round.
LEMMA StepRemainder ==
    ASSUME NEW pair \in Pairs, pair[2] # 0
    PROVE  /\ pair[1] \in Nat \ {0} /\ pair[2] \in Nat \ {0}
           /\ EuclidStep(pair)[1] = pair[2]
           /\ EuclidStep(pair)[2] \in 0 .. pair[2] - 1
           /\ pair[1] \div pair[2] \in Nat
           /\ pair[1] = pair[2] * (pair[1] \div pair[2]) + EuclidStep(pair)[2]
<1>1. pair[1] \in Nat \ {0} /\ pair[2] \in Nat \ {0}
  BY DEF Pairs
<1>2. pair[1] = pair[2] * (pair[1] \div pair[2]) + (pair[1] % pair[2])
      /\ pair[1] % pair[2] \in 0 .. pair[2] - 1
  <2>1. ASSUME NEW n \in Nat, NEW d \in Nat \ {0}
        PROVE  n = d * (n \div d) + (n % d) /\ n % d \in 0 .. d - 1
    OBVIOUS
  <2>2. PICK n \in Nat : n = pair[1]
    BY <1>1
  <2>3. PICK d \in Nat \ {0} : d = pair[2]
    BY <1>1
  <2>4. n = d * (n \div d) + (n % d) /\ n % d \in 0 .. d - 1
    BY <2>1
  <2>5. QED
    BY <2>2, <2>3, <2>4
<1>3. pair[1] \div pair[2] \in Nat
  BY <1>1
<1>4. EuclidStep(pair)[1] = pair[2] /\ EuclidStep(pair)[2] = pair[1] % pair[2]
  BY <1>1 DEF EuclidStep
<1>5. QED
  BY <1>1, <1>2, <1>3, <1>4

\* What divides both numbers after a level divides both before it.
LEMMA StepDivides ==
    ASSUME NEW pair \in Pairs, NEW d \in Nat \ {0}, DividesPair(d, EuclidStep(pair))
    PROVE  DividesPair(d, pair)
<1>1. CASE pair[2] = 0
  BY <1>1 DEF EuclidStep
<1>2. CASE pair[2] # 0
  <2> DEFINE quotient == pair[1] \div pair[2]
             rest == EuclidStep(pair)[2]
  <2>1. pair[2] % d = 0 /\ rest % d = 0
    BY <1>2, StepRemainder DEF DividesPair
  <2>2. /\ quotient \in Int /\ rest \in Int /\ pair[2] \in Int
        /\ pair[1] = pair[2] * quotient + rest
    BY <1>2, StepRemainder
  <2> HIDE DEF quotient, rest
  <2>3. (pair[2] * quotient + rest) % d = 0
    BY <2>1, <2>2, DividesSum
  <2>4. QED
    BY <2>1, <2>2, <2>3 DEF DividesPair
<1>3. QED
  BY <1>1, <1>2

\* Bezout: a level keeps both numbers combinations of a and b.
LEMMA StepCombines ==
    ASSUME NEW a \in Int, NEW b \in Int, NEW pair \in Pairs, Combines(pair, a, b)
    PROVE  Combines(EuclidStep(pair), a, b)
<1>1. CASE pair[2] = 0
  BY <1>1 DEF EuclidStep
<1>2. CASE pair[2] # 0
  <2> DEFINE quotient == pair[1] \div pair[2]
             rest == EuclidStep(pair)[2]
  <2>1. PICK x1, y1 \in Int : pair[1] = x1 * a + y1 * b
    BY DEF Combines
  <2>2. PICK x2, y2 \in Int : pair[2] = x2 * a + y2 * b
    BY DEF Combines
  <2>3. /\ quotient \in Int /\ rest \in Int /\ pair[1] = pair[2] * quotient + rest
        /\ EuclidStep(pair)[1] = pair[2]
    BY <1>2, StepRemainder
  <2> HIDE DEF quotient
  <2>4. rest = pair[1] - pair[2] * quotient
    BY <2>1, <2>2, <2>3
  <2>5. (x2 * a + y2 * b) * quotient = (x2 * quotient) * a + (y2 * quotient) * b
    BY <2>3
  <2>6. rest = (x1 - x2 * quotient) * a + (y1 - y2 * quotient) * b
    BY <2>1, <2>2, <2>3, <2>4, <2>5
  <2>7. x1 - x2 * quotient \in Int /\ y1 - y2 * quotient \in Int
    BY <2>3
  <2>8. QED
    BY <2>2, <2>3, <2>6, <2>7 DEF Combines
<1>3. QED
  BY <1>1, <1>2

\* After a level the first number is greater, but for the end of the algorithm.
LEMMA StepOrdered ==
    ASSUME NEW pair \in Pairs, pair[1] >= pair[2]
    PROVE  /\ EuclidStep(pair)[1] >= EuclidStep(pair)[2]
           /\ EuclidStep(pair)[2] # 0 => EuclidStep(pair)[1] > EuclidStep(pair)[2]
<1>1. CASE pair[2] = 0
  BY <1>1 DEF EuclidStep
<1>2. CASE pair[2] # 0
  BY <1>2, StepRemainder
<1>3. QED
  BY <1>1, <1>2

\* Lame: the remainders grow like Fibonacci numbers, seen from the last level.
LEMMA StepGrows ==
    ASSUME NEW pair \in Pairs, NEW x \in Nat \ {0}, NEW y \in Nat \ {0},
           EuclidStep(pair)[1] >= x, EuclidStep(pair)[2] >= y, pair[1] >= pair[2]
    PROVE  pair[2] >= x /\ pair[1] >= x + y
<1>1. pair[2] # 0
  BY DEF EuclidStep
<1> DEFINE quotient == pair[1] \div pair[2]
           rest == EuclidStep(pair)[2]
<1>2. /\ pair[1] \in Nat \ {0} /\ pair[2] \in Nat \ {0} /\ EuclidStep(pair)[1] = pair[2]
      /\ rest \in 0 .. pair[2] - 1 /\ quotient \in Nat /\ pair[1] = pair[2] * quotient + rest
  BY <1>1, StepRemainder
<1> HIDE DEF quotient, rest
<1>3. quotient # 0
  BY <1>2
<1>4. pair[2] * quotient >= pair[2]
  BY <1>2, <1>3
<1>5. QED
  BY <1>2, <1>4 DEF rest

\* The macro GCD puts the greater number first.
LEMMA OrderedPairs ==
    ASSUME NEW a \in Nat \ {0}, NEW b \in Nat \ {0}
    PROVE  /\ Ordered(a, b) \in Pairs /\ Ordered(a, b)[1] >= Ordered(a, b)[2]
           /\ Ordered(a, b) = <<a, b>> \/ Ordered(a, b) = <<b, a>>
BY DEF Ordered, Pairs

-----------------------------------------------------------------------------

\* The same three facts for four levels.
LEMMA FourPairs ==
    ASSUME NEW pair \in Pairs
    PROVE  FourLevels(pair) \in Pairs
BY StepPairs DEF FourLevels

LEMMA FourDivides ==
    ASSUME NEW pair \in Pairs, NEW d \in Nat \ {0}, DividesPair(d, FourLevels(pair))
    PROVE  DividesPair(d, pair)
BY StepPairs, StepDivides DEF FourLevels

LEMMA FourCombines ==
    ASSUME NEW a \in Int, NEW b \in Int, NEW pair \in Pairs, Combines(pair, a, b)
    PROVE  Combines(FourLevels(pair), a, b)
BY StepPairs, StepCombines DEF FourLevels

\* Four levels that have not come to an end.
LEMMA FourGrow ==
    ASSUME NEW pair \in Pairs, pair[1] >= pair[2],
           NEW x \in Nat \ {0}, NEW y \in Nat \ {0},
           FourLevels(pair)[1] >= x, FourLevels(pair)[2] >= y
    PROVE  pair[2] >= 3 * x + 2 * y /\ pair[1] >= 5 * x + 3 * y
<1> DEFINE p1 == EuclidStep(pair)
           p2 == EuclidStep(p1)
           p3 == EuclidStep(p2)
<1>1. p1 \in Pairs /\ p2 \in Pairs /\ p3 \in Pairs /\ FourLevels(pair) = EuclidStep(p3)
  BY StepPairs DEF FourLevels
<1>2. p1[1] >= p1[2] /\ p2[1] >= p2[2] /\ p3[1] >= p3[2]
  BY <1>1, StepOrdered
<1>3. /\ p1[1] \in Nat /\ p1[2] \in Nat /\ p2[1] \in Nat /\ p2[2] \in Nat
      /\ p3[1] \in Nat /\ p3[2] \in Nat /\ pair[1] \in Nat /\ pair[2] \in Nat
  BY <1>1 DEF Pairs
<1> HIDE DEF p3
<1>4. p3[2] >= x /\ p3[1] >= x + y
  BY <1>1, <1>2, StepGrows
<1> USE DEF p3
<1> HIDE DEF p2
<1>5. p2[2] >= x + y /\ p2[1] >= 2 * x + y
  <2>1. p2[2] >= x + y /\ p2[1] >= (x + y) + x
    BY <1>1, <1>2, <1>4, StepGrows
  <2>2. QED
    BY <1>3, <2>1
<1> USE DEF p2
<1> HIDE DEF p1
<1>6. p1[2] >= 2 * x + y /\ p1[1] >= 3 * x + 2 * y
  <2>1. p1[2] >= 2 * x + y /\ p1[1] >= (2 * x + y) + (x + y)
    BY <1>1, <1>2, <1>5, StepGrows
  <2>2. QED
    BY <1>3, <2>1
<1> USE DEF p1
<1>7. pair[2] >= 3 * x + 2 * y /\ pair[1] >= (3 * x + 2 * y) + (2 * x + y)
  BY <1>1, <1>2, <1>6, StepGrows
<1>8. QED
  BY <1>3, <1>7

\* Four levels keep the order, too.
LEMMA FourOrdered ==
    ASSUME NEW pair \in Pairs, pair[1] >= pair[2]
    PROVE  /\ FourLevels(pair)[1] >= FourLevels(pair)[2]
           /\ FourLevels(pair)[2] # 0 => FourLevels(pair)[1] > FourLevels(pair)[2]
BY StepPairs, StepOrdered DEF FourLevels

\* Eight levels are enough if one of the numbers is below 55.
LEMMA EightEnd ==
    ASSUME NEW pair \in Pairs, pair[1] >= pair[2], pair[2] < 55
    PROVE  FourLevels(FourLevels(pair))[2] = 0
<1> DEFINE middle == FourLevels(pair)
           last == FourLevels(middle)
<1> SUFFICES ASSUME last[2] # 0 PROVE FALSE
  OBVIOUS
<1>1. middle \in Pairs /\ last \in Pairs /\ middle[1] >= middle[2]
  BY FourPairs, FourOrdered
<1>2. last[2] >= 1 /\ last[1] >= 2
  BY <1>1, FourOrdered DEF Pairs
<1>3. middle[2] >= 3 * 2 + 2 * 1 /\ middle[1] >= 5 * 2 + 3 * 1
  BY <1>1, <1>2, FourGrow
<1>4. middle[2] >= 8 /\ middle[1] >= 13
  BY <1>3
<1>5. pair[2] >= 3 * 13 + 2 * 8
  BY <1>4, FourGrow
<1>6. QED
  BY <1>5 DEF Pairs

\* One level is enough if the smaller number divides the greater.
LEMMA OneEnd ==
    ASSUME NEW pair \in Pairs, pair[2] # 0, pair[1] % pair[2] = 0
    PROVE  FourLevels(FourLevels(pair))[2] = 0
<1> DEFINE first == EuclidStep(pair)
<1>1. first[2] = 0
  BY DEF EuclidStep
<1> HIDE DEF first
<1>2. EuclidStep(first) = first
  BY <1>1 DEF EuclidStep
<1>3. FourLevels(pair) = first /\ FourLevels(first) = first
  BY <1>2 DEF FourLevels, first
<1>4. QED
  BY <1>1, <1>3

\* Two numbers are combinations of themselves.
LEMMA PairCombines ==
    ASSUME NEW a \in Nat \ {0}, NEW b \in Nat \ {0}
    PROVE  Combines(<<a, b>>, a, b) /\ Combines(<<b, a>>, a, b)
<1>1. a = 1 * a + 0 * b /\ b = 0 * a + 1 * b
  OBVIOUS
<1>2. QED
  BY <1>1 DEF Combines

\* Numbers for which eight levels are known to be enough.
LEMMA NearEnd ==
    ASSUME NEW a \in Nat \ {0}, NEW b \in Nat \ {0},
           a < 55 \/ b < 55 \/ a % b = 0 \/ b % a = 0
    PROVE  FourLevels(FourLevels(Ordered(a, b)))[2] = 0
<1> DEFINE pair == Ordered(a, b)
<1>1. /\ pair \in Pairs /\ pair[1] >= pair[2] /\ pair[1] \in Nat /\ pair[2] \in Nat \ {0}
      /\ pair = <<a, b>> \/ pair = <<b, a>>
  BY OrderedPairs DEF Pairs
<1>2. CASE a < 55 \/ b < 55
  <2>1. pair[2] < 55
    BY <1>1, <1>2
  <2>2. QED
    BY <1>1, <2>1, EightEnd
<1>3. CASE a % b = 0 \/ b % a = 0
  <2>1. \A n, d \in Nat \ {0} : n >= d /\ d % n = 0 => n = d
    OBVIOUS
  <2>2. \A n \in Nat \ {0} : n % n = 0
    OBVIOUS
  <2>3. pair[1] % pair[2] = 0
    BY <1>1, <1>3, <2>1, <2>2
  <2>4. QED
    BY <1>1, <2>3, OneEnd
<1>4. QED
  BY <1>2, <1>3

\* What GCD returns for such numbers is a common divisor and a combination of the two.
LEMMA GcdDivides ==
    ASSUME NEW a \in Nat \ {0}, NEW b \in Nat \ {0},
           a < 55 \/ b < 55 \/ a % b = 0 \/ b % a = 0
    PROVE  /\ GCD(a, b) \in Nat \ {0} /\ a % GCD(a, b) = 0 /\ b % GCD(a, b) = 0
           /\ \E x, y \in Int : GCD(a, b) = x * a + y * b
<1> DEFINE pair == Ordered(a, b)
           last == FourLevels(FourLevels(pair))
           g == last[1]
<1>1. /\ pair \in Pairs /\ last \in Pairs
      /\ (pair = <<a, b>> \/ pair = <<b, a>>) /\ FourLevels(pair) \in Pairs
  BY OrderedPairs, FourPairs DEF Ordered
<1>2. last[2] = 0 /\ g = GCD(a, b)
  BY NearEnd DEF GCD
<1>3. g \in Nat \ {0} /\ g % g = 0 /\ 0 % g = 0
  BY <1>1 DEF Pairs
<1>4. DividesPair(g, last)
  BY <1>2, <1>3 DEF DividesPair
<1>5. DividesPair(g, pair)
  BY <1>1, <1>3, <1>4, FourDivides
<1>6. Combines(pair, a, b)
  BY <1>1, PairCombines
<1>7. Combines(last, a, b)
  BY <1>1, <1>6, FourCombines
<1> HIDE DEF last
<1>8. a % g = 0 /\ b % g = 0
  BY <1>1, <1>5 DEF DividesPair
<1>9. \E x, y \in Int : g = x * a + y * b
  BY <1>7 DEF Combines
<1>10. QED
  BY <1>2, <1>3, <1>8, <1>9

\* A level does not make a pair greater.
LEMMA StepAtMost ==
    ASSUME NEW pair \in Pairs, NEW n \in Nat, pair[1] <= n, pair[2] <= n
    PROVE  EuclidStep(pair)[1] <= n /\ EuclidStep(pair)[2] <= n
<1>1. CASE pair[2] = 0
  BY <1>1 DEF EuclidStep
<1>2. CASE pair[2] # 0
  BY <1>2, StepRemainder
<1>3. QED
  BY <1>1, <1>2

\* Whether or not eight levels are enough, GCD returns a positive number that is
\* at most one of its arguments; this is all that the types of the tables need.
LEMMA GcdPositive ==
    ASSUME NEW a \in Nat \ {0}, NEW b \in Nat \ {0}
    PROVE  GCD(a, b) \in Nat \ {0} /\ (GCD(a, b) <= a \/ GCD(a, b) <= b)
<1> DEFINE pair == Ordered(a, b)
           AtMost(p) == p \in Pairs /\ p[1] <= pair[1] /\ p[2] <= pair[1]
<1>1. pair \in Pairs /\ pair[1] \in Nat /\ AtMost(pair) /\ (pair[1] = a \/ pair[1] = b)
  BY OrderedPairs DEF Pairs
<1>2. \A p : AtMost(p) => AtMost(EuclidStep(p))
  BY <1>1, StepPairs, StepAtMost
<1> HIDE DEF AtMost
<1>3. AtMost(FourLevels(FourLevels(pair)))
  BY <1>1, <1>2 DEF FourLevels
<1>4. GCD(a, b) \in Nat \ {0} /\ GCD(a, b) <= pair[1]
  BY <1>3 DEF AtMost, GCD, Pairs
<1>5. QED
  BY <1>1, <1>4

-----------------------------------------------------------------------------
(* The macro LCM.                                                          *)

\* So LCM is positive: its product is at least what it is divided by.
LEMMA LcmPositive ==
    ASSUME NEW a \in Nat \ {0}, NEW b \in Nat \ {0}
    PROVE  LCM(a, b) \in Nat \ {0}
<1>1. PICK g \in Nat \ {0} : g = GCD(a, b) /\ (g <= a \/ g <= b)
  BY GcdPositive
<1>2. a * b \in Nat /\ a * b >= a /\ a * b >= b
  OBVIOUS
<1>3. a * b >= g
  BY <1>1, <1>2
<1>4. \A n \in Nat : n >= g => n \div g \in Nat \ {0}
  OBVIOUS
<1>5. QED
  BY <1>1, <1>2, <1>3, <1>4 DEF LCM

\* LCM is the least common multiple if GCD is a common divisor and a combination.
LEMMA LcmOfGcd ==
    ASSUME NEW a \in Nat \ {0}, NEW b \in Nat \ {0}, NEW g \in Nat \ {0}, g = GCD(a, b),
           a % g = 0, b % g = 0, \E x, y \in Int : g = x * a + y * b
    PROVE  /\ LCM(a, b) % a = 0 /\ LCM(a, b) % b = 0
           /\ \A n \in Nat : n % a = 0 /\ n % b = 0 => n % LCM(a, b) = 0
<1>1. /\ a \in Int /\ b \in Int /\ g = GCD(a, b) /\ a % g = 0 /\ b % g = 0
      /\ \E x, y \in Int : g = x * a + y * b
  OBVIOUS
<1>2. PICK x, y \in Int : g = x * a + y * b
  BY <1>1
<1>3. PICK i \in Int : a = g * i
  BY <1>1, Quotient
<1>4. PICK j \in Int : b = g * j
  BY <1>1, Quotient
<1>5. a * b = g * (i * b) /\ i * b \in Int
  BY <1>3
<1>6. LCM(a, b) = i * b
  BY <1>1, <1>5, Multiple DEF LCM
<1>7. LCM(a, b) = b * i /\ LCM(a, b) = a * j
  <2>1. i * b = i * (g * j) /\ (g * i) * j = i * (g * j)
    BY <1>4
  <2>2. QED
    BY <1>3, <1>6, <2>1
<1>8. ASSUME NEW n \in Nat, n % a = 0, n % b = 0 PROVE n % LCM(a, b) = 0
  <2>1. n \in Int
    OBVIOUS
  <2>2. PICK k \in Int : n = a * k
    BY <1>1, <1>8, <2>1, Quotient
  <2>3. PICK l \in Int : n = b * l
    BY <1>1, <1>8, <2>1, Quotient
  <2> DEFINE m == i * b
  \* g n is a multiple of a b, which is g m.
  <2>4. g * n = (x * a) * (b * l) + (y * b) * (a * k)
    <3>1. g * n = (x * a) * n + (y * b) * n
      BY <1>2
    <3>2. QED
      BY <2>2, <2>3, <3>1
  <2>5. (x * a) * (b * l) = (a * b) * (x * l) /\ (y * b) * (a * k) = (a * b) * (y * k)
    OBVIOUS
  <2>6. g * n = (a * b) * (x * l + y * k)
    BY <2>4, <2>5
  <2>7. g * n = g * (m * (x * l + y * k))
    BY <1>5, <2>6
  <2>8. m * (x * l + y * k) \in Int /\ x * l + y * k \in Int
    BY <1>5
  <2>9. n = m * (x * l + y * k)
    BY <2>7, <2>8
  <2>10. m \in Nat \ {0}
    BY <1>6, LcmPositive
  <2>11. QED
    BY <1>6, <2>8, <2>9, <2>10, Multiple
<1>9. QED
  BY <1>7, <1>8, Multiple

\* So it is for such numbers.
LEMMA LcmIsLeast ==
    ASSUME NEW a \in Nat \ {0}, NEW b \in Nat \ {0},
           a < 55 \/ b < 55 \/ a % b = 0 \/ b % a = 0
    PROVE  /\ LCM(a, b) % a = 0 /\ LCM(a, b) % b = 0
           /\ \A n \in Nat : n % a = 0 /\ n % b = 0 => n % LCM(a, b) = 0
BY GcdDivides, LcmOfGcd

\* If one of the numbers divides the other, LCM is the other.
LEMMA LcmOfMultiple ==
    ASSUME NEW a \in Nat \ {0}, NEW b \in Nat \ {0}, a % b = 0 \/ b % a = 0
    PROVE  LCM(a, b) = a \/ LCM(a, b) = b
<1>1. PICK l \in Nat \ {0} : l = LCM(a, b)
  BY LcmPositive
<1>2. /\ l % a = 0 /\ l % b = 0
      /\ \A n \in Nat : n % a = 0 /\ n % b = 0 => n % l = 0
  BY <1>1, LcmIsLeast
<1>3. \A n \in Nat \ {0} : n % n = 0
  OBVIOUS
<1>4. a % l = 0 \/ b % l = 0
  BY <1>2, <1>3
<1>5. \A n, d \in Nat \ {0} : n % d = 0 /\ d % n = 0 => n = d
  <2>1. \A n, d \in Nat \ {0} : n % d = 0 => n >= d
    OBVIOUS
  <2>2. QED
    BY <2>1
<1>6. QED
  BY <1>1, <1>2, <1>4, <1>5

-----------------------------------------------------------------------------
(* Filter.                                                                 *)

\* The copies that Filter makes.
Copying(copied, seq, S) ==
    /\ copied[0] = <<>>
    /\ \A i \in 1 .. Len(seq) :
         copied[i] = IF seq[i] \in S THEN Append(copied[i - 1], seq[i]) ELSE copied[i - 1]

\* The recursive function in the definition of Filter exists.
LEMMA FilterCopies ==
    ASSUME NEW A, NEW seq \in Seq(A), NEW S
    PROVE  \E copied \in [0 .. Len(seq) -> Seq(A)] :
               Filter(seq, S) = copied[Len(seq)] /\ Copying(copied, seq, S)
<1> DEFINE n == Len(seq)
           Copies == Seq(A)
           empty == <<>>
           Copy(copy, i) == IF seq[i] \in S THEN Append(copy, seq[i]) ELSE copy
           step == [i \in 1 .. n |-> [copy \in Copies |-> Copy(copy, i)]]
           Body(c, i) == IF i = 0 THEN empty ELSE Copy(c[i - 1], i)
           Recursion(c) == c = [i \in 0 .. n |-> Body(c, i)]
           copied == CHOOSE c : Recursion(c)
<1>1. n \in Nat /\ empty \in Copies
  OBVIOUS
<1>2. ASSUME NEW i \in 1 .. n, NEW copy \in Copies PROVE Copy(copy, i) \in Copies
  OBVIOUS
<1>3. Filter(seq, S) = copied[n]
  BY DEF Filter
<1> HIDE DEF n, Copies, empty, Copy
<1>4. step \in [1 .. n -> [Copies -> Copies]]
  BY <1>2
<1> HIDE DEF step
<1>5. PICK f \in [0 .. n -> Copies] : Recurses(f, n, empty, step)
  BY <1>1, <1>4, RecursionUpTo
<1>6. \A i \in 1 .. n : f[i] = Copy(f[i - 1], i)
  <2>1. \A i \in 1 .. n : f[i - 1] \in Copies
    BY <1>1
  <2>2. QED
    BY <1>5, <2>1 DEF step, Recurses
<1>7. \A i \in 0 .. n : f[i] = Body(f, i)
  BY <1>1, <1>5, <1>6 DEF Recurses
<1> HIDE DEF Body
<1>8. Recursion(f)
  BY <1>7
<1> HIDE DEF Recursion
<1>9. Recursion(copied)
  BY <1>8
<1> HIDE DEF copied
<1>10. DOMAIN copied = 0 .. n /\ \A i \in 0 .. n : copied[i] = Body(copied, i)
  BY <1>9 DEF Recursion
<1>11. copied[0] = empty /\ \A i \in 1 .. n : copied[i] = Copy(copied[i - 1], i)
  BY <1>1, <1>10 DEF Body
<1>12. \A i \in 0 .. n : copied[i] \in Copies
  <2> DEFINE Typed == {i \in 0 .. n : copied[i] \in Copies}
  <2>1. 0 \in Typed
    BY <1>1, <1>11
  <2>2. ASSUME NEW i \in 1 .. n, i - 1 \in Typed PROVE i \in Typed
    BY <1>1, <1>2, <1>11, <2>2
  <2> HIDE DEF Typed
  <2>3. \A i \in 0 .. n : i \in Typed
    BY <1>1, <2>1, <2>2, InductionUpTo
  <2>4. QED
    BY <2>3 DEF Typed
<1>13. copied \in [0 .. n -> Copies]
  BY <1>9, <1>10, <1>12 DEF Recursion
<1>14. copied \in [0 .. Len(seq) -> Seq(A)] /\ Filter(seq, S) = copied[Len(seq)]
  BY <1>3, <1>13 DEF Copies, n
<1>15. Copying(copied, seq, S)
  BY <1>11 DEF empty, n, Copy, Copying
<1>16. QED
  BY <1>14, <1>15

\* The elements of a sequence and one more at its end.
LEMMA RangeAppend ==
    ASSUME NEW A, NEW seq \in Seq(A), NEW e \in A
    PROVE  Range(Append(seq, e)) = Range(seq) \cup {e}
<1> DEFINE longer == Append(seq, e)
           n == Len(seq)
<1>1. /\ DOMAIN longer = 1 .. n + 1 /\ DOMAIN seq = 1 .. n /\ n \in Nat /\ longer[n + 1] = e
      /\ \A p \in 1 .. n : longer[p] = seq[p]
  OBVIOUS
<1> HIDE DEF longer, n
<1>2. Range(longer) = {longer[p] : p \in 1 .. n + 1} /\ Range(seq) = {seq[p] : p \in 1 .. n}
  BY <1>1 DEF Range
<1>3. {longer[p] : p \in 1 .. n + 1} = {longer[p] : p \in 1 .. n} \cup {longer[n + 1]}
  BY <1>1
<1>4. QED
  BY <1>1, <1>2, <1>3 DEF longer

\* The elements of a sequence and one more at its head, as by hlist_add_head.
LEMMA RangePrepend ==
    ASSUME NEW A, NEW seq \in Seq(A), NEW e \in A
    PROVE  <<e>> \o seq \in Seq(A) /\ Range(<<e>> \o seq) = Range(seq) \cup {e}
<1> DEFINE longer == <<e>> \o seq
           n == Len(seq)
<1>1. /\ longer \in Seq(A) /\ DOMAIN longer = 1 .. n + 1 /\ DOMAIN seq = 1 .. n /\ n \in Nat
      /\ longer[1] = e /\ \A p \in 1 .. n : longer[p + 1] = seq[p]
  OBVIOUS
<1> HIDE DEF longer, n
<1>2. \A p \in 1 .. n + 1 : p = 1 \/ (p - 1 \in 1 .. n /\ longer[p] = seq[p - 1])
  BY <1>1
<1>3. \A p \in 1 .. n : p + 1 \in 1 .. n + 1
  BY <1>1
<1>4. 1 \in 1 .. n + 1
  BY <1>1
<1>5. Range(longer) = Range(seq) \cup {e}
  BY <1>1, <1>2, <1>3, <1>4 DEF Range
<1>6. QED
  BY <1>1, <1>5 DEF longer

\* Filter keeps the elements in S and no others, in an order that stays increasing.
LEMMA FilterElements ==
    ASSUME NEW A, NEW seq \in Seq(A), NEW S
    PROVE  Filter(seq, S) \in Seq(A) /\ Range(Filter(seq, S)) = Range(seq) \cap S
<1>0. PICK n \in Nat : n = Len(seq)
  OBVIOUS
<1>1. PICK copied \in [0 .. n -> Seq(A)] :
            Filter(seq, S) = copied[n] /\ Copying(copied, seq, S)
  BY <1>0, FilterCopies
<1> DEFINE Done == {i \in 0 .. n : Range(copied[i]) = {seq[j] : j \in 1 .. i} \cap S}
<1>2. /\ Range(seq) = {seq[j] : j \in 1 .. n}
      /\ copied[0] = <<>>
      /\ \A i \in 1 .. n :
            copied[i] = IF seq[i] \in S THEN Append(copied[i - 1], seq[i]) ELSE copied[i - 1]
  <2>1. DOMAIN seq = 1 .. n
    BY <1>0
  <2>2. QED
    BY <1>0, <1>1, <2>1 DEF Range, Copying
<1>3. 0 \in Done
  BY <1>1, <1>2 DEF Range
<1>4. ASSUME NEW i \in 1 .. n, i - 1 \in Done PROVE i \in Done
  <2>1. copied[i - 1] \in Seq(A) /\ seq[i] \in A
    BY <1>0
  <2>2. {seq[j] : j \in 1 .. i} = {seq[j] : j \in 1 .. i - 1} \cup {seq[i]}
    BY <1>2
  <2>3. Range(Append(copied[i - 1], seq[i])) = Range(copied[i - 1]) \cup {seq[i]}
    BY <2>1, RangeAppend
  <2>4. i \in 0 .. n /\ Range(copied[i - 1]) = {seq[j] : j \in 1 .. i - 1} \cap S
    BY <1>4
  <2>5. Range(copied[i]) = {seq[j] : j \in 1 .. i} \cap S
    <3>1. CASE seq[i] \in S
      BY <1>2, <2>2, <2>3, <2>4, <3>1
    <3>2. CASE seq[i] \notin S
      BY <1>2, <2>2, <2>4, <3>2
    <3>3. QED
      BY <3>1, <3>2
  <2>6. QED
    BY <2>4, <2>5
<1> HIDE DEF Done
<1>5. n \in Done
  <2>1. \A i \in 0 .. n : i \in Done
    BY <1>2, <1>3, <1>4, InductionUpTo
  <2>2. QED
    BY <1>2, <2>1
<1>6. QED
  BY <1>1, <1>2, <1>5 DEF Done

Increasing(seq) == \A p, q \in DOMAIN seq : p < q => seq[p] < seq[q]

\* A copy of an increasing sequence is increasing.
LEMMA FilterIncreasing ==
    ASSUME NEW seq \in Seq(Nat), Increasing(seq), NEW S
    PROVE  Increasing(Filter(seq, S))
<1>0. PICK n \in Nat : n = Len(seq)
  OBVIOUS
<1>1. PICK copied \in [0 .. n -> Seq(Nat)] :
            Filter(seq, S) = copied[n] /\ Copying(copied, seq, S)
  BY <1>0, FilterCopies
<1> DEFINE Done == {i \in 0 .. n :
                        /\ Increasing(copied[i])
                        /\ \A p \in DOMAIN copied[i] : \E j \in 1 .. i : copied[i][p] = seq[j]}
<1>2. /\ n \in Nat /\ DOMAIN seq = 1 .. n /\ \A j \in 1 .. n : seq[j] \in Nat
      /\ copied[0] = <<>>
      /\ \A i \in 1 .. n :
            copied[i] = IF seq[i] \in S THEN Append(copied[i - 1], seq[i]) ELSE copied[i - 1]
  <2>1. DOMAIN seq = 1 .. n /\ \A j \in 1 .. n : seq[j] \in Nat
    BY <1>0
  <2>2. QED
    BY <1>0, <1>1, <2>1 DEF Copying
<1>3. 0 \in Done
  BY <1>1, <1>2 DEF Increasing
<1>4. ASSUME NEW i \in 1 .. n, i - 1 \in Done PROVE i \in Done
  <2> DEFINE copy == copied[i - 1]
  <2>1. copy \in Seq(Nat) /\ seq[i] \in Nat
    BY <1>2
  <2>2. Increasing(copy) /\ \A p \in DOMAIN copy : \E j \in 1 .. i - 1 : copy[p] = seq[j]
    BY <1>4
  <2>3. \A p \in DOMAIN copy : copy[p] < seq[i]
    <3>1. ASSUME NEW j \in 1 .. i - 1 PROVE seq[j] < seq[i]
      <4>1. j \in DOMAIN seq /\ i \in DOMAIN seq /\ j < i
        BY <1>2
      <4>2. QED
        BY <4>1 DEF Increasing
    <3> HIDE DEF copy
    <3>2. QED
      BY <2>2, <3>1
  <2>4. CASE seq[i] \in S
    <3>1. copied[i] = Append(copy, seq[i])
      BY <1>2, <2>4
    <3> HIDE DEF copy
    <3>2. /\ DOMAIN copied[i] = 1 .. Len(copy) + 1 /\ DOMAIN copy = 1 .. Len(copy)
          /\ Len(copy) \in Nat /\ copied[i][Len(copy) + 1] = seq[i]
          /\ \A p \in 1 .. Len(copy) : copied[i][p] = copy[p]
      BY <2>1, <3>1
    <3>3. ASSUME NEW p \in DOMAIN copied[i], NEW q \in DOMAIN copied[i], p < q
          PROVE  copied[i][p] < copied[i][q]
      <4>0. p \in 1 .. Len(copy) + 1 /\ q \in 1 .. Len(copy) + 1 /\ Len(copy) \in Nat
        BY <3>2
      <4>1. p \in DOMAIN copy /\ copied[i][p] = copy[p]
        <5>1. p \in 1 .. Len(copy)
          BY <3>3, <4>0
        <5>2. QED
          BY <3>2, <5>1
      <4>2. CASE q = Len(copy) + 1
        BY <2>3, <3>2, <4>1, <4>2
      <4>3. CASE q # Len(copy) + 1
        <5>0. q \in 1 .. Len(copy)
          BY <4>0, <4>3
        <5>1. q \in DOMAIN copy /\ copied[i][q] = copy[q]
          BY <3>2, <5>0
        <5>2. QED
          BY <2>2, <3>3, <4>1, <5>1 DEF Increasing
      <4>4. QED
        BY <4>2, <4>3
    <3>4. ASSUME NEW p \in DOMAIN copied[i] PROVE \E j \in 1 .. i : copied[i][p] = seq[j]
      <4>1. CASE p = Len(copy) + 1
        BY <3>2, <4>1
      <4>2. CASE p # Len(copy) + 1
        <5>1. p \in DOMAIN copy /\ copied[i][p] = copy[p]
          BY <3>2, <4>2
        <5>2. PICK j \in 1 .. i - 1 : copy[p] = seq[j]
          BY <2>2, <5>1
        <5>3. j \in 1 .. i
          BY <1>2
        <5>4. QED
          BY <5>1, <5>2, <5>3
      <4>3. QED
        BY <4>1, <4>2
    <3>5. Increasing(copied[i])
      BY <3>3 DEF Increasing
    <3>6. QED
      BY <1>2, <3>4, <3>5
  <2>5. CASE seq[i] \notin S
    <3>1. copied[i] = copy
      BY <1>2, <2>5
    <3>2. QED
      BY <1>2, <2>2, <3>1
  <2>6. QED
    BY <2>4, <2>5
<1> HIDE DEF Done
<1>5. n \in Done
  <2>1. \A i \in 0 .. n : i \in Done
    BY <1>2, <1>3, <1>4, InductionUpTo
  <2>2. QED
    BY <1>2, <2>1
<1>6. QED
  BY <1>1, <1>5 DEF Done

-----------------------------------------------------------------------------
(* The tasks of a table and its duration.                                  *)

\* The task arrays that table_scheduler_init may be given.
TaskSequences == Seq(TaskStruct)

\* table_task_array holds the tasks that have the id of the table.
LEMMA TableTaskSet ==
    ASSUME NEW tasks \in TaskSequences, NEW tbl
    PROVE  /\ TableArray(tasks, tbl) \in Seq(DOMAIN tasks)
           /\ TableTasks(tasks, tbl) = {t \in DOMAIN tasks : tasks[t].table_id = tbl}
<1> DEFINE indices == [t \in DOMAIN tasks |-> t]
           own == {t \in DOMAIN tasks : tasks[t].table_id = tbl}
<1>1. DOMAIN tasks = 1 .. Len(tasks) /\ Len(tasks) \in Nat
  BY DEF TaskSequences
<1>2. indices \in Seq(DOMAIN tasks)
  BY <1>1
<1>3. Range(indices) = DOMAIN tasks
  BY DEF Range
<1> HIDE DEF indices, own
<1>4. Filter(indices, own) \in Seq(DOMAIN tasks) /\ Range(Filter(indices, own)) = own
  <2>1. own \subseteq DOMAIN tasks
    BY DEF own
  <2>2. Filter(indices, own) \in Seq(DOMAIN tasks)
        /\ Range(Filter(indices, own)) = Range(indices) \cap own
    BY <1>2, FilterElements
  <2>3. QED
    BY <1>3, <2>1, <2>2
<1>5. QED
  BY <1>4 DEF TableArray, TableTasks, indices, own

\* A period is never 0, so LCM and the tests for due tasks may divide by it.
LEMMA PeriodPositive ==
    ASSUME NEW tasks \in TaskSequences, NEW t \in DOMAIN tasks
    PROVE  tasks[t].period \in Nat \ {0}
<1>1. tasks[t] \in TaskStruct
  BY DEF TaskSequences
<1>2. QED
  BY <1>1 DEF TaskStruct

\* The durations of the first tasks of an array.
DurationSteps(duration, tasks, array) ==
    /\ duration[0] = 1
    /\ \A i \in 1 .. Len(array) :
         duration[i] = LCM(duration[i - 1], tasks[array[i]].period)

\* The loop over the array as a recursion in steps.
LEMMA DurationRecursion ==
    ASSUME NEW tasks \in TaskSequences, NEW tbl
    PROVE  LET array == TableArray(tasks, tbl)
           IN  \E duration \in [0 .. Len(array) -> Nat \ {0}] :
                   Duration(tasks, tbl) = duration[Len(array)]
                   /\ DurationSteps(duration, tasks, array)
<1> DEFINE array == TableArray(tasks, tbl)
           n == Len(array)
           Positive == Nat \ {0}
           Next(d, i) == LCM(d, tasks[array[i]].period)
           step == [i \in 1 .. n |-> [d \in Positive |-> Next(d, i)]]
           Body(c, i) == IF i = 0 THEN 1 ELSE Next(c[i - 1], i)
           Recursion(c) == c = [i \in 0 .. n |-> Body(c, i)]
           duration == CHOOSE c : Recursion(c)
<1>1. n \in Nat /\ 1 \in Positive /\ \A i \in 1 .. n : array[i] \in DOMAIN tasks
  <2>1. array \in Seq(DOMAIN tasks)
    BY TableTaskSet
  <2> HIDE DEF array
  <2>2. QED
    BY <2>1
<1>2. ASSUME NEW i \in 1 .. n, NEW d \in Positive PROVE Next(d, i) \in Positive
  <2>1. tasks[array[i]].period \in Positive
    BY <1>1, PeriodPositive
  <2>2. QED
    BY <2>1, LcmPositive
<1>3. Duration(tasks, tbl) = duration[n]
  BY DEF Duration, Durations
<1> HIDE DEF n, array, Positive, Next
<1>4. step \in [1 .. n -> [Positive -> Positive]]
  BY <1>2
<1> HIDE DEF step
<1>5. PICK f \in [0 .. n -> Positive] : Recurses(f, n, 1, step)
  BY <1>1, <1>4, RecursionUpTo
<1>6. \A i \in 1 .. n : f[i] = Next(f[i - 1], i)
  <2>1. \A i \in 1 .. n : f[i - 1] \in Positive
    BY <1>1
  <2>2. QED
    BY <1>5, <2>1 DEF step, Recurses
<1>7. \A i \in 0 .. n : f[i] = Body(f, i)
  BY <1>1, <1>5, <1>6 DEF Recurses
<1> HIDE DEF Body
<1>8. Recursion(f)
  BY <1>7
<1> HIDE DEF Recursion
<1>9. Recursion(duration)
  BY <1>8
<1> HIDE DEF duration
<1>10. DOMAIN duration = 0 .. n /\ \A i \in 0 .. n : duration[i] = Body(duration, i)
  BY <1>9 DEF Recursion
<1>11. duration[0] = 1 /\ \A i \in 1 .. n : duration[i] = Next(duration[i - 1], i)
  BY <1>1, <1>10 DEF Body
<1>12. \A i \in 0 .. n : duration[i] \in Positive
  <2> DEFINE Typed == {i \in 0 .. n : duration[i] \in Positive}
  <2>1. 0 \in Typed
    BY <1>1, <1>11
  <2>2. ASSUME NEW i \in 1 .. n, i - 1 \in Typed PROVE i \in Typed
    BY <1>1, <1>2, <1>11, <2>2
  <2> HIDE DEF Typed
  <2>3. \A i \in 0 .. n : i \in Typed
    BY <1>1, <2>1, <2>2, InductionUpTo
  <2>4. QED
    BY <2>3 DEF Typed
<1>13. duration \in [0 .. n -> Positive]
  BY <1>9, <1>10, <1>12 DEF Recursion
<1>14. DurationSteps(duration, tasks, array)
  BY <1>11 DEF n, Next, DurationSteps
<1>15. QED
  BY <1>3, <1>13, <1>14 DEF n, array, Positive

\* The duration of a table is positive, whatever the periods are.
LEMMA DurationPositive ==
    ASSUME NEW tasks \in TaskSequences, NEW tbl
    PROVE  Duration(tasks, tbl) \in Nat \ {0}
<1> DEFINE array == TableArray(tasks, tbl)
<1>1. PICK duration \in [0 .. Len(array) -> Nat \ {0}] :
            /\ Duration(tasks, tbl) = duration[Len(array)]
            /\ DurationSteps(duration, tasks, array)
  BY DurationRecursion
<1>2. Len(array) \in Nat
  BY TableTaskSet
<1> HIDE DEF array
<1>3. QED
  BY <1>1, <1>2

\* If the periods are below 55 or divide one another, the duration of a table is a common
\* multiple of them and divides every other.
LEMMA DurationLeast ==
    ASSUME NEW tasks \in TaskSequences, NEW tbl,
           \/ \A t \in TableTasks(tasks, tbl) : tasks[t].period < 55
           \/ \A t, u \in TableTasks(tasks, tbl) :
                tasks[t].period % tasks[u].period = 0 \/ tasks[u].period % tasks[t].period = 0
    PROVE  /\ \A t \in TableTasks(tasks, tbl) : Duration(tasks, tbl) % tasks[t].period = 0
           /\ \A n \in Nat : (\A t \in TableTasks(tasks, tbl) : n % tasks[t].period = 0)
                             => n % Duration(tasks, tbl) = 0
<1> DEFINE array == TableArray(tasks, tbl)
           period(i) == tasks[array[i]].period
<1>1. array \in Seq(DOMAIN tasks) /\ TableTasks(tasks, tbl) = Range(array)
  BY TableTaskSet DEF TableTasks
<1>2. PICK m \in Nat : m = Len(array)
  BY <1>1
<1>3. PICK duration \in [0 .. m -> Nat \ {0}] :
            Duration(tasks, tbl) = duration[m] /\ DurationSteps(duration, tasks, array)
  BY <1>2, DurationRecursion
<1> HIDE DEF array
<1>4. /\ Range(array) = {array[i] : i \in 1 .. m}
      /\ \A i \in 1 .. m : array[i] \in DOMAIN tasks
  <2>1. DOMAIN array = 1 .. m
    BY <1>1, <1>2
  <2>2. QED
    BY <1>1, <2>1 DEF Range
<1>5. /\ \A i \in 1 .. m : period(i) \in Nat \ {0}
      /\ \/ \A i \in 1 .. m : period(i) < 55
         \/ \A i, j \in 1 .. m : period(i) % period(j) = 0 \/ period(j) % period(i) = 0
  <2>1. \A i \in 1 .. m : period(i) \in Nat \ {0}
    BY <1>4, PeriodPositive
  <2>2. \A i \in 1 .. m : array[i] \in TableTasks(tasks, tbl)
    BY <1>1, <1>4
  <2>3. QED
    BY <2>1, <2>2
<1> HIDE DEF period
<1>6. duration[0] = 1 /\ \A i \in 1 .. m : duration[i] = LCM(duration[i - 1], period(i))
  BY <1>2, <1>3 DEF DurationSteps, period
<1>7. \A i \in 1 .. m :
            \/ duration[i - 1] < 55 \/ period(i) < 55
            \/ duration[i - 1] % period(i) = 0 \/ period(i) % duration[i - 1] = 0
  <2>1. CASE \A i \in 1 .. m : period(i) < 55
    BY <2>1
  <2>2. CASE \A i, j \in 1 .. m : period(i) % period(j) = 0 \/ period(j) % period(i) = 0
    <3> DEFINE IsPeriod(i) == duration[i] = 1 \/ \E j \in 1 .. m : duration[i] = period(j)
               Periods == {i \in 0 .. m : IsPeriod(i)}
    <3>1. ASSUME NEW i \in 1 .. m, IsPeriod(i - 1)
          PROVE  duration[i - 1] % period(i) = 0 \/ period(i) % duration[i - 1] = 0
      <4>1. period(i) % 1 = 0
        BY <1>5
      <4>2. QED
        BY <2>2, <3>1, <4>1
    <3>2. ASSUME NEW i \in 1 .. m, IsPeriod(i - 1) PROVE IsPeriod(i)
      <4>1. duration[i - 1] \in Nat \ {0}
        BY <1>3
      <4>2. duration[i] = duration[i - 1] \/ duration[i] = period(i)
        BY <1>5, <1>6, <3>1, <3>2, <4>1, LcmOfMultiple
      <4>3. QED
        BY <3>2, <4>2
    <3>3. 0 \in Periods
      BY <1>6
    <3>4. \A i \in 1 .. m : i - 1 \in Periods => i \in Periods
      BY <3>2
    <3> HIDE DEF Periods
    <3>5. \A i \in 0 .. m : i \in Periods
      BY <3>3, <3>4, InductionUpTo
    <3>6. \A i \in 1 .. m : IsPeriod(i - 1)
      <4>1. \A i \in 1 .. m : i - 1 \in 0 .. m
        OBVIOUS
      <4>2. QED
        BY <3>5, <4>1 DEF Periods
    <3>7. QED
      BY <3>1, <3>6
  <2>3. QED
    BY <1>5, <2>1, <2>2
<1>8. \A i \in 1 .. m :
            /\ duration[i - 1] \in Nat \ {0} /\ duration[i] \in Nat \ {0}
            /\ duration[i] % duration[i - 1] = 0 /\ duration[i] % period(i) = 0
            /\ \A n \in Nat :
                 n % duration[i - 1] = 0 /\ n % period(i) = 0 => n % duration[i] = 0
  <2> SUFFICES ASSUME NEW i \in 1 .. m
               PROVE  /\ duration[i - 1] \in Nat \ {0} /\ duration[i] \in Nat \ {0}
                      /\ duration[i] % duration[i - 1] = 0 /\ duration[i] % period(i) = 0
                      /\ \A n \in Nat : n % duration[i - 1] = 0 /\ n % period(i) = 0
                                        => n % duration[i] = 0
    OBVIOUS
  <2>1. i - 1 \in 0 .. m /\ i \in 0 .. m
    OBVIOUS
  <2>2. PICK d \in Nat \ {0} : d = duration[i - 1]
    BY <2>1
  <2>3. PICK p \in Nat \ {0} : p = period(i)
    BY <1>5
  <2>4. /\ LCM(d, p) % d = 0 /\ LCM(d, p) % p = 0
        /\ \A n \in Nat : n % d = 0 /\ n % p = 0 => n % LCM(d, p) = 0
    BY <1>7, <2>2, <2>3, LcmIsLeast
  <2>5. duration[i] = LCM(d, p)
    BY <1>6, <2>2, <2>3
  <2>6. QED
    BY <2>1, <2>2, <2>3, <2>4, <2>5
<1>9. \A i \in 1 .. m : duration[m] % period(i) = 0
  <2> DEFINE Common == {i \in 0 .. m : \A j \in 1 .. i : duration[i] % period(j) = 0}
  <2>1. 0 \in Common
    OBVIOUS
  <2>2. ASSUME NEW i \in 1 .. m, i - 1 \in Common PROVE i \in Common
    <3>1. ASSUME NEW j \in 1 .. i PROVE duration[i] % period(j) = 0
      <4>1. CASE j = i
        BY <1>8, <4>1
      <4>2. CASE j # i
        <5>1. j \in 1 .. i - 1 /\ j \in 1 .. m
          BY <4>2
        <5>2. duration[i - 1] % period(j) = 0
          BY <2>2, <5>1
        <5>3. /\ duration[i - 1] \in Nat \ {0} /\ duration[i] \in Int
              /\ duration[i] % duration[i - 1] = 0 /\ period(j) \in Nat \ {0}
          BY <1>5, <1>8, <5>1
        <5>4. QED
          BY <5>2, <5>3, DividesTransitive
      <4>3. QED
        BY <4>1, <4>2
    <3>2. i \in 0 .. m
      OBVIOUS
    <3>3. QED
      BY <3>1, <3>2
  <2> HIDE DEF Common
  <2>3. \A i \in 0 .. m : i \in Common
    BY <2>1, <2>2, InductionUpTo
  <2>4. m \in Common
    BY <2>3
  <2>5. QED
    BY <2>4 DEF Common
<1>10. ASSUME NEW n \in Nat, \A i \in 1 .. m : n % period(i) = 0
      PROVE  n % duration[m] = 0
  <2> DEFINE Least == {i \in 0 .. m : n % duration[i] = 0}
  <2>1. 0 \in Least
    <3>1. n % 1 = 0
      OBVIOUS
    <3>2. QED
      BY <1>6, <3>1
  <2>2. ASSUME NEW i \in 1 .. m, i - 1 \in Least PROVE i \in Least
    <3>1. n % duration[i - 1] = 0 /\ i \in 0 .. m
      BY <2>2
    <3>2. QED
      BY <1>8, <1>10, <3>1
  <2> HIDE DEF Least
  <2>3. \A i \in 0 .. m : i \in Least
    BY <2>1, <2>2, InductionUpTo
  <2>4. m \in Least
    BY <2>3
  <2>5. QED
    BY <2>4 DEF Least
<1>11. \A t \in TableTasks(tasks, tbl) : \E i \in 1 .. m : tasks[t].period = period(i)
  BY <1>1, <1>4 DEF period
<1>12. \A i \in 1 .. m : \E t \in TableTasks(tasks, tbl) : tasks[t].period = period(i)
  BY <1>1, <1>4 DEF period
<1>13. \A t \in TableTasks(tasks, tbl) : Duration(tasks, tbl) % tasks[t].period = 0
  BY <1>3, <1>9, <1>11
<1>14. ASSUME NEW n \in Nat, \A t \in TableTasks(tasks, tbl) : n % tasks[t].period = 0
       PROVE  n % Duration(tasks, tbl) = 0
  <2>1. \A i \in 1 .. m : n % period(i) = 0
    BY <1>12, <1>14
  <2>2. QED
    BY <1>3, <1>10, <2>1
<1>15. QED
  BY <1>13, <1>14

-----------------------------------------------------------------------------
(* The expiry points.                                                      *)

\* The tasks of a table that are due at a time of its round.
DueTasks(tasks, tbl, time) ==
    {t \in TableTasks(tasks, tbl) : time % tasks[t].period = 0}

\* Due lists the tasks that are due.
LEMMA DueElements ==
    ASSUME NEW tasks \in TaskSequences, NEW tbl, NEW time
    PROVE  /\ Due(tasks, tbl, time) \in Seq(DOMAIN tasks)
           /\ Range(Due(tasks, tbl, time)) = DueTasks(tasks, tbl, time)
           /\ DueTasks(tasks, tbl, time) \subseteq DOMAIN tasks
<1> DEFINE array == TableArray(tasks, tbl)
           due == {t \in DOMAIN tasks : time % tasks[t].period = 0}
<1>1. array \in Seq(DOMAIN tasks) /\ TableTasks(tasks, tbl) \subseteq DOMAIN tasks
  BY TableTaskSet
<1>2. /\ Filter(array, due) \in Seq(DOMAIN tasks)
      /\ Range(Filter(array, due)) = Range(array) \cap due
  <2> HIDE DEF array, due
  <2>1. QED
    BY <1>1, FilterElements
<1>3. Range(array) = TableTasks(tasks, tbl)
  BY DEF TableTasks
<1>4. QED
  BY <1>1, <1>2, <1>3 DEF Due, DueTasks

\* The array of a table, and what is due of it, list the tasks by their index, each once.
LEMMA DueIncreasing ==
    ASSUME NEW tasks \in TaskSequences, NEW tbl, NEW time
    PROVE  Increasing(Due(tasks, tbl, time))
<1> DEFINE indices == [t \in DOMAIN tasks |-> t]
           own == {t \in DOMAIN tasks : tasks[t].table_id = tbl}
           due == {t \in DOMAIN tasks : time % tasks[t].period = 0}
           array == Filter(indices, own)
<1>1. indices \in Seq(Nat) /\ Increasing(indices)
  <2>1. DOMAIN tasks = 1 .. Len(tasks) /\ Len(tasks) \in Nat
    BY DEF TaskSequences
  <2>2. QED
    BY <2>1 DEF Increasing
<1>2. Due(tasks, tbl, time) = Filter(array, due)
  BY DEF Due, TableArray
<1> HIDE DEF indices, own, due
<1>3. array \in Seq(Nat) /\ Increasing(array)
  BY <1>1, FilterElements, FilterIncreasing
<1> HIDE DEF array
<1>4. QED
  BY <1>2, <1>3, FilterIncreasing

Distinct(seq) == \A p, q \in DOMAIN seq : p # q => seq[p] # seq[q]

\* A node that is not in a list yet may be put in front of it.
LEMMA DistinctPrepend ==
    ASSUME NEW A, NEW seq \in Seq(A), Distinct(seq), NEW e \in A, e \notin Range(seq)
    PROVE  Distinct(<<e>> \o seq)
<1> DEFINE longer == <<e>> \o seq
           n == Len(seq)
<1>1. /\ n \in Nat /\ DOMAIN longer = 1 .. n + 1 /\ DOMAIN seq = 1 .. n
      /\ longer[1] = e /\ \A p \in 2 .. n + 1 : p - 1 \in 1 .. n /\ longer[p] = seq[p - 1]
  OBVIOUS
<1>2. \A p \in 1 .. n : seq[p] # e
  BY <1>1 DEF Range
<1>3. \A p, q \in 1 .. n : p # q => seq[p] # seq[q]
  BY <1>1 DEF Distinct
<1> HIDE DEF longer, n
<1>4. ASSUME NEW p \in 1 .. n + 1, NEW q \in 1 .. n + 1, p # q PROVE longer[p] # longer[q]
  <2>1. CASE p = 1
    <3>1. q \in 2 .. n + 1
      BY <1>1, <1>4, <2>1
    <3>2. QED
      BY <1>1, <1>2, <2>1, <3>1
  <2>2. CASE q = 1
    <3>1. p \in 2 .. n + 1
      BY <1>1, <1>4, <2>2
    <3>2. QED
      BY <1>1, <1>2, <2>2, <3>1
  <2>3. CASE p # 1 /\ q # 1
    <3>1. p \in 2 .. n + 1 /\ q \in 2 .. n + 1 /\ p - 1 # q - 1
      BY <1>1, <1>4, <2>3
    <3>2. QED
      BY <1>1, <1>3, <3>1
  <2>4. QED
    BY <2>1, <2>2, <2>3
<1>5. QED
  BY <1>1, <1>4 DEF Distinct, longer

\* The points that are filled one due task after the other.
PointsOf(tasks, time) ==
    [offset : {time}, tasks : Seq(DOMAIN tasks), events : Seq(DOMAIN tasks)]

Filling(point, tasks, tbl, time, due) ==
    /\ point[0] = [offset |-> time, tasks |-> <<>>, events |-> <<>>]
    /\ \A i \in 1 .. Len(due) : point[i] = Insert(tasks, tbl, point[i - 1], due[i])

IsBasic(tasks, t) == tasks[t].task_type \in BasicTypes
TestsExtended(tasks, tbl) == tasks[tbl + 1].task_type \in ExtendedTypes

\* What an insertion of t does to the two lists of a point.
Inserted(next, point, tasks, tbl, t) ==
    /\ Range(next.events) =
            Range(point.events) \cup (IF TestsExtended(tasks, tbl) THEN {t} ELSE {})
    /\ ~IsBasic(tasks, t) => next.tasks = point.tasks
    /\ IsBasic(tasks, t) /\ TestsExtended(tasks, tbl) => next.tasks = next.events
    /\ IsBasic(tasks, t) /\ ~TestsExtended(tasks, tbl)
            => Range(next.tasks) = Range(point.tasks) \cup {t}

\* No task is in a list of a point twice.
ListedOnce(point) == Distinct(point.tasks) /\ Distinct(point.events)

\* Insert adds a task to the lists of a point as Inserted says.
LEMMA InsertFields ==
    ASSUME NEW tasks \in TaskSequences, NEW tbl, NEW time,
           NEW point \in PointsOf(tasks, time), NEW t \in DOMAIN tasks
    PROVE  /\ Insert(tasks, tbl, point, t) \in PointsOf(tasks, time)
           /\ Inserted(Insert(tasks, tbl, point, t), point, tasks, tbl, t)
           /\ ListedOnce(point) /\ t \notin Range(point.tasks) \cup Range(point.events)
                => ListedOnce(Insert(tasks, tbl, point, t))
<1> DEFINE Indices == DOMAIN tasks
<1>1. point.offset = time /\ point.tasks \in Seq(Indices) /\ point.events \in Seq(Indices)
      /\ point = [offset |-> time, tasks |-> point.tasks, events |-> point.events]
  BY DEF PointsOf
<1>2. ASSUME NEW list \in Seq(Indices)
      PROVE  <<t>> \o list \in Seq(Indices) /\ Range(<<t>> \o list) = Range(list) \cup {t}
  BY RangePrepend
<1> DEFINE pushed == <<t>> \o point.events
           listed == <<t>> \o point.tasks
           next == Insert(tasks, tbl, point, t)
<1>3. /\ pushed \in Seq(Indices) /\ Range(pushed) = Range(point.events) \cup {t}
      /\ listed \in Seq(Indices) /\ Range(listed) = Range(point.tasks) \cup {t}
  BY <1>1, <1>2
<1>4. ListedOnce(point) /\ t \notin Range(point.tasks) \cup Range(point.events)
         => Distinct(pushed) /\ Distinct(listed)
  BY <1>1, DistinctPrepend DEF ListedOnce
<1>5. /\ next.offset = time
      /\ next.events = IF TestsExtended(tasks, tbl) THEN pushed ELSE point.events
      /\ next.tasks = IF ~IsBasic(tasks, t) THEN point.tasks
                      ELSE IF TestsExtended(tasks, tbl) THEN next.events ELSE listed
      /\ next = [offset |-> next.offset, tasks |-> next.tasks, events |-> next.events]
  BY <1>1 DEF Insert, TestsExtended, IsBasic
<1> HIDE DEF next, pushed, listed, Indices
<1>6. next.events \in Seq(Indices) /\ next.tasks \in Seq(Indices)
  BY <1>1, <1>3, <1>5
<1>7. next \in PointsOf(tasks, time)
  BY <1>5, <1>6 DEF PointsOf, Indices
<1>8. Range(next.events) = Range(point.events)
                           \cup (IF TestsExtended(tasks, tbl) THEN {t} ELSE {})
  BY <1>3, <1>5
<1>9. Inserted(next, point, tasks, tbl, t)
  BY <1>3, <1>5, <1>8 DEF Inserted
<1>10. ListedOnce(point) /\ t \notin Range(point.tasks) \cup Range(point.events)
         => ListedOnce(next)
  BY <1>5, <1>4 DEF ListedOnce
<1>11. QED
  BY <1>7, <1>9, <1>10 DEF next

\* The loop over the due tasks as a recursion in steps.
LEMMA PointRecursion ==
    ASSUME NEW tasks \in TaskSequences, NEW tbl, NEW time
    PROVE  LET due == Due(tasks, tbl, time)
           IN  \E point \in [0 .. Len(due) -> PointsOf(tasks, time)] :
                   Point(tasks, tbl, time) = point[Len(due)]
                   /\ Filling(point, tasks, tbl, time, due)
<1> DEFINE due == Due(tasks, tbl, time)
           n == Len(due)
           Points == PointsOf(tasks, time)
           empty == [offset |-> time, tasks |-> <<>>, events |-> <<>>]
           Next(p, i) == Insert(tasks, tbl, p, due[i])
           step == [i \in 1 .. n |-> [p \in Points |-> Next(p, i)]]
           Body(c, i) == IF i = 0 THEN empty ELSE Next(c[i - 1], i)
           Recursion(c) == c = [i \in 0 .. n |-> Body(c, i)]
           point == CHOOSE c : Recursion(c)
<1>1. n \in Nat /\ empty \in Points /\ \A i \in 1 .. n : due[i] \in DOMAIN tasks
  <2>1. due \in Seq(DOMAIN tasks)
    BY DueElements
  <2> HIDE DEF due
  <2>2. QED
    BY <2>1 DEF PointsOf
<1>2. ASSUME NEW i \in 1 .. n, NEW p \in Points PROVE Next(p, i) \in Points
  BY <1>1, InsertFields
<1>3. Point(tasks, tbl, time) = point[n]
  BY DEF Point
<1> HIDE DEF n, due, Points, empty, Next
<1>4. step \in [1 .. n -> [Points -> Points]]
  BY <1>2
<1> HIDE DEF step
<1>5. PICK f \in [0 .. n -> Points] : Recurses(f, n, empty, step)
  BY <1>1, <1>4, RecursionUpTo
<1>6. \A i \in 1 .. n : f[i] = Next(f[i - 1], i)
  <2>1. \A i \in 1 .. n : f[i - 1] \in Points
    BY <1>1
  <2>2. QED
    BY <1>5, <2>1 DEF step, Recurses
<1>7. \A i \in 0 .. n : f[i] = Body(f, i)
  BY <1>1, <1>5, <1>6 DEF Recurses
<1> HIDE DEF Body
<1>8. Recursion(f)
  BY <1>7
<1> HIDE DEF Recursion
<1>9. Recursion(point)
  BY <1>8
<1> HIDE DEF point
<1>10. DOMAIN point = 0 .. n /\ \A i \in 0 .. n : point[i] = Body(point, i)
  BY <1>9 DEF Recursion
<1>11. point[0] = empty /\ \A i \in 1 .. n : point[i] = Next(point[i - 1], i)
  <2>1. 0 \in 0 .. n /\ \A i \in 1 .. n : i \in 0 .. n /\ i # 0
    BY <1>1
  <2>2. point[0] = Body(point, 0) /\ \A i \in 1 .. n : point[i] = Body(point, i)
    BY <1>10, <2>1
  <2>3. QED
    BY <2>1, <2>2 DEF Body
<1>12. \A i \in 0 .. n : point[i] \in Points
  <2> DEFINE Typed == {i \in 0 .. n : point[i] \in Points}
  <2>1. 0 \in Typed
    BY <1>1, <1>11
  <2>2. ASSUME NEW i \in 1 .. n, i - 1 \in Typed PROVE i \in Typed
    BY <1>1, <1>2, <1>11, <2>2
  <2> HIDE DEF Typed
  <2>3. \A i \in 0 .. n : i \in Typed
    BY <1>1, <2>1, <2>2, InductionUpTo
  <2>4. QED
    BY <2>3 DEF Typed
<1>13. point \in [0 .. n -> Points]
  BY <1>9, <1>10, <1>12 DEF Recursion
<1>14. Filling(point, tasks, tbl, time, due)
  BY <1>11 DEF n, Next, empty, Filling
<1>15. QED
  BY <1>3, <1>13, <1>14 DEF n, due, Points

\* The list of a point that the scheduler thread enqueues has only tasks that are due and
\* every basic one of them, each once, and no extended task unless the test finds one.
LEMMA PointTasks ==
    ASSUME NEW tasks \in TaskSequences, NEW tbl, NEW time
    PROVE  LET point == Point(tasks, tbl, time)
               due == DueTasks(tasks, tbl, time)
           IN  /\ point \in PointsOf(tasks, time)
               /\ Distinct(point.tasks) /\ Range(point.tasks) \subseteq due
               /\ {t \in due : IsBasic(tasks, t)} \subseteq Range(point.tasks)
               /\ ~TestsExtended(tasks, tbl) => \A t \in Range(point.tasks) : IsBasic(tasks, t)
<1> DEFINE due == Due(tasks, tbl, time)
           n == Len(due)
           First(i) == {due[j] : j \in 1 .. i}
<1>1. PICK point \in [0 .. n -> PointsOf(tasks, time)] :
            Point(tasks, tbl, time) = point[n] /\ Filling(point, tasks, tbl, time, due)
  BY PointRecursion
<1>2. n \in Nat /\ \A i \in 1 .. n : due[i] \in DOMAIN tasks
  BY DueElements
<1>3. Range(due) = First(n) /\ Range(due) = DueTasks(tasks, tbl, time)
  <2>1. DOMAIN due = 1 .. n
    BY DueElements
  <2>2. QED
    BY <2>1, DueElements DEF Range
<1>4. \A j, i \in 1 .. n : j < i => due[j] < due[i] /\ due[j] \in Nat
  <2>1. Increasing(due) /\ DOMAIN due = 1 .. n /\ DOMAIN tasks \subseteq Nat
    BY DueIncreasing, DueElements DEF TaskSequences
  <2>2. QED
    BY <1>2, <2>1 DEF Increasing
<1>5. /\ point[0] = [offset |-> time, tasks |-> <<>>, events |-> <<>>]
      /\ \A i \in 1 .. n : point[i] = Insert(tasks, tbl, point[i - 1], due[i])
  BY <1>1 DEF Filling
<1> HIDE DEF due, n, First
<1> DEFINE Fine(i) ==
               /\ TestsExtended(tasks, tbl) => Range(point[i].events) = First(i)
               /\ Range(point[i].tasks) \subseteq First(i)
               /\ {t \in First(i) : IsBasic(tasks, t)} \subseteq Range(point[i].tasks)
               /\ ~TestsExtended(tasks, tbl) =>
                    \A t \in Range(point[i].tasks) : IsBasic(tasks, t)
           Once(i) == ListedOnce(point[i]) /\ Range(point[i].events) \subseteq First(i)
           Filled == {i \in 0 .. n : Fine(i) /\ Once(i)}
<1>6. 0 \in Filled
  <2>1. First(0) = {}
    BY DEF First
  <2>2. Range(<<>>) = {}
    BY DEF Range
  <2>3. point[0].tasks = <<>> /\ point[0].events = <<>>
    BY <1>5
  <2>4. Fine(0)
    BY <2>1, <2>2, <2>3
  <2>5. Once(0)
    BY <2>1, <2>2, <2>3 DEF ListedOnce, Distinct
  <2>6. QED
    BY <1>2, <2>4, <2>5
<1>7. ASSUME NEW i \in 1 .. n, i - 1 \in Filled PROVE i \in Filled
  <2>1. First(i) = First(i - 1) \cup {due[i]}
    <3>1. i \in Nat /\ 1 .. i = (1 .. i - 1) \cup {i}
      BY <1>2
    <3>2. QED
      BY <3>1 DEF First
  <2>2. Fine(i - 1) /\ Once(i - 1) /\ i \in 0 .. n /\ i - 1 \in 0 .. n
    BY <1>2, <1>7
  <2>3. PICK t \in DOMAIN tasks : t = due[i]
    BY <1>2
  <2>4. PICK last \in PointsOf(tasks, time) : last = point[i - 1]
    BY <2>2
  <2> DEFINE next == Insert(tasks, tbl, last, t)
  <2>5. point[i] = next
    BY <1>5, <2>3, <2>4
  <2>6. /\ Inserted(next, last, tasks, tbl, t)
        /\ ListedOnce(last) /\ t \notin Range(last.tasks) \cup Range(last.events)
             => ListedOnce(next)
    BY InsertFields
  <2> HIDE DEF next
  <2>7. Fine(i)
    BY <2>1, <2>2, <2>3, <2>4, <2>5, <2>6 DEF Inserted
  <2>8. t \notin First(i - 1)
    <3>1. \A j \in 1 .. i - 1 : due[j] # due[i]
      BY <1>2, <1>4
    <3>2. QED
      BY <2>3, <3>1 DEF First
  <2>9. Once(i)
    <3>1. Range(last.tasks) \subseteq First(i - 1) /\ Range(last.events) \subseteq First(i - 1)
          /\ ListedOnce(last)
      BY <2>2, <2>4
    <3>2. ListedOnce(next)
      BY <2>6, <2>8, <3>1
    <3>3. Range(next.events) \subseteq First(i)
      BY <2>1, <2>3, <2>6, <3>1 DEF Inserted
    <3>4. QED
      BY <2>5, <3>2, <3>3
  <2>10. QED
    BY <2>2, <2>7, <2>9
<1> HIDE DEF Filled
<1>8. n \in Filled
  <2>1. \A i \in 0 .. n : i \in Filled
    BY <1>2, <1>6, <1>7, InductionUpTo
  <2>2. QED
    BY <1>2, <2>1
<1>9. Fine(n) /\ Distinct(point[n].tasks) /\ point[n] \in PointsOf(tasks, time)
  BY <1>2, <1>8 DEF Filled, ListedOnce
<1>10. QED
  BY <1>1, <1>3, <1>9

\* The times of the points increase, and are those at which a task is due.
LEMMA UsedTimesElements ==
    ASSUME NEW tasks \in TaskSequences, NEW tbl
    PROVE  LET duration == Duration(tasks, tbl)
               times == UsedTimes(tasks, tbl)
           IN  /\ times \in Seq(Nat) /\ Increasing(times)
               /\ Range(times) = {time \in 0 .. duration - 1 : DueTasks(tasks, tbl, time) # {}}
<1> DEFINE duration == Duration(tasks, tbl)
           all == [i \in 1 .. duration |-> i - 1]
           used == {time \in 0 .. duration - 1 : Due(tasks, tbl, time) # <<>>}
<1>1. duration \in Nat \ {0}
  BY DurationPositive
<1>2. \A time : Due(tasks, tbl, time) # <<>> <=> DueTasks(tasks, tbl, time) # {}
  <2> SUFFICES ASSUME NEW time
               PROVE  Due(tasks, tbl, time) # <<>> <=> DueTasks(tasks, tbl, time) # {}
    OBVIOUS
  <2> DEFINE due == Due(tasks, tbl, time)
  <2>1. due \in Seq(DOMAIN tasks) /\ Range(due) = DueTasks(tasks, tbl, time)
    BY DueElements
  <2> HIDE DEF due
  <2>2. due # <<>> <=> Range(due) # {}
    BY <2>1 DEF Range
  <2>3. QED
    BY <2>1, <2>2 DEF due
<1> HIDE DEF duration
<1>3. all \in Seq(Nat) /\ Increasing(all)
  <2>1. all \in Seq(Nat)
    BY <1>1
  <2>2. \A p, q \in 1 .. duration : p < q => all[p] < all[q]
    BY <1>1
  <2>3. QED
    BY <2>1, <2>2 DEF Increasing
<1>4. Range(all) = 0 .. duration - 1
  <2>1. DOMAIN all = 1 .. duration /\ \A i \in 1 .. duration : all[i] = i - 1
    OBVIOUS
  <2>2. \A time \in 0 .. duration - 1 : time + 1 \in 1 .. duration /\ all[time + 1] = time
    BY <1>1
  <2>3. \A i \in 1 .. duration : all[i] \in 0 .. duration - 1
    BY <1>1
  <2> HIDE DEF all
  <2>4. QED
    BY <2>1, <2>2, <2>3 DEF Range
<1> HIDE DEF all, used
<1>5. /\ Filter(all, used) \in Seq(Nat) /\ Increasing(Filter(all, used))
      /\ Range(Filter(all, used)) = Range(all) \cap used
  BY <1>3, FilterElements, FilterIncreasing
<1>6. UsedTimes(tasks, tbl) = Filter(all, used)
  BY DEF UsedTimes, all, used, duration
<1>7. Range(all) \cap used = {time \in 0 .. duration - 1 : DueTasks(tasks, tbl, time) # {}}
  BY <1>2, <1>4 DEF used
<1>8. QED
  BY <1>5, <1>6, <1>7 DEF duration

-----------------------------------------------------------------------------
(* A schedule table.                                                       *)

\* The points of a table are in the order of their offsets, from 0 to less than the
\* duration, and the round ends after the last of them.
PointsInOrder(table) ==
    LET n == Len(table.eps)
    IN  /\ table.duration \in Nat \ {0} /\ n \in Nat \ {0} /\ DOMAIN table.eps = 1 .. n
        /\ \A p \in 1 .. n : table.eps[p].offset \in 0 .. table.duration - 1
        /\ \A p, q \in 1 .. n : p < q => table.eps[p].offset < table.eps[q].offset
        /\ table.eps[1].offset = 0 /\ table.initial_offset = 0
        /\ table.final_delay = table.duration - table.eps[n].offset

\* Whenever a task of the table is due in a round, there is a point.
PointsCover(table, tasks, tbl) ==
    \A time \in 0 .. table.duration - 1 :
        DueTasks(tasks, tbl, time) # {} =>
            \E p \in DOMAIN table.eps : table.eps[p].offset = time

\* A point releases tasks that are due then, none of them twice, all basic ones, and
\* extended ones only if the test for them looks at an extended task.
PointsRelease(table, tasks, tbl) ==
    \A p \in DOMAIN table.eps :
        LET point == table.eps[p]
            due == DueTasks(tasks, tbl, point.offset)
        IN  /\ Distinct(point.tasks) /\ Range(point.tasks) \subseteq due
            /\ {t \in due : IsBasic(tasks, t)} \subseteq Range(point.tasks)
            /\ ~TestsExtended(tasks, tbl) => \A t \in Range(point.tasks) : IsBasic(tasks, t)

\* What table_scheduler_init builds, for every task set and every table that has tasks
\* and for which no product of LCM overflows an int: beyond, the code has no duration.
THEOREM TablesBuilt ==
    ASSUME NEW tasks \in TaskSequences, NEW tbl \in TableIdsOf(tasks),
           ProductsFit(tasks, tbl)
    PROVE  LET table == TablesOf(tasks)[tbl]
           IN  /\ PointsInOrder(table)
               /\ PointsCover(table, tasks, tbl)
               /\ PointsRelease(table, tasks, tbl)
               /\ table.duration = Duration(tasks, tbl)
<1> DEFINE table == Table(tasks, tbl)
           duration == Duration(tasks, tbl)
           times == UsedTimes(tasks, tbl)
           eps == ExpiryPointsOf(tasks, tbl)
           n == Len(times)
<1>1. TablesOf(tasks)[tbl] = table
  BY DEF TablesOf
<1>2. /\ table.duration = duration /\ table.eps = eps
      /\ table.initial_offset = eps[1].offset
      /\ table.final_delay = duration - eps[Len(eps)].offset
  BY DEF Table, FinalDelay
<1>3. duration \in Nat \ {0}
  BY DurationPositive
<1>4. /\ times \in Seq(Nat) /\ Increasing(times)
      /\ Range(times) = {time \in 0 .. duration - 1 : DueTasks(tasks, tbl, time) # {}}
  BY UsedTimesElements
<1>5. eps = [i \in DOMAIN times |-> Point(tasks, tbl, times[i])]
  BY DEF ExpiryPointsOf
<1> HIDE DEF table, duration, times, eps
<1>6. n \in Nat /\ DOMAIN times = 1 .. n /\ Range(times) = {times[i] : i \in 1 .. n}
  BY <1>4 DEF Range
<1>7. DOMAIN eps = 1 .. n /\ \A i \in 1 .. n : eps[i] = Point(tasks, tbl, times[i])
  BY <1>5, <1>6
<1>8. Len(eps) = n
  BY <1>5, <1>6, <1>7
<1>9. \A i \in 1 .. n : eps[i].offset = times[i] /\ times[i] \in 0 .. duration - 1
  <2>1. \A i \in 1 .. n : Point(tasks, tbl, times[i]) \in PointsOf(tasks, times[i])
    BY PointTasks
  <2>2. \A i \in 1 .. n : eps[i].offset = times[i]
    BY <1>7, <2>1 DEF PointsOf
  <2>3. QED
    BY <1>4, <1>6, <2>2
<1>10. 0 \in Range(times)
  <2>1. PICK t \in DOMAIN tasks : tasks[t].table_id = tbl
    BY DEF TableIdsOf
  <2>2. t \in TableTasks(tasks, tbl)
    BY <2>1, TableTaskSet
  <2>3. 0 % tasks[t].period = 0
    BY PeriodPositive
  <2>4. QED
    BY <1>3, <1>4, <2>2, <2>3 DEF DueTasks
<1>11. n # 0 /\ times[1] = 0
  <2>1. PICK i \in 1 .. n : times[i] = 0
    BY <1>6, <1>10
  <2>2. i = 1
    <3> SUFFICES ASSUME i # 1 PROVE FALSE
      OBVIOUS
    <3>1. 1 \in DOMAIN times /\ i \in DOMAIN times /\ 1 < i
      BY <1>6
    <3>2. times[1] < times[i] /\ times[1] \in Nat
      BY <1>4, <1>6, <3>1 DEF Increasing
    <3>3. QED
      BY <2>1, <3>2
  <2>3. QED
    BY <2>1, <2>2
<1>12. PointsInOrder(table)
  <2>1. 1 \in 1 .. n /\ n \in 1 .. n
    BY <1>6, <1>11
  <2>2. \A p, q \in 1 .. n : p < q => eps[p].offset < eps[q].offset
    BY <1>4, <1>6, <1>9 DEF Increasing
  <2>3. eps[1].offset = 0
    BY <1>9, <1>11, <2>1
  <2>4. QED
    BY <1>2, <1>3, <1>6, <1>7, <1>8, <1>9, <1>11, <2>2, <2>3 DEF PointsInOrder
<1>13. PointsCover(table, tasks, tbl)
  <2> SUFFICES ASSUME NEW time \in 0 .. duration - 1, DueTasks(tasks, tbl, time) # {}
               PROVE  \E p \in DOMAIN eps : eps[p].offset = time
    BY <1>2 DEF PointsCover
  <2>1. time \in Range(times)
    BY <1>4
  <2>2. PICK i \in 1 .. n : times[i] = time
    BY <1>6, <2>1
  <2>3. QED
    BY <1>7, <1>9, <2>2
<1>14. PointsRelease(table, tasks, tbl)
  <2> SUFFICES ASSUME NEW p \in 1 .. n
               PROVE  LET point == eps[p]
                          due == DueTasks(tasks, tbl, point.offset)
                      IN  /\ Distinct(point.tasks) /\ Range(point.tasks) \subseteq due
                          /\ {t \in due : IsBasic(tasks, t)} \subseteq Range(point.tasks)
                          /\ ~TestsExtended(tasks, tbl) =>
                                \A t \in Range(point.tasks) : IsBasic(tasks, t)
    BY <1>2, <1>7 DEF PointsRelease
  <2>1. PICK time \in Nat : time = times[p]
    BY <1>9
  <2>2. eps[p].offset = time /\ eps[p] = Point(tasks, tbl, time)
    BY <1>7, <1>9, <2>1
  <2>3. QED
    BY <2>2, PointTasks
<1>15. QED
  BY <1>1, <1>2, <1>12, <1>13, <1>14 DEF duration, table

\* The ids of a task set are contiguous when every smaller number is an id too, as
\* the comment in unit_test asks: then they are the numbers below their count.
LEMMA IdsAreContiguous ==
    ASSUME NEW tasks \in TaskSequences, tasks # <<>>,
           \A t \in DOMAIN tasks : 0 .. tasks[t].table_id \subseteq TableIdsOf(tasks)
    PROVE  \E num \in Nat \ {0} : TableIdsOf(tasks) = 0 .. num - 1
<1> DEFINE ids == TableIdsOf(tasks)
           n == Len(tasks)
           id(t) == tasks[t].table_id
           Above(i, m) == \A t \in 1 .. i : id(t) < m
           Bounded == {i \in 0 .. n : \E m \in Nat : Above(i, m)}
<1>1. n \in Nat \ {0} /\ DOMAIN tasks = 1 .. n /\ \A t \in 1 .. n : id(t) \in Nat
  <2>1. tasks \in Seq(TaskStruct)
    BY DEF TaskSequences
  <2>2. n \in Nat /\ DOMAIN tasks = 1 .. n /\ \A t \in 1 .. n : tasks[t] \in TaskStruct
    BY <2>1
  <2>3. n # 0
    BY <2>1
  <2>4. QED
    BY <2>2, <2>3 DEF TaskStruct
<1>2. ids = {id(t) : t \in 1 .. n} /\ \A t \in 1 .. n : 0 .. id(t) \subseteq ids
  BY <1>1 DEF TableIdsOf
<1> HIDE DEF ids, n, id
<1>3. n \in Bounded
  <2>1. 0 \in Bounded
    BY <1>1
  <2>2. ASSUME NEW i \in 1 .. n, i - 1 \in Bounded PROVE i \in Bounded
    <3>1. PICK m \in Nat : Above(i - 1, m)
      BY <2>2
    <3>2. \E more \in Nat : m <= more /\ id(i) < more
      <4>1. CASE id(i) < m
        BY <4>1
      <4>2. CASE ~(id(i) < m)
        <5>1. id(i) + 1 \in Nat /\ m <= id(i) + 1 /\ id(i) < id(i) + 1
          BY <1>1, <4>2
        <5>2. QED
          BY <5>1
      <4>3. QED
        BY <4>1, <4>2
    <3>3. PICK more \in Nat : m <= more /\ id(i) < more
      BY <3>2
    <3>4. ASSUME NEW t \in 1 .. i PROVE id(t) < more
      <4>1. t = i \/ t \in 1 .. i - 1
        BY <1>1
      <4>2. t \in 1 .. n
        BY <1>1
      <4>3. QED
        BY <1>1, <3>1, <3>3, <4>1, <4>2
    <3>5. QED
      BY <1>1, <3>4
  <2> HIDE DEF Bounded
  <2>3. \A i \in 0 .. n : i \in Bounded
    BY <1>1, <2>1, <2>2, InductionUpTo
  <2>4. QED
    BY <1>1, <2>3
<1> DEFINE Bounds == {m \in Nat : Above(n, m)}
<1>4. PICK num \in Bounds : \A m \in Bounds : num <= m
  <2>1. Bounds # {} /\ Bounds \subseteq Nat
    BY <1>3
  <2> HIDE DEF Bounds
  <2>2. QED
    BY <2>1, LeastElement
<1>5. num # 0
  BY <1>1, <1>4
<1>6. \E t \in 1 .. n : id(t) = num - 1
  <2> SUFFICES ASSUME \A t \in 1 .. n : id(t) # num - 1 PROVE FALSE
    OBVIOUS
  <2>1. \A t \in 1 .. n : id(t) < num - 1
    BY <1>1, <1>4
  <2>2. num - 1 \in Bounds
    BY <1>4, <1>5, <2>1
  <2>3. QED
    BY <1>4, <2>2
<1>7. ids = 0 .. num - 1
  <2>1. ids \subseteq 0 .. num - 1
    BY <1>1, <1>2, <1>4
  <2>2. QED
    BY <1>2, <1>6, <2>1
<1>8. QED
  BY <1>4, <1>5, <1>7 DEF ids

\* What the module Scheduler assumes of the tables it is given, its TablesAssumption:
\* contiguous ids, and a table for each that has a point, with lists of tasks.
THEOREM TablesForScheduler ==
    ASSUME NEW tasks \in TaskSequences, tasks # <<>>,
           \A t \in DOMAIN tasks : 0 .. tasks[t].table_id \subseteq TableIdsOf(tasks),
           \A tbl \in TableIdsOf(tasks) : ProductsFit(tasks, tbl)
    PROVE  \E num \in Nat \ {0} :
               LET lists == [tbl \in 0 .. num - 1 |->
                               LET eps == TablesOf(tasks)[tbl].eps
                               IN  [p \in DOMAIN eps |-> eps[p].tasks]]
               IN  /\ DOMAIN TablesOf(tasks) = 0 .. num - 1
                   /\ \A tbl \in 0 .. num - 1 :
                        lists[tbl] \in Seq(Seq(DOMAIN tasks)) /\ Len(lists[tbl]) > 0
<1>1. PICK num \in Nat \ {0} : TableIdsOf(tasks) = 0 .. num - 1
  BY IdsAreContiguous
<1>2. ASSUME NEW tbl \in 0 .. num - 1
      PROVE  LET eps == TablesOf(tasks)[tbl].eps
                 lists == [p \in DOMAIN eps |-> eps[p].tasks]
             IN  lists \in Seq(Seq(DOMAIN tasks)) /\ Len(lists) > 0
  <2> DEFINE eps == TablesOf(tasks)[tbl].eps
             n == Len(eps)
             lists == [p \in DOMAIN eps |-> eps[p].tasks]
  <2>1. n \in Nat \ {0} /\ DOMAIN eps = 1 .. n
    BY <1>1, TablesBuilt DEF PointsInOrder
  <2>2. \A p \in DOMAIN eps : eps[p].tasks \in Seq(DOMAIN tasks)
    <3>1. eps = [i \in DOMAIN UsedTimes(tasks, tbl) |->
                    Point(tasks, tbl, UsedTimes(tasks, tbl)[i])]
      BY <1>1 DEF TablesOf, Table, ExpiryPointsOf
    <3> HIDE DEF eps
    <3>2. QED
      BY <3>1, PointTasks DEF PointsOf
  <2> HIDE DEF eps, n
  <2>3. lists \in [1 .. n -> Seq(DOMAIN tasks)]
    BY <2>1, <2>2
  <2>4. QED
    BY <2>1, <2>3 DEF eps
<1>3. DOMAIN TablesOf(tasks) = 0 .. num - 1
  BY <1>1 DEF TablesOf
<1>4. QED
  BY <1>1, <1>2, <1>3

=============================================================================
