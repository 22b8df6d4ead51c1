------------------------------ MODULE Induction ------------------------------
(***************************************************************************)
(* Induction and recursion on an interval 0 .. n, for sets and functions   *)
(* instead of operators: they follow from the least element of a set of    *)
(* naturals, and can be cited with a set or a function for a parameter.    *)
(***************************************************************************)
EXTENDS Integers, WellFoundedInduction, TLAPS

\* A set of naturals that has an element has a least one.
LEMMA LeastElement ==
    ASSUME NEW S, S \subseteq Nat, S # {}
    PROVE  \E n \in S : \A m \in S : n <= m
<1> DEFINE Less == OpToRel(<, Nat)
<1>1. IsWellFoundedOn(Less, Nat)
  BY NatLessThanWellFounded
<1>2. \A m, n \in Nat : m < n => <<m, n>> \in Less
  BY DEF OpToRel
<1> HIDE DEF Less
<1>3. PICK n \in S : \A m \in S : <<m, n>> \notin Less
  BY <1>1, WFMin
<1>4. \A m \in S : m \in Nat /\ n \in Nat /\ ~(m < n)
  BY <1>2, <1>3
<1>5. QED
  BY <1>4

\* A set that has 0 and, with a number below n, its successor, has 0 .. n.
LEMMA InductionUpTo ==
    ASSUME NEW n \in Nat, NEW S, 0 \in S,
           \A i \in 1 .. n : i - 1 \in S => i \in S
    PROVE  \A i \in 0 .. n : i \in S
<1> DEFINE Missing == (0 .. n) \ S
<1> SUFFICES ASSUME Missing # {} PROVE FALSE
  OBVIOUS
<1>1. Missing \subseteq Nat
  OBVIOUS
<1>2. PICK i \in Missing : \A m \in Missing : i <= m
  BY <1>1, LeastElement
<1>3. i \in 1 .. n /\ i - 1 \in 0 .. n /\ i - 1 \notin Missing
  BY <1>1, <1>2
<1>4. QED
  BY <1>2, <1>3

\* f is computed from a first value, a step for each number.
Recurses(f, n, base, step) ==
    f[0] = base /\ \A i \in 1 .. n : f[i] = step[i][f[i - 1]]

\* A first value and a step for each number define a function on 0 .. n.
LEMMA RecursionUpTo ==
    ASSUME NEW n \in Nat, NEW Values, NEW base \in Values,
           NEW step \in [1 .. n -> [Values -> Values]]
    PROVE  \E f \in [0 .. n -> Values] : Recurses(f, n, base, step)
<1> DEFINE Defines(f, m) == Recurses(f, m, base, step)
           Defined == {m \in 0 .. n : \E f \in [0 .. m -> Values] : Defines(f, m)}
<1> USE DEF Recurses
<1>1. 0 \in Defined
  <2> DEFINE f == [i \in 0 .. 0 |-> base]
  <2>1. f \in [0 .. 0 -> Values] /\ Defines(f, 0)
    OBVIOUS
  <2> HIDE DEF f, Defines, Recurses
  <2>2. QED
    BY <2>1
<1>2. ASSUME NEW m \in 1 .. n, m - 1 \in Defined PROVE m \in Defined
  <2>1. PICK f \in [0 .. m - 1 -> Values] : Defines(f, m - 1)
    BY <1>2
  <2> DEFINE g == [i \in 0 .. m |-> IF i = m THEN step[m][f[m - 1]] ELSE f[i]]
  <2>2. step[m][f[m - 1]] \in Values
    OBVIOUS
  <2>3. g \in [0 .. m -> Values]
    BY <2>2
  <2>4. g[0] = base /\ g[m] = step[m][f[m - 1]]
    BY <2>1
  <2>5. \A i \in 0 .. m - 1 : g[i] = f[i]
    OBVIOUS
  <2> HIDE DEF g
  <2>6. ASSUME NEW i \in 1 .. m PROVE g[i] = step[i][g[i - 1]]
    <3>1. CASE i = m
      BY <2>4, <2>5, <3>1
    <3>2. CASE i # m
      <4>1. i \in 1 .. m - 1 /\ i - 1 \in 0 .. m - 1 /\ i \in 0 .. m - 1
        BY <3>2
      <4>2. QED
        BY <2>1, <2>5, <4>1
    <3>3. QED
      BY <3>1, <3>2
  <2>7. QED
    BY <2>3, <2>4, <2>6
<1> HIDE DEF Defined, Defines, Recurses
<1>3. \A i \in 0 .. n : i \in Defined
  BY <1>1, <1>2, InductionUpTo
<1>4. n \in Defined
  BY <1>3
<1>5. QED
  BY <1>4 DEF Defined, Defines

=============================================================================
