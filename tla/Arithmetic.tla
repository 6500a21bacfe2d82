----------------------------- MODULE Arithmetic -----------------------------
(***************************************************************************)
(* Facts about numbers and loops that the proofs of several components     *)
(* cite: induction, the runs of a loop that is written as a recursive      *)
(* function, powers of two, quotients, and the divisors that the GCD       *)
(* automata keep.                                                          *)
(*                                                                         *)
(* Induction is stated for a set T of numbers: a proof by induction        *)
(* defines the set of the numbers that have the property at hand.          *)
(***************************************************************************)
EXTENDS Gcd, FiniteSetTheorems, TLAPS

-----------------------------------------------------------------------------
(* Induction and loops *)

\* A set of numbers has a least element.
LEMMA NatMin ==
    ASSUME NEW T, T \subseteq Nat, T # {}
    PROVE  \E x \in T : \A y \in T : x =< y
  <1> DEFINE R == OpToRel(<, Nat)
  <1>1. IsWellFoundedOn(R, Nat)
    BY Zenon, NatLessThanWellFounded
  <1>2. \A x, y \in Nat : x < y => <<x, y>> \in R
    BY DEF OpToRel
  <1> HIDE DEF R
  <1>3. PICK x \in T : \A y \in T : ~ (<<y, x>> \in R)
    BY Zenon, <1>1, WFMin
  <1>4. ASSUME NEW y \in T PROVE x =< y
    <2>1. x \in Nat /\ y \in Nat
      OBVIOUS
    <2>2. ~ (y < x)
      BY Zenon, <1>2, <1>3, <1>4, <2>1
    <2> QED BY <2>1, <2>2
  <1> QED BY <1>4

\* Induction, for the set of the numbers that have a property.
LEMMA Induction ==
    ASSUME NEW T, 0 \in T, \A i \in Nat : i \in T => i + 1 \in T
    PROVE  \A i \in Nat : i \in T
  <1> DEFINE U == Nat \ T
  <1>1. SUFFICES ASSUME U # {} PROVE FALSE
    OBVIOUS
  <1>2. PICK i \in U : \A j \in U : i =< j
    <2>1. U \subseteq Nat
      OBVIOUS
    <2> HIDE DEF U
    <2> QED BY Zenon, <1>1, <2>1, NatMin
  <1>3. i \in Nat /\ i # 0
    OBVIOUS
  <1>4. i - 1 \in Nat /\ i - 1 \notin U
    BY <1>2, <1>3
  <1>5. i - 1 + 1 = i
    BY <1>3
  <1> QED BY <1>4, <1>5

\* The values f that a loop of n steps goes through from x, when step i
\* makes G[i][s] of s.
IsLoop(n, S, G) == G \in [1 .. n -> [S -> S]]
IsRun(n, S, x, G, f) ==
    f \in [0 .. n -> S] /\ f[0] = x /\ \A i \in 1 .. n : f[i] = G[i][f[i - 1]]

\* A loop of n steps has a run.
LEMMA LoopRuns ==
    ASSUME NEW n \in Nat, NEW S, NEW x \in S, NEW G, IsLoop(n, S, G)
    PROVE  \E f : IsRun(n, S, x, G, f)
  <1> USE DEF IsLoop
  <1> DEFINE Run(m, f) == f[0] = x /\ \A i \in 1 .. m : f[i] = G[i][f[i - 1]]
             T == {m \in Nat : m > n \/ \E f \in [0 .. m -> S] : Run(m, f)}
  <1>1. 0 \in T
    <2>1. Run(0, [i \in 0 .. 0 |-> x])
      OBVIOUS
    <2> QED BY Zenon, <2>1
  <1>2. ASSUME NEW m \in Nat, m \in T PROVE m + 1 \in T
    <2>1. CASE m >= n
      BY <2>1
    <2>2. CASE m < n
      <3>1. PICK f \in [0 .. m -> S] : Run(m, f)
        BY <1>2, <2>2
      <3> DEFINE g == [i \in 0 .. m + 1 |-> IF i = m + 1 THEN G[m + 1][f[m]] ELSE f[i]]
      <3>2. m + 1 \in 1 .. n /\ m \in 0 .. m
        BY <2>2
      <3>3. g \in [0 .. m + 1 -> S]
        BY <3>2
      <3>4. Run(m + 1, g)
        <4>1. ASSUME NEW i \in 1 .. m + 1 PROVE g[i] = G[i][g[i - 1]]
          <5>1. CASE i = m + 1
            BY <5>1, <3>2
          <5>2. CASE i # m + 1
            <6>1. i \in 1 .. m /\ i - 1 \in 0 .. m /\ i - 1 # m + 1
              BY <5>2
            <6> QED BY <6>1, <3>1
          <5> QED BY <5>1, <5>2
        <4>2. g[0] = x
          BY <3>1
        <4> QED BY Zenon, <4>1, <4>2
      <3> HIDE DEF g, Run
      <3> QED BY <3>3, <3>4
    <2> QED BY <2>1, <2>2
  <1>3. n \in T
    <2> HIDE DEF T
    <2> QED BY <1>1, <1>2, Induction
  <1> QED BY <1>3 DEF IsRun

\* What every step of a loop keeps holds at its end.
LEMMA LoopKeeps ==
    ASSUME NEW n \in Nat, NEW S, NEW f, f[0] \in S,
           \A i \in 1 .. n : f[i - 1] \in S => f[i] \in S
    PROVE  \A i \in 0 .. n : f[i] \in S
  <1> DEFINE T == {i \in Nat : i > n \/ f[i] \in S}
  <1>1. 0 \in T
    OBVIOUS
  <1>2. ASSUME NEW i \in Nat, i \in T PROVE i + 1 \in T
    <2>1. CASE i >= n
      BY <2>1
    <2>2. CASE i < n
      <3>1. i + 1 \in 1 .. n /\ (i + 1) - 1 = i
        BY <2>2
      <3> QED BY <1>2, <2>2, <3>1
    <2> QED BY <2>1, <2>2
  <1>3. \A i \in Nat : i \in T
    <2> HIDE DEF T
    <2> QED BY <1>1, <1>2, Induction
  <1> QED BY <1>3

-----------------------------------------------------------------------------
(* Powers of two, the number of cells of a decoding table *)

\* A set of n elements has 2^n subsets.
LEMMA PowerSet == ASSUME NEW n \in Nat
  PROVE /\ IsFiniteSet(SUBSET (1 .. n)) /\ Cardinality(SUBSET (1 .. n)) = 2^n
  <1>1. IsFiniteSet(1 .. n) /\ Cardinality(1 .. n) = n
    BY FS_Interval
  <1> QED BY Zenon, <1>1, FS_SUBSET

\* A power of two is a positive number.
LEMMA PowerType == ASSUME NEW n \in Nat PROVE 2^n \in Nat \ {0}
  <1>1. SUBSET (1 .. n) # {}
    BY Zenon
  <1> QED BY Zenon, <1>1, PowerSet, FS_CardinalityType, FS_EmptySet

\* The recursion of the powers: the subsets with and without the last element.
LEMMA PowerZero == 2^0 = 1
  OBVIOUS

LEMMA PowerNext == ASSUME NEW n \in Nat PROVE 2^(n + 1) = 2 * 2^n
  <1> DEFINE A == SUBSET (1 .. n)
             B == {X \in SUBSET (1 .. n + 1) : n + 1 \in X}
             f == [X \in A |-> X \cup {n + 1}]
  <1>1. SUBSET (1 .. n + 1) = A \cup B
    <2>1. ASSUME NEW X \in SUBSET (1 .. n + 1), n + 1 \notin X PROVE X \in A
      BY <2>1
    <2>2. A \subseteq SUBSET (1 .. n + 1)
      <3>1. 1 .. n \subseteq 1 .. n + 1 OBVIOUS
      <3> QED BY <3>1
    <2> QED BY <2>1, <2>2
  <1>2. A \cap B = {}
    OBVIOUS
  <1>3. f \in Bijection(A, B)
    <2>1. f \in [A -> B]
      <3>1. 1 .. n \subseteq 1 .. n + 1 /\ n + 1 \in 1 .. n + 1 OBVIOUS
      <3> QED BY <3>1
    <2>2. ASSUME NEW X \in A, NEW Y \in A, f[X] = f[Y] PROVE X = Y
      <3>1. n + 1 \notin X /\ n + 1 \notin Y OBVIOUS
      <3> QED BY <2>2, <3>1
    <2>3. ASSUME NEW Y \in B PROVE \E X \in A : f[X] = Y
      <3>1. Y \ {n + 1} \in A OBVIOUS
      <3>2. f[Y \ {n + 1}] = Y BY <3>1
      <3> QED BY Zenon, <3>1, <3>2
    <2> HIDE DEF f, A, B
    <2> QED BY <2>1, <2>2, <2>3 DEF Bijection, Injection, Surjection, IsInjective
  <1>4. IsFiniteSet(A) /\ Cardinality(A) = 2^n
    BY PowerSet
  <1>5. IsFiniteSet(B) /\ Cardinality(B) = 2^n
    <2> HIDE DEF f, A, B
    <2> QED BY <1>3, <1>4, FS_Bijection DEF ExistsBijection
  <1>6. Cardinality(A \cup B) = 2^n + 2^n
    <2> HIDE DEF A, B
    <2> QED BY <1>2, <1>4, <1>5, FS_Union, FS_EmptySet, PowerType
  <1>7. Cardinality(A \cup B) = 2^(n + 1)
    <2>1. n + 1 \in Nat OBVIOUS
    <2> HIDE DEF A, B
    <2> QED BY <1>1, <2>1, PowerSet
  <1> QED BY <1>6, <1>7, PowerType

\* The widths of two fields add up.
LEMMA PowerSum == ASSUME NEW m \in Nat, NEW n \in Nat PROVE 2^(m + n) = 2^m * 2^n
  <1> DEFINE T == {i \in Nat : 2^(m + i) = 2^m * 2^i}
  <1>1. 0 \in T
    BY PowerZero, PowerType
  <1>2. ASSUME NEW i \in Nat, i \in T PROVE i + 1 \in T
    <2>1. 2^(m + (i + 1)) = 2 * 2^(m + i)
      <3>1. m + i \in Nat /\ m + (i + 1) = (m + i) + 1 OBVIOUS
      <3> QED BY <3>1, PowerNext
    <2>2. 2^(i + 1) = 2 * 2^i
      BY PowerNext
    <2>3. 2^(m + i) = 2^m * 2^i
      BY <1>2
    <2>4. 2^m \in Nat /\ 2^i \in Nat
      BY PowerType
    <2>5. \A x, y \in Nat : 2 * (x * y) = x * (2 * y)
      OBVIOUS
    <2> QED BY <2>1, <2>2, <2>3, <2>4, <2>5
  <1> HIDE DEF T
  <1>3. n \in T
    BY <1>1, <1>2, Induction
  <1> QED BY <1>3 DEF T

-----------------------------------------------------------------------------
(* Quotients, the fields of an address or of an identifier *)

\* Quotient and remainder.
LEMMA DivMod ==
    ASSUME NEW a \in Nat, NEW b \in Nat \ {0}
    PROVE  /\ a \div b \in Nat /\ (a % b) \in 0 .. b - 1
           /\ a = (b * (a \div b)) + (a % b)
  OBVIOUS

\* They are the only ones.
LEMMA DivUnique ==
    ASSUME NEW b \in Nat \ {0}, NEW q \in Nat, NEW r \in 0 .. b - 1
    PROVE  ((b * q) + r) \div b = q /\ ((b * q) + r) % b = r
  OBVIOUS

\* Two fields dropped one after the other.
LEMMA DivDiv ==
    ASSUME NEW a \in Nat, NEW b \in Nat \ {0}, NEW c \in Nat \ {0}
    PROVE  (a \div b) \div c = a \div (b * c)
  OBVIOUS

\* What is below b * c has a quotient below c.
LEMMA DivLess ==
    ASSUME NEW a \in Nat, NEW b \in Nat \ {0}, NEW c \in Nat, a < b * c
    PROVE  a \div b < c
  OBVIOUS

\* Rounding down to a multiple of r does not change a quotient by a multiple.
LEMMA RoundDown ==
    ASSUME NEW a \in Nat, NEW r \in Nat \ {0}, NEW k \in Nat \ {0}
    PROVE  /\ a - (a % r) \in Nat /\ (a - (a % r)) % r = 0
           /\ (a - (a % r)) \div (r * k) = a \div (r * k)
  <1> DEFINE q == a \div r
             b == a - (a % r)
  <1>1. q \in Nat /\ b = r * q /\ b \in Nat
    BY DivMod
  <1>2. a \div (r * k) = q \div k
    BY DivDiv
  <1> HIDE DEF q, b
  <1>3. b % r = 0 /\ b \div r = q
    <2>1. b = (r * q) + 0 /\ 0 \in 0 .. r - 1
      BY <1>1
    <2> QED BY <1>1, <2>1, DivUnique
  <1>4. b \div (r * k) = (b \div r) \div k
    BY <1>1, DivDiv
  <1> QED BY <1>1, <1>2, <1>3, <1>4 DEF b

\* The quotient of a number by the lower digits is its upper digits.
LEMMA TopDigits ==
    ASSUME NEW d \in Nat \ {0}, NEW u \in Nat \ {0}, NEW c \in Nat, c < d * u
    PROVE  (c \div d) % u = c \div d
  <1> DEFINE q == c \div d
  <1>1. q \in Nat
    BY DivMod
  <1>2. q < u
    BY DivLess
  <1> HIDE DEF q
  <1>3. q % u = q
    BY <1>1, <1>2
  <1> QED BY <1>3 DEF q

-----------------------------------------------------------------------------
(* The divisors of the operands of the GCD automata *)

\* A positive number is at least as large as what divides it.
LEMMA DivisorBound ==
    ASSUME NEW d \in Nat \ {0}, NEW n \in Nat \ {0}, Divides(d, n)
    PROVE  d =< n
  <1>1. PICK k \in 0 .. n : n = k * d
    BY DEF Divides
  <1>2. k # 0
    BY <1>1
  <1>3. k >= 1
    BY <1>2
  <1>4. k * d >= d
    BY <1>3
  <1> QED
    BY <1>1, <1>4

\* What divides two numbers divides their difference.
LEMMA DivDifference ==
    ASSUME NEW d \in Nat \ {0}, NEW a \in Nat, NEW b \in Nat, b =< a,
           Divides(d, a), Divides(d, b)
    PROVE  Divides(d, a - b)
  <1>1. PICK k \in 0 .. a : a = k * d
    BY DEF Divides
  <1>2. PICK l \in 0 .. b : b = l * d
    BY DEF Divides
  <1>3. a - b = (k - l) * d
    BY <1>1, <1>2
  <1>4. k - l >= 0
    <2>1. CASE k < l
      <3>1. k + 1 =< l
        BY <2>1
      <3>2. (k + 1) * d =< l * d
        BY <3>1
      <3>3. (k + 1) * d = k * d + d
        OBVIOUS
      <3> QED
        BY <3>2, <3>3, <1>1, <1>2
    <2> QED
      BY <2>1
  <1>5. (k - l) * d >= k - l
    BY <1>4
  <1>6. k - l \in 0 .. a - b
    BY <1>3, <1>4, <1>5
  <1> QED
    BY <1>3, <1>6 DEF Divides

\* What divides two numbers divides their sum.
LEMMA DivSum ==
    ASSUME NEW d \in Nat \ {0}, NEW a \in Nat, NEW b \in Nat,
           Divides(d, a), Divides(d, b)
    PROVE  Divides(d, a + b)
  <1>1. PICK k \in 0 .. a : a = k * d
    BY DEF Divides
  <1>2. PICK l \in 0 .. b : b = l * d
    BY DEF Divides
  <1>3. a + b = (k + l) * d
    BY <1>1, <1>2
  <1>4. k + l \in 0 .. a + b
    OBVIOUS
  <1> QED
    BY <1>3, <1>4 DEF Divides

\* DECA and DECR_A: replacing the larger first operand by the difference
\* leaves the common divisors as they are.
THEOREM DecrementA ==
    ASSUME NEW a \in Nat \ {0}, NEW b \in Nat \ {0}, b < a
    PROVE  CommonDivisors(a - b, b) = CommonDivisors(a, b)
  <1>1. ASSUME NEW d \in CommonDivisors(a - b, b)
        PROVE  d \in CommonDivisors(a, b)
    <2>1. d \in Nat \ {0} /\ Divides(d, a - b) /\ Divides(d, b)
      BY <1>1 DEF CommonDivisors
    <2>2. Divides(d, (a - b) + b)
      BY <2>1, DivSum
    <2>3. Divides(d, a)
      <3>1. (a - b) + b = a
        OBVIOUS
      <3> QED
        BY <2>2, <3>1
    <2> QED
      BY <2>1, <2>3, DivisorBound DEF CommonDivisors
  <1>2. ASSUME NEW d \in CommonDivisors(a, b)
        PROVE  d \in CommonDivisors(a - b, b)
    <2>1. d \in Nat \ {0} /\ Divides(d, a) /\ Divides(d, b)
      BY <1>2 DEF CommonDivisors
    <2>2. Divides(d, a - b)
      BY <2>1, DivDifference
    <2>3. a - b \in Nat \ {0}
      OBVIOUS
    <2> QED
      BY <2>1, <2>2, <2>3, DivisorBound DEF CommonDivisors
  <1> QED
    BY <1>1, <1>2

\* DECB and DECR_B: the same for the second operand.
THEOREM DecrementB ==
    ASSUME NEW a \in Nat \ {0}, NEW b \in Nat \ {0}, a < b
    PROVE  CommonDivisors(a, b - a) = CommonDivisors(a, b)
  <1>1. ASSUME NEW d \in CommonDivisors(a, b - a)
        PROVE  d \in CommonDivisors(a, b)
    <2>1. d \in Nat \ {0} /\ Divides(d, a) /\ Divides(d, b - a)
      BY <1>1 DEF CommonDivisors
    <2>2. Divides(d, (b - a) + a)
      BY <2>1, DivSum
    <2>3. Divides(d, b)
      <3>1. (b - a) + a = b
        OBVIOUS
      <3> QED
        BY <2>2, <3>1
    <2> QED
      BY <1>1, <2>3 DEF CommonDivisors
  <1>2. ASSUME NEW d \in CommonDivisors(a, b)
        PROVE  d \in CommonDivisors(a, b - a)
    <2>1. d \in Nat \ {0} /\ Divides(d, a) /\ Divides(d, b)
      BY <1>2 DEF CommonDivisors
    <2>2. Divides(d, b - a)
      BY <2>1, DivDifference
    <2> QED
      BY <1>2, <2>2 DEF CommonDivisors
  <1> QED
    BY <1>1, <1>2

\* The comparison that ends a computation: two equal registers, with the
\* common divisors of the operands, hold the operands' gcd.
THEOREM EqualIsGcd ==
    ASSUME NEW g \in Nat \ {0}, NEW a \in Nat \ {0}, NEW b \in Nat \ {0},
           CommonDivisors(g, g) = CommonDivisors(a, b)
    PROVE  IsGcd(g, a, b)
  <1>1. Divides(g, g)
    <2>1. 1 \in 0 .. g /\ g = 1 * g
      OBVIOUS
    <2> QED
      BY <2>1 DEF Divides
  <1>2. g \in CommonDivisors(g, g)
    BY <1>1 DEF CommonDivisors
  <1>3. \A d \in CommonDivisors(g, g) : d =< g
    BY DEF CommonDivisors
  <1> QED
    BY <1>2, <1>3 DEF IsGcd

=============================================================================
