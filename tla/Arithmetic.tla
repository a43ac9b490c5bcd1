----------------------------- MODULE Arithmetic -----------------------------
(***************************************************************************)
(* Facts about remainders and least elements that the proofs about the     *)
(* encoder's offsets and the decoder's IDs rest on, and the facts about    *)
(* finite sets that their lemmas assume.                                   *)
(***************************************************************************)
EXTENDS LibraryFacts, TLAPS, WellFoundedInduction

\* Every integer is a multiple of the modulus plus its remainder.
LEMMA ModDivision ==
    ASSUME NEW w \in Nat \ {0}, NEW x \in Int
    PROVE  /\ x % w \in 0 .. w - 1
           /\ x \div w \in Int
           /\ x = w * (x \div w) + (x % w)
OBVIOUS

\* A multiple of the modulus other than 0 is at least as large.
LEMMA MultipleLarge ==
    ASSUME NEW w \in Nat \ {0}, NEW q \in Int, q # 0
    PROVE  w * q >= w \/ w * q <= -w
OBVIOUS

\* The remainder is unique.
LEMMA ModUnique ==
    ASSUME NEW w \in Nat \ {0}, NEW q \in Int, NEW r \in 0 .. w - 1
    PROVE  (w * q + r) % w = r
<1> DEFINE x == w * q + r
           p == x \div w
           s == x % w
<1>1. x \in Int /\ w * q \in Int
  OBVIOUS
<1>2. s \in 0 .. w - 1 /\ x = w * p + s /\ p \in Int
  BY <1>1, ModDivision
<1> HIDE DEF p, s
<1>3. w * (q - p) = w * q - w * p /\ q - p \in Int /\ w * p \in Int
  BY <1>2
<1>4. w * (q - p) = s - r
  BY <1>1, <1>2, <1>3
<1>5. q - p = 0
  BY <1>2, <1>3, <1>4, MultipleLarge
<1> QED BY <1>1, <1>2, <1>3, <1>5 DEF s

\* Numbers below the modulus are their own remainders.
LEMMA ModSmall ==
    ASSUME NEW w \in Nat \ {0}, NEW r \in 0 .. w - 1
    PROVE  r % w = r
<1>1. (w * 0 + r) % w = r
  BY ModUnique
<1> QED BY <1>1

\* A subtrahend can be reduced first.
LEMMA ModOfDifference ==
    ASSUME NEW w \in Nat \ {0}, NEW a \in Int, NEW b \in Int
    PROVE  (a - (b % w)) % w = (a - b) % w
<1> DEFINE q == b \div w
           r == b % w
           p == (a - b) \div w
           s == (a - b) % w
<1>1. r \in Int /\ q \in Int /\ b = w * q + r
  BY ModDivision
<1>2. s \in 0 .. w - 1 /\ p \in Int /\ a - b = w * p + s
  <2>1. a - b \in Int
    OBVIOUS
  <2> QED BY <2>1, ModDivision, Zenon
<1> HIDE DEF q, r, p, s
<1>3. w * (p + q) = w * p + w * q /\ w * p \in Int /\ w * q \in Int /\ p + q \in Int
  BY <1>1, <1>2
<1>4. a - r = w * (p + q) + s
  BY <1>1, <1>2, <1>3
<1>5. (w * (p + q) + s) % w = s
  BY <1>2, <1>3, ModUnique, Zenon
<1> QED BY <1>4, <1>5 DEF r, s

\* Subtracting no more than the remainder subtracts from the remainder.
LEMMA ModMinus ==
    ASSUME NEW w \in Nat \ {0}, NEW x \in Int, NEW d \in Nat, d <= x % w
    PROVE  (x - d) % w = (x % w) - d
<1> DEFINE q == x \div w
           r == x % w
<1>1. r \in 0 .. w - 1 /\ q \in Int /\ x = w * q + r /\ d <= r
  BY ModDivision
<1> HIDE DEF q, r
<1>2. w * q \in Int /\ r - d \in 0 .. w - 1 /\ x - d = w * q + (r - d)
  BY <1>1
<1>3. (w * q + (r - d)) % w = r - d
  BY <1>1, <1>2, ModUnique
<1> QED BY <1>2, <1>3, Zenon DEF r

\* A summand can be reduced first.
LEMMA ModOfSum ==
    ASSUME NEW w \in Nat \ {0}, NEW a \in Int, NEW b \in Int
    PROVE  ((a % w) + b) % w = (a + b) % w
<1> DEFINE q == a \div w
           r == a % w
           p == (a + b) \div w
           s == (a + b) % w
<1>1. r \in Int /\ q \in Int /\ a = w * q + r
  BY ModDivision
<1>2. s \in 0 .. w - 1 /\ p \in Int /\ a + b = w * p + s
  <2>1. a + b \in Int
    OBVIOUS
  <2> QED BY <2>1, ModDivision, Zenon
<1> HIDE DEF q, r, p, s
<1>3. w * (p - q) = w * p - w * q /\ w * p \in Int /\ w * q \in Int /\ p - q \in Int
  BY <1>1, <1>2
<1>4. r + b = w * (p - q) + s
  BY <1>1, <1>2, <1>3
<1>5. (w * (p - q) + s) % w = s
  BY <1>2, <1>3, ModUnique, Zenon
<1> QED BY <1>4, <1>5 DEF r, s

\* A number is its remainder, up to one modulus.
LEMMA ModNear ==
    ASSUME NEW w \in Nat \ {0}, NEW x \in Int
    PROVE  /\ x \in 0 .. w - 1 => x % w = x
           /\ x \in -w .. -1 => x % w = x + w
           /\ x \in w .. 2 * w - 1 => x % w = x - w
<1>1. (w * 0 + x) % w = x \/ ~(x \in 0 .. w - 1)
  BY ModUnique
<1>2. ASSUME x \in -w .. -1 PROVE x % w = x + w
  <2>1. x + w \in 0 .. w - 1 /\ w * (-1) + (x + w) = x /\ -1 \in Int
    BY <1>2
  <2> QED BY <2>1, ModUnique
<1>3. ASSUME x \in w .. 2 * w - 1 PROVE x % w = x - w
  <2>1. x - w \in 0 .. w - 1 /\ w * 1 + (x - w) = x /\ 1 \in Int
    BY <1>3
  <2> QED BY <2>1, ModUnique
<1> QED BY <1>1, <1>2, <1>3

-----------------------------------------------------------------------------
\* Natural numbers are well ordered.
LEMMA LeastExists ==
    ASSUME NEW S \in SUBSET Nat, S # {}
    PROVE  \E x \in S : \A y \in S : x <= y
<1>1. \E R : IsWellFoundedOn(R, Nat) /\ \A x, y \in Nat : y < x => <<y, x>> \in R
  <2>1. \A x, y \in Nat : y < x => <<y, x>> \in OpToRel(<, Nat)
    BY DEF OpToRel
  <2> QED BY <2>1, NatLessThanWellFounded, Zenon
<1>2. PICK R : IsWellFoundedOn(R, Nat) /\ \A x, y \in Nat : y < x => <<y, x>> \in R
  BY <1>1
<1>3. PICK x \in S : \A y \in S : ~ (<<y, x>> \in R)
  BY <1>2, WFMin, Zenon
<1>4. \A y \in S : ~(y < x)
  BY <1>2, <1>3, Zenon
<1> QED BY <1>3, <1>4

\* The product of two naturals is one.
LEMMA NatProduct == \A a, b \in Nat : a * b \in Nat
OBVIOUS

\* An interval that starts later and may end later, cut where the first one ends.
LEMMA IntervalSplit ==
    \A a, b, m, n \in Nat : a <= b =>
        \A k \in b + 1 .. n : \/ k \in a + 1 .. m /\ ~(k <= a)
                              \/ k \in m + 1 .. n
OBVIOUS

-----------------------------------------------------------------------------
INSTANCE FiniteSetTheorems

\* What the lemmas of the other modules assume holds.
LEMMA FactsHold == Facts
<1>1. DivisionFact /\ SumModFact /\ DifferenceModFact
  BY ModDivision, ModOfSum, ModOfDifference
     DEF DivisionFact, SumModFact, DifferenceModFact
<1>2. NearModFact /\ MinusModFact
  BY ModNear, ModMinus DEF NearModFact, MinusModFact
<1>3. LeastFact
  BY LeastExists DEF LeastFact
<1>4. SizeFact /\ EmptyFact /\ SingletonFact
  BY FS_CardinalityType, FS_EmptySet, FS_Singleton, Zenon DEF SizeFact, EmptyFact, SingletonFact
<1>5. IntervalFact
  BY FS_Interval DEF IntervalFact
<1>6. SubsetFact
  BY FS_Subset, Zenon DEF SubsetFact
<1>7. AddFact
  BY FS_AddElement, Zenon DEF AddFact
<1>8. RemoveFact
  BY FS_RemoveElement, Zenon DEF RemoveFact
<1>9. DifferenceFact
  BY FS_Difference, Zenon DEF DifferenceFact
<1>10. BijectionFact
  <2>1. ASSUME NEW S, NEW T, NEW f, IsFiniteSet(S), f \in [S -> T],
               \A x, y \in S : f[x] = f[y] => x = y, \A z \in T : \E x \in S : f[x] = z
        PROVE  Cardinality(T) = Cardinality(S)
    <3>1. f \in Bijection(S, T)
      BY <2>1 DEF Bijection, Injection, Surjection, IsInjective
    <3>2. ExistsBijection(S, T)
      BY <3>1, Zenon DEF ExistsBijection
    <3> QED BY <2>1, <3>2, FS_Bijection, Zenon
  <2> QED BY <2>1, Zenon DEF BijectionFact
<1>11. ImageFact
  <2>1. ASSUME NEW S, NEW T, NEW f, IsFiniteSet(S), f \in [S -> T],
               \A z \in T : \E x \in S : f[x] = z
        PROVE  IsFiniteSet(T)
    <3>1. f \in Surjection(S, T)
      BY <2>1 DEF Surjection
    <3> QED BY <2>1, <3>1, FS_Surjection, Zenon
  <2> QED BY <2>1, Zenon DEF ImageFact
<1> QED BY <1>1, <1>2, <1>3, <1>4, <1>5, <1>6, <1>7, <1>8, <1>9, <1>10, <1>11
     DEF Facts
=============================================================================
