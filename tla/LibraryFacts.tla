---------------------------- MODULE LibraryFacts ----------------------------
(***************************************************************************)
(* Facts about numbers and finite sets that Arithmetic proves, from the    *)
(* library's theorems where it has them.  Lemmas of the other modules assume*)
(* them instead of citing the theorems: a proof is checked much faster when*)
(* the library is not in scope.  The theorems at the end of those modules  *)
(* assume nothing: they cite FactsHold of Arithmetic.                      *)
(***************************************************************************)
EXTENDS Integers, FiniteSets

DivisionFact == \A w \in Nat \ {0}, x \in Int : x % w \in 0 .. w - 1
SumModFact ==
    \A w \in Nat \ {0}, a, b \in Int : ((a % w) + b) % w = (a + b) % w
DifferenceModFact ==
    \A w \in Nat \ {0}, a, b \in Int : (a - (b % w)) % w = (a - b) % w
NearModFact ==
    \A w \in Nat \ {0}, x \in Int :
        /\ x \in 0 .. w - 1 => x % w = x
        /\ x \in -w .. -1 => x % w = x + w
        /\ x \in w .. 2 * w - 1 => x % w = x - w
MinusModFact ==
    \A w \in Nat \ {0}, x \in Int, d \in Nat :
        d <= x % w => (x - d) % w = (x % w) - d
LeastFact == \A S \in SUBSET Nat : S # {} => \E x \in S : \A y \in S : x <= y

SizeFact == \A S : IsFiniteSet(S) => Cardinality(S) \in Nat
EmptyFact ==
    /\ IsFiniteSet({}) /\ Cardinality({}) = 0
    /\ \A S : IsFiniteSet(S) => (Cardinality(S) = 0 <=> S = {})
SingletonFact == \A x : IsFiniteSet({x}) /\ Cardinality({x}) = 1
IntervalFact ==
    \A a, b \in Int : /\ IsFiniteSet(a .. b)
                      /\ Cardinality(a .. b) = IF a > b THEN 0 ELSE b - a + 1
SubsetFact ==
    \A S : IsFiniteSet(S) => \A T \in SUBSET S :
        /\ IsFiniteSet(T) /\ Cardinality(T) <= Cardinality(S)
        /\ Cardinality(S) = Cardinality(T) => S = T
AddFact ==
    \A S, x : IsFiniteSet(S) =>
        /\ IsFiniteSet(S \cup {x})
        /\ Cardinality(S \cup {x}) = IF x \in S THEN Cardinality(S) ELSE Cardinality(S) + 1
RemoveFact ==
    \A S, x : IsFiniteSet(S) =>
        /\ IsFiniteSet(S \ {x})
        /\ Cardinality(S \ {x}) = IF x \in S THEN Cardinality(S) - 1 ELSE Cardinality(S)
DifferenceFact ==
    \A S, T : IsFiniteSet(S) =>
        /\ IsFiniteSet(S \ T)
        /\ Cardinality(S \ T) = Cardinality(S) - Cardinality(S \cap T)
ImageFact ==
    \A S, T, f : /\ IsFiniteSet(S) /\ f \in [S -> T]
                 /\ \A z \in T : \E x \in S : f[x] = z
                 => IsFiniteSet(T)
BijectionFact ==
    \A S, T, f : /\ IsFiniteSet(S) /\ f \in [S -> T]
                 /\ \A x, y \in S : f[x] = f[y] => x = y
                 /\ \A z \in T : \E x \in S : f[x] = z
                 => Cardinality(T) = Cardinality(S)

Facts ==
    /\ DivisionFact /\ SumModFact /\ DifferenceModFact /\ NearModFact /\ MinusModFact
    /\ LeastFact
    /\ SizeFact /\ EmptyFact /\ SingletonFact /\ IntervalFact /\ SubsetFact
    /\ AddFact /\ RemoveFact /\ DifferenceFact /\ ImageFact /\ BijectionFact
=============================================================================
