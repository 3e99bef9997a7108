-------------------------- MODULE FiniteSums_proofs --------------------------
(* What a sum over a finite set is: 0 without elements, and for any element   *)
(* the element and the sum of the others, whichever the definition takes      *)
(* first.  Proved from the smallest set for which it could fail.              *)
EXTENDS FiniteSums, FiniteSetTheorems, WellFoundedInduction, TLAPS

\* A set of subsets of a finite set has one that is smallest.
LEMMA Smallest ==
  ASSUME NEW D, IsFiniteSet(D), NEW Bad, Bad \subseteq SUBSET D, Bad # {}
  PROVE  \E S \in Bad : \A T \in Bad : T \subseteq S => T = S
<1>1. IsWellFoundedOn(StrictSubsetOrdering(D), FiniteSubsetsOf(D))
  BY FS_StrictSubsetOrderingWellFounded
<1>2. Bad \subseteq FiniteSubsetsOf(D)
  BY FS_Subset DEF FiniteSubsetsOf
<1>3. PICK S \in Bad : \A T \in Bad : <<T, S>> \notin StrictSubsetOrdering(D)
  BY <1>1, <1>2, WFMin
<1> QED BY <1>3 DEF StrictSubsetOrdering

\* The equation of the sum, for the sets of S.
Solves(f, value, S) ==
    f = [A \in S |-> IF A = {} THEN 0 ELSE value[First(A)] + f[A \ {First(A)}]]

\* The subsets of D with no more elements than A.
UpTo(D, A) == {S \in SUBSET D : Cardinality(S) <= Cardinality(A)}

\* The equation has a solution.
LEMMA SumExists ==
  ASSUME NEW D, IsFiniteSet(D), NEW value
  PROVE  \E f : Solves(f, value, SUBSET D)
<1> DEFINE Bad == {A \in SUBSET D : ~ \E f : Solves(f, value, UpTo(D, A))}
<1>1. Bad = {}
  <2> SUFFICES ASSUME Bad # {} PROVE FALSE
    OBVIOUS
  <2>1. PICK A \in Bad : \A B \in Bad : B \subseteq A => B = A
    <3>1. Bad \subseteq SUBSET D
      OBVIOUS
    <3> HIDE DEF Bad
    <3> QED BY <3>1, Smallest
  <2> DEFINE g(f) == [S \in UpTo(D, A) |-> IF S = {} THEN 0 ELSE value[First(S)] + f[S \ {First(S)}]]
  <2>2. CASE A = {}
    <3>1. UpTo(D, A) = {{}}
      BY <2>2, FS_EmptySet, FS_Subset, FS_CardinalityType DEF UpTo
    <3>2. Solves([S \in {{}} |-> 0], value, UpTo(D, A))
      BY <3>1 DEF Solves
    <3> QED BY <3>2
  <2>3. CASE A # {}
    <3>1. PICK a \in A : TRUE
      BY <2>3
    <3>2. PICK f : Solves(f, value, UpTo(D, A \ {a}))
      BY <2>1, <3>1
    <3>3. Cardinality(A) \in Nat /\ Cardinality(A \ {a}) = Cardinality(A) - 1
      BY <3>1, FS_Subset, FS_RemoveElement, FS_CardinalityType
    <3>4. \A S \in UpTo(D, A \ {a}) : S \in UpTo(D, A) /\ g(f)[S] = f[S]
      <4> SUFFICES ASSUME NEW S \in UpTo(D, A \ {a}) PROVE S \in UpTo(D, A) /\ g(f)[S] = f[S]
        OBVIOUS
      <4>1. Cardinality(S) \in Nat
        BY FS_Subset, FS_CardinalityType DEF UpTo
      <4>2. S \in UpTo(D, A)
        BY <4>1, <3>3 DEF UpTo
      <4> QED BY <4>2, <3>2 DEF Solves
    <3>5. \A S \in UpTo(D, A) : S # {} => S \ {First(S)} \in UpTo(D, A \ {a})
      <4> SUFFICES ASSUME NEW S \in UpTo(D, A), S # {} PROVE S \ {First(S)} \in UpTo(D, A \ {a})
        OBVIOUS
      <4>1. First(S) \in S
        BY DEF First
      <4>2. Cardinality(S) \in Nat /\ Cardinality(S \ {First(S)}) = Cardinality(S) - 1
        BY <4>1, FS_Subset, FS_RemoveElement, FS_CardinalityType DEF UpTo
      <4> QED BY <4>2, <3>3 DEF UpTo
    <3>6. Solves(g(f), value, UpTo(D, A))
      BY <3>4, <3>5 DEF Solves
    <3> QED BY <3>6
  <2> QED BY <2>2, <2>3
<1>2. UpTo(D, D) = SUBSET D
  BY FS_Subset, FS_CardinalityType DEF UpTo
<1>3. D \notin Bad
  BY <1>1
<1>4. \E f : Solves(f, value, UpTo(D, D))
  BY <1>3
<1> QED BY <1>2, <1>4

\* A sum follows the equation it is defined by.
LEMMA SumEquation ==
  ASSUME NEW value, IsFiniteSet(DOMAIN value), NEW S \in SUBSET DOMAIN value
  PROVE  SumOf(value, S) =
            IF S = {} THEN 0 ELSE value[First(S)] + SumOf(value, S \ {First(S)})
<1>1. Sums(value) = CHOOSE f : Solves(f, value, SUBSET DOMAIN value)
  BY DEF Sums, Solves
<1>2. Solves(Sums(value), value, SUBSET DOMAIN value)
  <2> HIDE DEF Solves
  <2> QED BY <1>1, SumExists
<1> QED BY <1>2 DEF Solves, SumOf

-----------------------------------------------------------------------------
(* What the proofs about wallets cite. *)

\* The sum over no document is 0.
LEMMA SumOfNone ==
  ASSUME NEW D, IsFiniteSet(D), NEW value \in [D -> Int]
  PROVE  SumOf(value, {}) = 0
  BY SumEquation

\* A sum of integers is an integer.
LEMMA SumType ==
  ASSUME NEW D, IsFiniteSet(D), NEW value \in [D -> Int], NEW S \in SUBSET D
  PROVE  SumOf(value, S) \in Int
<1> DEFINE Bad == {A \in SUBSET D : SumOf(value, A) \notin Int}
<1> SUFFICES ASSUME Bad # {} PROVE FALSE
  OBVIOUS
<1>1. PICK A \in Bad : \A B \in Bad : B \subseteq A => B = A
  <2>1. Bad \subseteq SUBSET D
    OBVIOUS
  <2> HIDE DEF Bad
  <2> QED BY <2>1, Smallest
<1>2. SumOf(value, A) =
         IF A = {} THEN 0 ELSE value[First(A)] + SumOf(value, A \ {First(A)})
  BY SumEquation
<1>3. A # {} => First(A) \in A
  BY DEF First
<1>4. A # {} => SumOf(value, A \ {First(A)}) \in Int
  BY <1>1, <1>3
<1> QED BY <1>2, <1>3, <1>4

\* Any element of a set can be taken out of its sum.
LEMMA SumWithout ==
  ASSUME NEW D, IsFiniteSet(D), NEW value \in [D -> Int], NEW S \in SUBSET D, NEW x \in S
  PROVE  SumOf(value, S) = value[x] + SumOf(value, S \ {x})
<1> DEFINE Bad == {A \in SUBSET D : \E y \in A :
                      SumOf(value, A) # value[y] + SumOf(value, A \ {y})}
<1> SUFFICES ASSUME Bad # {} PROVE FALSE
  OBVIOUS
<1>1. PICK A \in Bad : \A B \in Bad : B \subseteq A => B = A
  <2>1. Bad \subseteq SUBSET D
    OBVIOUS
  <2> HIDE DEF Bad
  <2> QED BY <2>1, Smallest
<1>2. PICK y \in A : SumOf(value, A) # value[y] + SumOf(value, A \ {y})
  OBVIOUS
<1> DEFINE c == First(A)
<1>3. c \in A /\ SumOf(value, A) = value[c] + SumOf(value, A \ {c})
  BY SumEquation DEF First
<1>4. c # y
  BY <1>2, <1>3
<1>5. SumOf(value, A \ {c}) = value[y] + SumOf(value, (A \ {c}) \ {y})
  BY <1>1, <1>3, <1>4
<1>6. SumOf(value, A \ {y}) = value[c] + SumOf(value, (A \ {y}) \ {c})
  BY <1>1, <1>3, <1>4
<1>7. (A \ {y}) \ {c} = (A \ {c}) \ {y}
  OBVIOUS
<1>8. SumOf(value, (A \ {c}) \ {y}) \in Int /\ value[c] \in Int /\ value[y] \in Int
  BY <1>3, SumType
<1> HIDE DEF c
<1> QED BY <1>2, <1>3, <1>5, <1>6, <1>7, <1>8

\* An element more adds its value.
LEMMA SumWith ==
  ASSUME NEW D, IsFiniteSet(D), NEW value \in [D -> Int], NEW S \in SUBSET D,
         NEW x \in D \ S
  PROVE  SumOf(value, S \cup {x}) = value[x] + SumOf(value, S)
<1>1. (S \cup {x}) \ {x} = S
  OBVIOUS
<1> QED BY <1>1, SumWithout

\* A sum depends on the values of its elements only.
LEMMA SumSame ==
  ASSUME NEW D, IsFiniteSet(D), NEW value \in [D -> Int], NEW other \in [D -> Int],
         NEW S \in SUBSET D, \A x \in S : other[x] = value[x]
  PROVE  SumOf(other, S) = SumOf(value, S)
<1> DEFINE Bad == {A \in SUBSET S : SumOf(other, A) # SumOf(value, A)}
<1> SUFFICES ASSUME Bad # {} PROVE FALSE
  OBVIOUS
<1>1. PICK A \in Bad : \A B \in Bad : B \subseteq A => B = A
  <2>1. Bad \subseteq SUBSET D
    OBVIOUS
  <2> HIDE DEF Bad
  <2> QED BY <2>1, Smallest
<1>2. /\ SumOf(value, A) = IF A = {} THEN 0 ELSE value[First(A)] + SumOf(value, A \ {First(A)})
      /\ SumOf(other, A) = IF A = {} THEN 0 ELSE other[First(A)] + SumOf(other, A \ {First(A)})
  BY SumEquation
<1>3. A # {} => First(A) \in A
  BY DEF First
<1>4. A # {} => SumOf(other, A \ {First(A)}) = SumOf(value, A \ {First(A)})
  BY <1>1, <1>3
<1> QED BY <1>2, <1>3, <1>4

\* A sum of zeros is 0.
LEMMA SumOfZeros ==
  ASSUME NEW D, IsFiniteSet(D), NEW S \in SUBSET D
  PROVE  SumOf([x \in D |-> 0], S) = 0
<1> DEFINE zero == [x \in D |-> 0]
           Bad == {A \in SUBSET D : SumOf(zero, A) # 0}
<1> SUFFICES ASSUME Bad # {} PROVE FALSE
  OBVIOUS
<1>1. PICK A \in Bad : \A B \in Bad : B \subseteq A => B = A
  <2>1. Bad \subseteq SUBSET D
    OBVIOUS
  <2> HIDE DEF Bad
  <2> QED BY <2>1, Smallest
<1>2. zero \in [D -> Int] /\ \A x \in D : zero[x] = 0
  OBVIOUS
<1> HIDE DEF zero
<1>3. PICK x \in A : TRUE
  BY <1>2, SumOfNone
<1>4. SumOf(zero, A) = zero[x] + SumOf(zero, A \ {x})
  BY <1>2, SumWithout
<1>5. SumOf(zero, A \ {x}) = 0
  BY <1>1, <1>3
<1> QED BY <1>2, <1>4, <1>5

\* If one value changes, the sum changes by as much.
LEMMA SumChange ==
  ASSUME NEW D, IsFiniteSet(D), NEW value \in [D -> Int], NEW other \in [D -> Int],
         NEW S \in SUBSET D, NEW x \in S, \A y \in S \ {x} : other[y] = value[y]
  PROVE  SumOf(other, S) = SumOf(value, S) + (other[x] - value[x])
<1>1. /\ SumOf(value, S) = value[x] + SumOf(value, S \ {x})
      /\ SumOf(other, S) = other[x] + SumOf(other, S \ {x})
  BY SumWithout
<1>2. SumOf(other, S \ {x}) = SumOf(value, S \ {x})
  BY SumSame
<1>3. SumOf(value, S \ {x}) \in Int
  BY SumType
<1> QED BY <1>1, <1>2, <1>3

\* A sum of values that are not negative is at least each of them.
LEMMA SumCovers ==
  ASSUME NEW D, IsFiniteSet(D), NEW value \in [D -> Nat], NEW S \in SUBSET D
  PROVE  SumOf(value, S) >= 0 /\ \A x \in S : SumOf(value, S) >= value[x]
<1> DEFINE Bad == {A \in SUBSET D : ~ SumOf(value, A) >= 0}
<1>0. value \in [D -> Int]
  OBVIOUS
<1>1. Bad = {}
  <2> SUFFICES ASSUME Bad # {} PROVE FALSE
    OBVIOUS
  <2>1. PICK A \in Bad : \A B \in Bad : B \subseteq A => B = A
    <3>1. Bad \subseteq SUBSET D
      OBVIOUS
    <3> HIDE DEF Bad
    <3> QED BY <3>1, Smallest
  <2>2. A # {}
    BY <1>0, SumOfNone
  <2>3. PICK x \in A : TRUE
    BY <2>2
  <2>4. SumOf(value, A \ {x}) >= 0
    BY <2>1, <2>3
  <2>5. SumOf(value, A) = value[x] + SumOf(value, A \ {x})
    BY <1>0, <2>3, SumWithout
  <2>6. SumOf(value, A \ {x}) \in Int
    BY <1>0, SumType
  <2> QED BY <2>1, <2>3, <2>4, <2>5, <2>6
<1>2. ASSUME NEW x \in S PROVE SumOf(value, S) >= value[x]
  <2>1. SumOf(value, S) = value[x] + SumOf(value, S \ {x})
    BY <1>0, SumWithout
  <2>2. SumOf(value, S \ {x}) \in Int
    BY <1>0, SumType
  <2>3. SumOf(value, S \ {x}) >= 0
    BY <1>1
  <2> QED BY <2>1, <2>2, <2>3
<1> QED BY <1>1, <1>2
=============================================================================
