------------------------------ MODULE FoldLemmas ------------------------------
(***************************************************************************)
(* Induction over numbers and finite sets in a form without operator       *)
(* parameters, and with it the facts about sums over finite sets that the  *)
(* proofs about bills, inspections and recordings rest on.                 *)
(***************************************************************************)
EXTENDS Integers, FiniteSets, FiniteSetsExt, Functions, WellFoundedInduction, FiniteSetTheorems, TLAPS

------------------------------------------------------------------------------
(* Induction.                                                              *)

LEMMA Least ==
  ASSUME NEW T \in SUBSET Nat, T # {}
  PROVE  \E n \in T : \A m \in T : n <= m
<1> DEFINE R == {ss \in Nat \X Nat : ss[1] < ss[2]}
<1>1. IsWellFoundedOn(R, Nat)
  BY NatLessThanWellFounded, Zenon DEF OpToRel
<1>2. PICK x \in T : \A y \in T : ~(<<y, x>> \in R)
  <2> HIDE DEF R
  <2> QED BY <1>1, WFMin
<1>3. ASSUME NEW y \in T PROVE x <= y
  <2>1. ~(y < x)
    BY <1>2
  <2> QED BY <2>1
<1> QED BY <1>3

\* A set of numbers that has a number once it has all smaller ones has them all.
LEMMA Induction ==
  ASSUME NEW B, \A n \in Nat : (\A m \in Nat : m < n => m \in B) => n \in B
  PROVE  Nat \subseteq B
<1>1. SUFFICES ASSUME Nat \ B # {} PROVE FALSE
  OBVIOUS
<1>2. PICK n \in Nat \ B : \A m \in Nat \ B : n <= m
  BY <1>1, Least
<1>3. \A m \in Nat : m < n => m \in B
  BY <1>2
<1> QED BY <1>2, <1>3

\* A family that has a set once it has the sets that lack one element of it.
Inductive(B, S) == \A T \in SUBSET S : (\A x \in T : T \ {x} \in B) => T \in B

LEMMA FiniteSubsetInduction ==
  ASSUME NEW S, IsFiniteSet(S), NEW B, Inductive(B, S)
  PROVE  SUBSET S \subseteq B
<1> USE DEF Inductive
<1> DEFINE C == {n \in Nat : \A T \in SUBSET S : Cardinality(T) = n => T \in B}
<1>1. ASSUME NEW n \in Nat, \A m \in Nat : m < n => m \in C
      PROVE  n \in C
  <2>1. SUFFICES ASSUME NEW T \in SUBSET S, Cardinality(T) = n PROVE T \in B
    OBVIOUS
  <2>2. ASSUME NEW x \in T PROVE T \ {x} \in B
    <3>1. IsFiniteSet(T)
      BY FS_Subset
    <3>2. Cardinality(T \ {x}) = n - 1 /\ IsFiniteSet(T \ {x})
      BY <2>1, <3>1, FS_RemoveElement
    <3>3. Cardinality(T \ {x}) \in Nat
      BY <3>2, FS_CardinalityType
    <3> QED BY <1>1, <3>2, <3>3
  <2> QED BY <2>2
<1>2. Nat \subseteq C
  <2> HIDE DEF C
  <2> QED BY <1>1, Induction
<1>3. ASSUME NEW T \in SUBSET S PROVE T \in B
  <2>1. Cardinality(T) \in Nat
    BY FS_Subset, FS_CardinalityType
  <2> QED BY <1>2, <2>1
<1> QED BY <1>3

\* A finite set of numbers has a largest and a smallest one.
LEMMA MaxMin ==
  ASSUME NEW T \in SUBSET Int, IsFiniteSet(T), T # {}
  PROVE  /\ Max(T) \in T /\ \A y \in T : y <= Max(T)
         /\ Min(T) \in T /\ \A y \in T : Min(T) <= y
<1> DEFINE B == {s \in SUBSET T : s # {} => /\ \E x \in s : \A y \in s : y <= x
                                          /\ \E x \in s : \A y \in s : x <= y}
<1>1. ASSUME NEW s \in SUBSET T, \A x \in s : s \ {x} \in B PROVE s \in B
  <2>1. SUFFICES ASSUME s # {} PROVE /\ \E x \in s : \A y \in s : y <= x
                                     /\ \E x \in s : \A y \in s : x <= y
    OBVIOUS
  <2>2. PICK a \in s : s \ {a} \in B
    BY <1>1, <2>1
  <2>3. CASE s = {a}
    BY <2>3
  <2>4. CASE s # {a}
    <3>1. PICK x, y \in s \ {a} : \A z \in s \ {a} : z <= x /\ y <= z
      BY <2>2, <2>4
    <3>2. a \in Int /\ x \in Int /\ y \in Int
      OBVIOUS
    <3>3. \E m \in s : \A z \in s : z <= m
      <4>1. CASE a <= x
        BY <3>1, <4>1
      <4>2. CASE x <= a
        BY <3>1, <4>2
      <4> QED BY <3>2, <4>1, <4>2
    <3>4. \E m \in s : \A z \in s : m <= z
      <4>1. CASE y <= a
        BY <3>1, <4>1
      <4>2. CASE a <= y
        BY <3>1, <4>2
      <4> QED BY <3>2, <4>1, <4>2
    <3> QED BY <3>3, <3>4
  <2> QED BY <2>3, <2>4
<1>2. Inductive(B, T)
  BY <1>1 DEF Inductive
<1>3. SUBSET T \subseteq B
  <2> HIDE DEF B
  <2> QED BY <1>2, FiniteSubsetInduction
<1>4. T \in B
  BY <1>3
<1>5. (\E x \in T : \A y \in T : x >= y) /\ (\E x \in T : \A y \in T : x <= y)
  BY <1>4
<1> QED BY <1>5 DEF Max, Min

LEMMA ImageFinite ==
  ASSUME NEW T, IsFiniteSet(T), NEW f
  PROVE  IsFiniteSet({f[x] : x \in T})
<1> DEFINE U == {f[x] : x \in T}
           g == [x \in T |-> f[x]]
<1>1. g \in Surjection(T, U)
  BY DEF Surjection
<1> HIDE DEF U, g
<1>2. IsFiniteSet(U)
  BY <1>1, FS_Surjection
<1> QED BY <1>2 DEF U

------------------------------------------------------------------------------
(* Folds: a function on the subsets of a finite set that is defined on each *)
(* by its value without one element exists.                                *)

Picks(pick, S) == \A s \in SUBSET S : s # {} => pick[s] \in s

Folds(g, S, base, step, pick) ==
  \A s \in SUBSET S :
    g[s] = IF s = {} THEN base ELSE step[<<pick[s], g[s \ {pick[s]}]>>]

LEMMA FoldExists ==
  ASSUME NEW S, IsFiniteSet(S), NEW A, NEW base \in A,
         NEW step \in [S \X A -> A], NEW pick, Picks(pick, S)
  PROVE  \E g \in [SUBSET S -> A] : Folds(g, S, base, step, pick)
<1> USE DEF Picks, Folds
<1> DEFINE Upto(n) == {s \in SUBSET S : Cardinality(s) <= n}
           Rule(g, s) == g[s] = IF s = {} THEN base ELSE step[<<pick[s], g[s \ {pick[s]}]>>]
           C == {n \in Nat : \E g \in [Upto(n) -> A] : \A s \in Upto(n) : Rule(g, s)}
<1>1. \A s \in SUBSET S : IsFiniteSet(s) /\ Cardinality(s) \in Nat
  BY FS_Subset, FS_CardinalityType
<1>2. ASSUME NEW n \in Nat, NEW s \in Upto(n), s # {}
      PROVE  pick[s] \in S /\ s \ {pick[s]} \in SUBSET S /\ n # 0
             /\ Cardinality(s \ {pick[s]}) <= n - 1
  <2>1. pick[s] \in s /\ Cardinality(s \ {pick[s]}) = Cardinality(s) - 1
    BY <1>1, <1>2, FS_RemoveElement
  <2>2. Cardinality(s) # 0
    BY <1>1, <1>2, FS_EmptySet
  <2> QED BY <1>1, <1>2, <2>1, <2>2
<1>3. ASSUME NEW n \in Nat, \A m \in Nat : m < n => m \in C
      PROVE  n \in C
  <2>1. CASE n = 0
    <3>1. \A s \in Upto(n) : s = {}
      BY <1>2, <2>1
    <3> DEFINE g == [s \in Upto(n) |-> base]
    <3>2. g \in [Upto(n) -> A] /\ \A s \in Upto(n) : Rule(g, s)
      BY <3>1
    <3> QED BY <3>2
  <2>2. CASE n # 0
    <3>0. n - 1 \in C
      <4> HIDE DEF C
      <4> QED BY <1>3, <2>2
    <3>1. PICK h \in [Upto(n - 1) -> A] : \A s \in Upto(n - 1) : Rule(h, s)
      BY <3>0
    <3> DEFINE g == [s \in Upto(n) |-> IF s \in Upto(n - 1) THEN h[s]
                                       ELSE step[<<pick[s], h[s \ {pick[s]}]>>]]
    <3>2. \A s \in Upto(n - 1) : s \in Upto(n) /\ g[s] = h[s]
      BY <1>1, <2>2
    <3>3. ASSUME NEW s \in Upto(n) PROVE g[s] \in A /\ Rule(g, s)
      <4>1. CASE s = {}
        <5>1. s \in Upto(n - 1)
          BY <4>1, <2>2, FS_EmptySet
        <5> QED BY <3>1, <3>2, <4>1, <5>1
      <4>2. CASE s # {}
        <5>1. s \ {pick[s]} \in Upto(n - 1) /\ pick[s] \in S
          BY <1>2, <4>2
        <5>2. g[s \ {pick[s]}] = h[s \ {pick[s]}] /\ h[s \ {pick[s]}] \in A
          BY <3>2, <5>1
        <5>3. CASE s \in Upto(n - 1)
          <6>1. h[s] = step[<<pick[s], h[s \ {pick[s]}]>>] /\ h[s] \in A
            BY <3>1, <4>2, <5>3
          <6> QED BY <3>2, <4>2, <5>2, <5>3, <6>1
        <5>4. CASE s \notin Upto(n - 1)
          <6>1. g[s] = step[<<pick[s], h[s \ {pick[s]}]>>]
            BY <3>3, <5>4
          <6>2. step[<<pick[s], h[s \ {pick[s]}]>>] \in A
            BY <5>1, <5>2
          <6> QED BY <4>2, <5>2, <6>1, <6>2
        <5> QED BY <5>3, <5>4
      <4> QED BY <4>1, <4>2
    <3>4. g \in [Upto(n) -> A]
      BY <3>3
    <3> HIDE DEF g
    <3> QED BY <3>3, <3>4
  <2> QED BY <2>1, <2>2
<1>4. Cardinality(S) \in C
  <2>1. Nat \subseteq C
    <3> HIDE DEF C
    <3> QED BY <1>3, Induction
  <2> QED BY <2>1, <1>1
<1>5. Upto(Cardinality(S)) = SUBSET S
  BY FS_Subset, <1>1
<1> QED BY <1>4, <1>5

------------------------------------------------------------------------------
(* Sums.                                                                   *)

Picked(s) == CHOOSE x \in s : TRUE

IntsOn(f, T) == \A x \in T : f[x] \in Int

\* SumFunctionOnSet(f, T) adds in the order of CHOOSE; g is its value on subsets.
Adds(g, f, T) ==
  g = [s \in SUBSET T |-> IF s = {} THEN 0 ELSE f[Picked(s)] + g[s \ {Picked(s)}]]

LEMMA SumAdds ==
  ASSUME NEW T, IsFiniteSet(T), NEW f, IntsOn(f, T)
  PROVE  \E g \in [SUBSET T -> Int] : Adds(g, f, T) /\ SumFunctionOnSet(f, T) = g[T]
<1> DEFINE step == [p \in T \X Int |-> f[p[1]] + p[2]]
           pick == [s \in SUBSET T |-> Picked(s)]
<1>1. \A s \in SUBSET T : s # {} => Picked(s) \in s
  BY DEF Picked
<1>2. step \in [T \X Int -> Int]
  BY DEF IntsOn
<1>3. Picks(pick, T)
  BY <1>1 DEF Picks
<1>4. PICK g \in [SUBSET T -> Int] : Folds(g, T, 0, step, pick)
  <2> HIDE DEF step, pick
  <2>1. 0 \in Int
    OBVIOUS
  <2> QED BY <1>2, <1>3, <2>1, FoldExists
<1>5. ASSUME NEW s \in SUBSET T
      PROVE  g[s] = IF s = {} THEN 0 ELSE f[Picked(s)] + g[s \ {Picked(s)}]
  <2> USE DEF Folds
  <2>1. CASE s = {}
    BY <1>4, <2>1
  <2>2. CASE s # {}
    <3>1. Picked(s) \in T /\ pick[s] = Picked(s) /\ s \ {Picked(s)} \in SUBSET T
      BY <1>1, <2>2
    <3>2. g[s] = step[<<Picked(s), g[s \ {Picked(s)}]>>]
      BY <1>4, <2>2, <3>1
    <3>3. <<Picked(s), g[s \ {Picked(s)}]>> \in T \X Int
      BY <3>1
    <3> QED BY <2>2, <3>2, <3>3
  <2> QED BY <2>1, <2>2
<1>6. Adds(g, f, T)
  BY <1>5 DEF Adds
<1> DEFINE iter == CHOOSE h : Adds(h, f, T)
<1>7. Adds(iter, f, T)
  BY <1>6
<1>8. SumFunctionOnSet(f, T) = iter[T]
  BY DEF SumFunctionOnSet, FoldFunctionOnSet, MapThenFoldSet, Adds, Picked
<1>9. ASSUME NEW h, Adds(h, f, T) PROVE h \in [SUBSET T -> Int]
  <2> DEFINE B == {s \in SUBSET T : h[s] \in Int}
  <2>1. ASSUME NEW s \in SUBSET T, \A x \in s : s \ {x} \in B PROVE s \in B
    <3>1. h[s] = IF s = {} THEN 0 ELSE f[Picked(s)] + h[s \ {Picked(s)}]
      BY <1>9 DEF Adds
    <3>2. CASE s = {}
      BY <3>1, <3>2
    <3>3. CASE s # {}
      <4>1. Picked(s) \in s
        BY <1>1, <3>3
      <4>2. f[Picked(s)] \in Int /\ h[s \ {Picked(s)}] \in Int
        BY <2>1, <4>1 DEF IntsOn
      <4> QED BY <3>1, <3>3, <4>2
    <3> QED BY <3>2, <3>3
  <2>2. SUBSET T \subseteq B
    <3>1. Inductive(B, T)
      BY <2>1 DEF Inductive
    <3> HIDE DEF B
    <3> QED BY <3>1, FiniteSubsetInduction
  <2>3. h = [s \in SUBSET T |-> h[s]]
    BY <1>9, Zenon DEF Adds
  <2> QED BY <2>2, <2>3
<1>10. iter \in [SUBSET T -> Int]
  <2> HIDE DEF iter
  <2> QED BY <1>7, <1>9
<1> HIDE DEF iter
<1> QED BY <1>7, <1>8, <1>10

\* Which element comes first does not matter.
AnyFirst(g, f, T) == \A s \in SUBSET T : \A x \in s : g[s] = f[x] + g[s \ {x}]

LEMMA AddsAnyFirst ==
  ASSUME NEW T, IsFiniteSet(T), NEW f, IntsOn(f, T),
         NEW g \in [SUBSET T -> Int], Adds(g, f, T)
  PROVE  AnyFirst(g, f, T)
<1> USE DEF AnyFirst
<1> DEFINE B == {s \in SUBSET T : \A x \in s : g[s] = f[x] + g[s \ {x}]}
<1>1. ASSUME NEW s \in SUBSET T, s # {}
      PROVE  Picked(s) \in s /\ g[s] = f[Picked(s)] + g[s \ {Picked(s)}]
  BY <1>1 DEF Picked, Adds
<1>2. ASSUME NEW s \in SUBSET T, \A x \in s : s \ {x} \in B PROVE s \in B
  <2>1. SUFFICES ASSUME NEW x \in s PROVE g[s] = f[x] + g[s \ {x}]
    OBVIOUS
  <2> DEFINE p == Picked(s)
  <2>2. p \in s /\ g[s] = f[p] + g[s \ {p}]
    BY <1>1
  <2> HIDE DEF p
  <2>3. CASE p = x
    BY <2>2, <2>3
  <2>4. CASE p # x
    <3>1. s \ {p} \in B /\ x \in s \ {p}
      BY <1>2, <2>2, <2>4
    <3>2. g[s \ {p}] = f[x] + g[(s \ {p}) \ {x}]
      BY <3>1
    <3>3. s \ {x} \in B /\ p \in s \ {x}
      BY <1>2, <2>2, <2>4
    <3>4. g[s \ {x}] = f[p] + g[(s \ {x}) \ {p}]
      BY <3>3
    <3>5. (s \ {p}) \ {x} = (s \ {x}) \ {p} /\ (s \ {x}) \ {p} \in SUBSET T
      OBVIOUS
    <3>6. f[x] \in Int /\ f[p] \in Int /\ g[(s \ {x}) \ {p}] \in Int
      BY <2>2, <3>5 DEF IntsOn
    <3> DEFINE r == g[(s \ {x}) \ {p}]
    <3>7. g[s] = f[p] + (f[x] + r) /\ g[s \ {x}] = f[p] + r
      BY <2>2, <3>2, <3>4, <3>5
    <3> HIDE DEF r
    <3> QED BY <3>6, <3>7 DEF r
  <2> QED BY <2>3, <2>4
<1>3. SUBSET T \subseteq B
  <2>1. Inductive(B, T)
    BY <1>2 DEF Inductive
  <2> HIDE DEF B
  <2> QED BY <2>1, FiniteSubsetInduction
<1> QED BY <1>3

\* The laws of sums over finite sets.
LEMMA SumEmpty == ASSUME NEW f PROVE SumFunctionOnSet(f, {}) = 0
<1>1. IsFiniteSet({}) /\ IntsOn(f, {})
  BY FS_EmptySet DEF IntsOn
<1>2. PICK g \in [SUBSET {} -> Int] : Adds(g, f, {}) /\ SumFunctionOnSet(f, {}) = g[{}]
  BY <1>1, SumAdds
<1> QED BY <1>2 DEF Adds

LEMMA SumType ==
  ASSUME NEW T, IsFiniteSet(T), NEW f, IntsOn(f, T)
  PROVE  SumFunctionOnSet(f, T) \in Int
<1>1. PICK g \in [SUBSET T -> Int] : Adds(g, f, T) /\ SumFunctionOnSet(f, T) = g[T]
  BY SumAdds
<1>2. g[T] \in Int
  OBVIOUS
<1> QED BY <1>1, <1>2

LEMMA SumRemove ==
  ASSUME NEW T, IsFiniteSet(T), NEW f, IntsOn(f, T), NEW x \in T
  PROVE  SumFunctionOnSet(f, T) = f[x] + SumFunctionOnSet(f, T \ {x})
<1> DEFINE U == T \ {x}
<1>1. IsFiniteSet(U) /\ U \subseteq T
  BY FS_Subset
<1>2. PICK g \in [SUBSET T -> Int] : Adds(g, f, T) /\ SumFunctionOnSet(f, T) = g[T]
  BY SumAdds
<1>3. PICK h \in [SUBSET U -> Int] : Adds(h, f, U) /\ SumFunctionOnSet(f, U) = h[U]
  <2> HIDE DEF U
  <2>1. IntsOn(f, U)
    BY <1>1 DEF IntsOn
  <2> QED BY <1>1, <2>1, SumAdds
<1>4. g[T] = f[x] + g[U]
  <2>1. AnyFirst(g, f, T)
    BY <1>2, AddsAnyFirst
  <2> QED BY <2>1 DEF AnyFirst
<1> DEFINE B == {s \in SUBSET U : g[s] = h[s]}
<1>5. ASSUME NEW s \in SUBSET U, \A y \in s : s \ {y} \in B PROVE s \in B
  <2>1. g[s] = IF s = {} THEN 0 ELSE f[Picked(s)] + g[s \ {Picked(s)}]
    BY <1>1, <1>2 DEF Adds
  <2>2. h[s] = IF s = {} THEN 0 ELSE f[Picked(s)] + h[s \ {Picked(s)}]
    BY <1>3 DEF Adds
  <2>3. s # {} => Picked(s) \in s
    BY DEF Picked
  <2> QED BY <1>5, <2>1, <2>2, <2>3
<1>6. SUBSET U \subseteq B
  <2>1. Inductive(B, U)
    BY <1>5 DEF Inductive
  <2> HIDE DEF B, U
  <2> QED BY <1>1, <2>1, FiniteSubsetInduction
<1>7. g[U] = h[U]
  BY <1>6
<1> QED BY <1>2, <1>3, <1>4, <1>7

\* A sum in terms of the sum without one element.
Stepwise(f, T) ==
  \A s \in SUBSET T : \A x \in s :
    /\ f[x] \in Int
    /\ SumFunctionOnSet(f, s \ {x}) \in Int
    /\ SumFunctionOnSet(f, s) = f[x] + SumFunctionOnSet(f, s \ {x})

LEMMA SumStep == ASSUME NEW T, IsFiniteSet(T), NEW f, IntsOn(f, T) PROVE Stepwise(f, T)
<1> SUFFICES ASSUME NEW s \in SUBSET T, NEW x \in s
             PROVE  /\ f[x] \in Int
                    /\ SumFunctionOnSet(f, s \ {x}) \in Int
                    /\ SumFunctionOnSet(f, s) = f[x] + SumFunctionOnSet(f, s \ {x})
  BY DEF Stepwise
<1>1. IsFiniteSet(s) /\ IsFiniteSet(s \ {x})
  BY FS_Subset
<1>2. IntsOn(f, s) /\ IntsOn(f, s \ {x}) /\ f[x] \in Int
  BY DEF IntsOn
<1>3. SumFunctionOnSet(f, s \ {x}) \in Int
  BY <1>1, <1>2, SumType
<1>4. SumFunctionOnSet(f, s) = f[x] + SumFunctionOnSet(f, s \ {x})
  BY <1>1, <1>2, SumRemove
<1> QED BY <1>2, <1>3, <1>4

AtMost(f, h, T) == \A x \in T : f[x] <= h[x]

LEMMA SumMonotone ==
  ASSUME NEW T, IsFiniteSet(T), NEW f, NEW h, IntsOn(f, T), IntsOn(h, T), AtMost(f, h, T)
  PROVE  SumFunctionOnSet(f, T) <= SumFunctionOnSet(h, T)
<1> DEFINE B == {s \in SUBSET T : SumFunctionOnSet(f, s) <= SumFunctionOnSet(h, s)}
<1>0. Stepwise(f, T) /\ Stepwise(h, T)
  BY SumStep
<1>1. ASSUME NEW s \in SUBSET T, \A x \in s : s \ {x} \in B PROVE s \in B
  <2>1. CASE s = {}
    BY <2>1, SumEmpty
  <2>2. CASE s # {}
    <3>1. PICK x \in s : TRUE
      BY <2>2
    <3>2. s \ {x} \in B /\ f[x] <= h[x]
      BY <1>1, <3>1 DEF AtMost
    <3>3. /\ f[x] \in Int /\ SumFunctionOnSet(f, s \ {x}) \in Int
          /\ SumFunctionOnSet(f, s) = f[x] + SumFunctionOnSet(f, s \ {x})
      BY <1>0, <3>1 DEF Stepwise
    <3>4. /\ h[x] \in Int /\ SumFunctionOnSet(h, s \ {x}) \in Int
          /\ SumFunctionOnSet(h, s) = h[x] + SumFunctionOnSet(h, s \ {x})
      BY <1>0, <3>1 DEF Stepwise
    <3> QED BY <3>2, <3>3, <3>4
  <2> QED BY <2>1, <2>2
<1>2. Inductive(B, T)
  BY <1>1 DEF Inductive
<1>3. SUBSET T \subseteq B
  <2> HIDE DEF B
  <2> QED BY <1>2, FiniteSubsetInduction
<1> QED BY <1>3

\* The sum of terms that are all u at least.
LEMMA SumAtLeast ==
  ASSUME NEW T, IsFiniteSet(T), NEW f, IntsOn(f, T), NEW u \in Int,
         \A x \in T : u <= f[x]
  PROVE  u * Cardinality(T) <= SumFunctionOnSet(f, T)
<1>0. Stepwise(f, T)
  BY SumStep
<1> DEFINE B == {s \in SUBSET T : u * Cardinality(s) <= SumFunctionOnSet(f, s)}
<1>1. ASSUME NEW s \in SUBSET T, \A x \in s : s \ {x} \in B PROVE s \in B
  <2>1. CASE s = {}
    <3>1. u * Cardinality(s) = 0
      BY <2>1, FS_EmptySet
    <3> QED BY <2>1, <3>1, SumEmpty
  <2>2. CASE s # {}
    <3>1. PICK x \in s : TRUE
      BY <2>2
    <3>2. s \ {x} \in B /\ u <= f[x]
      BY <1>1, <3>1
    <3>3. /\ f[x] \in Int /\ SumFunctionOnSet(f, s \ {x}) \in Int
          /\ SumFunctionOnSet(f, s) = f[x] + SumFunctionOnSet(f, s \ {x})
      BY <1>0, <3>1 DEF Stepwise
    <3>4. IsFiniteSet(s) /\ Cardinality(s) \in Nat /\ Cardinality(s \ {x}) = Cardinality(s) - 1
      BY <3>1, FS_Subset, FS_CardinalityType, FS_RemoveElement
    <3>5. u * (Cardinality(s) - 1) = u * Cardinality(s) - u
      BY <3>4
    <3> DEFINE c == u * Cardinality(s)
    <3>6. c \in Int
      BY <3>4
    <3>7. c - u <= SumFunctionOnSet(f, s \ {x})
      BY <3>2, <3>4, <3>5
    <3> HIDE DEF c
    <3>8. c <= SumFunctionOnSet(f, s)
      BY <3>2, <3>3, <3>6, <3>7
    <3> QED BY <3>8 DEF c
  <2> QED BY <2>1, <2>2
<1>2. Inductive(B, T)
  BY <1>1 DEF Inductive
<1>3. SUBSET T \subseteq B
  <2> HIDE DEF B
  <2> QED BY <1>2, FiniteSubsetInduction
<1> QED BY <1>3

LEMMA SumPositive ==
  ASSUME NEW T, IsFiniteSet(T), NEW f, IntsOn(f, T), SumFunctionOnSet(f, T) > 0
  PROVE  \E x \in T : f[x] > 0
<1> DEFINE zero == [x \in T |-> 0]
<1> SUFFICES ASSUME \A x \in T : ~(f[x] > 0) PROVE FALSE
  OBVIOUS
<1>1. IntsOn(zero, T) /\ AtMost(f, zero, T)
  BY DEF IntsOn, AtMost
<1>2. SumFunctionOnSet(f, T) <= SumFunctionOnSet(zero, T)
  <2> HIDE DEF zero
  <2> QED BY <1>1, SumMonotone
<1>3. SumFunctionOnSet(zero, T) = 0
  <2> DEFINE B == {s \in SUBSET T : SumFunctionOnSet(zero, s) = 0}
  <2>1. ASSUME NEW s \in SUBSET T, \A x \in s : s \ {x} \in B PROVE s \in B
    <3>1. CASE s = {}
      BY <3>1, SumEmpty
    <3>2. CASE s # {}
      <4>1. PICK x \in s : TRUE
        BY <3>2
      <4>2. zero[x] = 0 /\ SumFunctionOnSet(zero, s \ {x}) = 0
        BY <2>1, <4>1
      <4>3. SumFunctionOnSet(zero, s) = zero[x] + SumFunctionOnSet(zero, s \ {x})
        <5>1. Stepwise(zero, T)
          <6> HIDE DEF zero
          <6> QED BY <1>1, SumStep
        <5> QED BY <4>1, <5>1 DEF Stepwise
      <4> QED BY <4>2, <4>3
    <3> QED BY <3>1, <3>2
  <2>2. Inductive(B, T)
    BY <2>1 DEF Inductive
  <2>3. SUBSET T \subseteq B
    <3> HIDE DEF B
    <3> QED BY <2>2, FiniteSubsetInduction
  <2> QED BY <2>3
<1>4. SumFunctionOnSet(f, T) \in Int
  BY SumType
<1> QED BY <1>2, <1>3, <1>4

LEMMA SumHolds ==
  ASSUME NEW T, IsFiniteSet(T), NEW f, IntsOn(f, T), \A x \in T : f[x] >= 0, NEW x \in T
  PROVE  f[x] <= SumFunctionOnSet(f, T)
<1> DEFINE U == T \ {x}
<1>1. IsFiniteSet(U) /\ IntsOn(f, U) /\ (\A y \in U : 0 <= f[y]) /\ U \subseteq T /\ f[x] \in Int
  BY FS_Subset DEF IntsOn
<1>2. SumFunctionOnSet(f, T) = f[x] + SumFunctionOnSet(f, U)
  BY SumRemove
<1> HIDE DEF U
<1>3. 0 * Cardinality(U) <= SumFunctionOnSet(f, U) /\ SumFunctionOnSet(f, U) \in Int
  BY <1>1, SumAtLeast, SumType
<1>4. 0 * Cardinality(U) = 0
  BY <1>1, FS_CardinalityType
<1> QED BY <1>1, <1>2, <1>3, <1>4

Agree(f, h, T) == \A x \in T : f[x] = h[x]

LEMMA SumAgree ==
  ASSUME NEW T, IsFiniteSet(T), NEW f, NEW h, IntsOn(f, T), Agree(f, h, T)
  PROVE  SumFunctionOnSet(f, T) = SumFunctionOnSet(h, T)
<1>1. IntsOn(h, T) /\ AtMost(f, h, T) /\ AtMost(h, f, T)
  BY DEF IntsOn, Agree, AtMost
<1>2. SumFunctionOnSet(f, T) \in Int /\ SumFunctionOnSet(h, T) \in Int
  BY <1>1, SumType
<1>3. SumFunctionOnSet(f, T) <= SumFunctionOnSet(h, T) /\ SumFunctionOnSet(h, T) <= SumFunctionOnSet(f, T)
  BY <1>1, SumMonotone
<1> QED BY <1>2, <1>3

\* Terms that are nothing may be left out.
LEMMA SumDrop ==
  ASSUME NEW T, IsFiniteSet(T), NEW f, IntsOn(f, T), NEW U \in SUBSET T, \A x \in T \ U : f[x] = 0
  PROVE  SumFunctionOnSet(f, T) = SumFunctionOnSet(f, U)
<1> DEFINE V == T \ U
           B == {s \in SUBSET V : SumFunctionOnSet(f, U \cup s) = SumFunctionOnSet(f, U)}
<1>0. Stepwise(f, T) /\ IsFiniteSet(V)
  BY SumStep, FS_Subset
<1>1. ASSUME NEW s \in SUBSET V, \A x \in s : s \ {x} \in B PROVE s \in B
  <2>1. CASE s = {}
    BY <2>1
  <2>2. CASE s # {}
    <3>1. PICK x \in s : TRUE
      BY <2>2
    <3>2. s \ {x} \in B /\ f[x] = 0 /\ U \cup s \in SUBSET T /\ x \in U \cup s
      BY <1>1, <3>1
    <3>3. (U \cup s) \ {x} = U \cup (s \ {x})
      BY <3>1
    <3>4. /\ SumFunctionOnSet(f, (U \cup s) \ {x}) \in Int
          /\ SumFunctionOnSet(f, U \cup s) = f[x] + SumFunctionOnSet(f, (U \cup s) \ {x})
      BY <1>0, <3>2 DEF Stepwise
    <3>5. SumFunctionOnSet(f, U \cup (s \ {x})) = SumFunctionOnSet(f, U)
      BY <3>2
    <3>6. SumFunctionOnSet(f, U \cup s) = SumFunctionOnSet(f, U)
      <4>1. SumFunctionOnSet(f, U \cup s) = SumFunctionOnSet(f, (U \cup s) \ {x})
        BY <3>2, <3>4
      <4> QED BY <3>3, <3>5, <4>1, Zenon
    <3> QED BY <3>6
  <2> QED BY <2>1, <2>2
<1>2. Inductive(B, V)
  BY <1>1 DEF Inductive
<1>3. SUBSET V \subseteq B
  <2> HIDE DEF B, V
  <2> QED BY <1>0, <1>2, FiniteSubsetInduction
<1>4. V \in B /\ U \cup V = T
  BY <1>3
<1> QED BY <1>4

LEMMA SumChange ==
  ASSUME NEW T, IsFiniteSet(T), NEW f, NEW h, IntsOn(f, T), IntsOn(h, T), NEW x \in T,
         Agree(f, h, T \ {x})
  PROVE  SumFunctionOnSet(f, T) = SumFunctionOnSet(h, T) + f[x] - h[x]
<1> DEFINE U == T \ {x}
<1>1. IsFiniteSet(U) /\ IntsOn(f, U) /\ IntsOn(h, U) /\ f[x] \in Int /\ h[x] \in Int
  BY FS_Subset DEF IntsOn
<1>2. SumFunctionOnSet(f, T) = f[x] + SumFunctionOnSet(f, U)
  BY SumRemove
<1>3. SumFunctionOnSet(h, T) = h[x] + SumFunctionOnSet(h, U)
  BY SumRemove
<1>4. SumFunctionOnSet(f, U) = SumFunctionOnSet(h, U)
  <2> HIDE DEF U
  <2>1. Agree(f, h, U)
    BY DEF U
  <2> QED BY <1>1, <2>1, SumAgree
<1>5. SumFunctionOnSet(h, U) \in Int
  <2> HIDE DEF U
  <2> QED BY <1>1, SumType
<1> HIDE DEF U
<1> QED BY <1>1, <1>2, <1>3, <1>4, <1>5

\* A sum may be taken part by part.
Part(f, k, H, s) == [h \in H |-> SumFunctionOnSet(f, {p \in s : k[p] = h})]

LEMMA PartInts ==
  ASSUME NEW P, IsFiniteSet(P), NEW H, NEW f, IntsOn(f, P), NEW k, NEW s \in SUBSET P
  PROVE  IntsOn(Part(f, k, H, s), H)
<1>1. ASSUME NEW h \in H PROVE SumFunctionOnSet(f, {p \in s : k[p] = h}) \in Int
  <2> DEFINE Q == {p \in s : k[p] = h}
  <2>1. IsFiniteSet(Q) /\ IntsOn(f, Q)
    BY FS_Subset DEF IntsOn
  <2> HIDE DEF Q
  <2>2. SumFunctionOnSet(f, Q) \in Int
    BY <2>1, SumType
  <2> QED BY <2>2 DEF Q
<1> QED BY <1>1 DEF IntsOn, Part

LEMMA SumPartition ==
  ASSUME NEW P, IsFiniteSet(P), NEW H, IsFiniteSet(H), NEW f, IntsOn(f, P),
         NEW k, \A p \in P : k[p] \in H
  PROVE  SumFunctionOnSet(Part(f, k, H, P), H) = SumFunctionOnSet(f, P)
<1> DEFINE B == {s \in SUBSET P : SumFunctionOnSet(Part(f, k, H, s), H) = SumFunctionOnSet(f, s)}
<1>0. Stepwise(f, P)
  BY SumStep
<1>1. ASSUME NEW s \in SUBSET P, \A x \in s : s \ {x} \in B PROVE s \in B
  <2>1. CASE s = {}
    <3>1. \A h \in H : Part(f, k, H, s)[h] = 0
      <4>1. \A h : {p \in s : k[p] = h} = {}
        BY <2>1
      <4> QED BY <4>1, SumEmpty DEF Part
    <3>2. IntsOn(Part(f, k, H, s), H)
      BY <3>1 DEF IntsOn
    <3> DEFINE z == Part(f, k, H, s)
               E == {}
    <3>3. SumFunctionOnSet(z, H) = SumFunctionOnSet(z, E)
      <4>1. E \in SUBSET H /\ \A h \in H \ E : z[h] = 0
        BY <3>1
      <4> HIDE DEF z, E
      <4> QED BY <3>2, <4>1, SumDrop DEF z
    <3> QED BY <2>1, <3>3, SumEmpty
  <2>2. CASE s # {}
    <3>1. PICK x \in s : TRUE
      BY <2>2
    <3> DEFINE r == s \ {x}
               new == Part(f, k, H, s)
               old == Part(f, k, H, r)
    <3>2. r \in B /\ x \in P /\ k[x] \in H /\ r \in SUBSET P
      BY <1>1, <3>1
    <3>3. /\ f[x] \in Int /\ SumFunctionOnSet(f, r) \in Int
          /\ SumFunctionOnSet(f, s) = f[x] + SumFunctionOnSet(f, r)
      BY <1>0, <3>1 DEF Stepwise
    <3>4. IntsOn(new, H) /\ IntsOn(old, H)
      BY <3>2, PartInts
    <3>5. ASSUME NEW h \in H \ {k[x]} PROVE new[h] = old[h]
      <4>1. {p \in s : k[p] = h} = {p \in r : k[p] = h}
        OBVIOUS
      <4> QED BY <4>1 DEF Part
    <3>6. new[k[x]] = f[x] + old[k[x]]
      <4> DEFINE Q == {p \in s : k[p] = k[x]}
      <4>1. Q \in SUBSET P /\ x \in Q /\ Q \ {x} = {p \in r : k[p] = k[x]}
        BY <3>1
      <4>2. SumFunctionOnSet(f, Q) = f[x] + SumFunctionOnSet(f, Q \ {x})
        <5> HIDE DEF Q
        <5> QED BY <1>0, <4>1 DEF Stepwise
      <4>3. new[k[x]] = SumFunctionOnSet(f, Q)
        BY <3>2 DEF Part
      <4>4. old[k[x]] = SumFunctionOnSet(f, {p \in r : k[p] = k[x]})
        BY <3>2 DEF Part
      <4> QED BY <4>1, <4>2, <4>3, <4>4
    <3>7. Agree(new, old, H \ {k[x]})
      <4> HIDE DEF new, old
      <4> QED BY <3>5 DEF Agree
    <3>8. SumFunctionOnSet(old, H) = SumFunctionOnSet(f, r)
      BY <3>2
    <3> HIDE DEF new, old, r
    <3>9. SumFunctionOnSet(new, H) = SumFunctionOnSet(old, H) + new[k[x]] - old[k[x]]
      BY <3>2, <3>4, <3>7, SumChange
    <3>10. old[k[x]] \in Int
      BY <3>2, <3>4 DEF IntsOn
    <3>11. SumFunctionOnSet(new, H) = SumFunctionOnSet(f, s)
      BY <3>3, <3>6, <3>8, <3>9, <3>10
    <3> QED BY <3>11 DEF new
  <2> QED BY <2>1, <2>2
<1>2. Inductive(B, P)
  BY <1>1 DEF Inductive
<1>3. SUBSET P \subseteq B
  <2> HIDE DEF B
  <2> QED BY <1>2, FiniteSubsetInduction
<1> QED BY <1>3

\* The sum of the first n terms, when those after the m-th are all u.
LEMMA SumConstant ==
  ASSUME NEW m \in Nat, NEW n \in Nat, m <= n, NEW f, IntsOn(f, 1..n), NEW u \in Int,
         \A j \in (m + 1)..n : f[j] = u
  PROVE  SumFunctionOnSet(f, 1..n) = SumFunctionOnSet(f, 1..m) + (n - m) * u
<1> DEFINE C == {c \in Nat : m + c <= n =>
                     SumFunctionOnSet(f, 1..(m + c)) = SumFunctionOnSet(f, 1..m) + c * u}
<1>1. ASSUME NEW c \in Nat, \A d \in Nat : d < c => d \in C PROVE c \in C
  <2>0. SumFunctionOnSet(f, 1..m) \in Int
    <3> DEFINE S == 1..m
    <3>1. IsFiniteSet(S) /\ IntsOn(f, S)
      BY FS_Interval DEF IntsOn
    <3> HIDE DEF S
    <3>2. SumFunctionOnSet(f, S) \in Int
      BY <3>1, SumType
    <3> QED BY <3>2 DEF S
  <2>1. CASE c = 0
    <3>1. m + c = m /\ c * u = 0
      BY <2>1
    <3> QED BY <2>0, <3>1
  <2>2. CASE c # 0
    <3> SUFFICES ASSUME m + c <= n
                 PROVE  SumFunctionOnSet(f, 1..(m + c)) = SumFunctionOnSet(f, 1..m) + c * u
      OBVIOUS
    <3>1. c - 1 \in Nat /\ c - 1 < c /\ m + (c - 1) <= n
      BY <2>2
    <3>2. SumFunctionOnSet(f, 1..(m + (c - 1))) = SumFunctionOnSet(f, 1..m) + (c - 1) * u
      BY <1>1, <3>1
    <3> DEFINE S == 1..(m + c)
    <3>3. IsFiniteSet(S) /\ IntsOn(f, S) /\ m + c \in S /\ S \ {m + c} = 1..(m + (c - 1))
          /\ f[m + c] = u
      BY <2>2, FS_Interval DEF IntsOn
    <3> HIDE DEF S
    <3>4. SumFunctionOnSet(f, S) = u + SumFunctionOnSet(f, 1..(m + (c - 1)))
      BY <3>3, SumRemove
    <3>5. (c - 1) * u = c * u - u
      BY <3>1
    <3> DEFINE cu == c * u
    <3>6. cu \in Int
      OBVIOUS
    <3>7. SumFunctionOnSet(f, 1..(m + (c - 1))) = SumFunctionOnSet(f, 1..m) + (cu - u)
      BY <3>2, <3>5
    <3> HIDE DEF cu
    <3>8. SumFunctionOnSet(f, S) = SumFunctionOnSet(f, 1..m) + cu
      BY <2>0, <3>4, <3>6, <3>7
    <3> QED BY <3>8 DEF S, cu
  <2> QED BY <2>1, <2>2
<1>2. Nat \subseteq C
  <2> HIDE DEF C
  <2> QED BY <1>1, Induction
<1> DEFINE c == n - m
<1>3. c \in Nat /\ m + c = n
  OBVIOUS
<1> HIDE DEF c
<1>4. c \in C
  BY <1>2, <1>3
<1>5. SumFunctionOnSet(f, 1..(m + c)) = SumFunctionOnSet(f, 1..m) + c * u
  BY <1>3, <1>4
<1> QED BY <1>3, <1>5 DEF c
==============================================================================
