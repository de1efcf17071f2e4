------------------------------ MODULE Induction ------------------------------
(***************************************************************************)
(* Induction and sums, for the proofs about the other modules.             *)
(*                                                                         *)
(* The library's induction theorems take a predicate; here the predicate   *)
(* is the set of the numbers, or of the subsets, that satisfy it.  A sum   *)
(* is SumFunctionOnSet of the community modules, which adds the values of  *)
(* a function in whatever order CHOOSE picks its arguments.                *)
(***************************************************************************)
EXTENDS Integers, FiniteSets, Functions, FiniteSetTheorems, WellFoundedInduction, TLAPS

\* A set of natural numbers that is not empty has a least one.
LEMMA LeastNat ==
  ASSUME NEW T, T \subseteq Nat, T # {}
  PROVE  \E m \in T : \A k \in T : m <= k
<1> DEFINE R == {ss \in Nat \X Nat : ss[1] < ss[2]}
<1>1. IsWellFoundedOn(R, Nat)
  BY NatLessThanWellFounded DEF OpToRel
<1>2. PICK m \in T : \A k \in T : <<k, m>> \notin R
  <2> HIDE DEF R
  <2> QED
    BY <1>1, WFMin
<1>3. ASSUME NEW k \in T PROVE m <= k
  <2>1. <<k, m>> \notin R
    BY <1>2
  <2>2. <<k, m>> \in Nat \X Nat /\ <<k, m>>[1] = k /\ <<k, m>>[2] = m
    BY m \in T
  <2>3. ~ (k < m)
    BY <2>1, <2>2
  <2> QED
    BY <2>3, m \in Nat, k \in Nat
<1> QED
  BY <1>3

\* Induction over the natural numbers: Good are those that have the property.
LEMMA NatInduct ==
  ASSUME NEW Good, Good \subseteq Nat, 0 \in Good, \A n \in Good : n + 1 \in Good
  PROVE  Good = Nat
<1> DEFINE Bad == Nat \ Good
<1> SUFFICES ASSUME Bad # {} PROVE FALSE
  OBVIOUS
<1>1. PICK m \in Bad : \A k \in Bad : m <= k
  <2> Bad \subseteq Nat
    OBVIOUS
  <2> HIDE DEF Bad
  <2> QED
    BY LeastNat
<1>2. m - 1 \in Nat
  OBVIOUS
<1>3. m - 1 \in Good
  BY <1>1, <1>2
<1> QED
  BY <1>3

\* Induction over a finite set, one element after the other.
LEMMA SetInduct ==
  ASSUME NEW S, IsFiniteSet(S), NEW Good, {} \in Good,
         \A T \in SUBSET S : \A x \in S \ T : T \in Good => T \cup {x} \in Good
  PROVE  S \in Good
<1> DEFINE Left == {n \in Nat : \E T \in SUBSET S : T \in Good /\ Cardinality(S \ T) = n}
<1>1. Left # {} /\ Left \subseteq Nat
  <2>1. Cardinality(S \ {}) \in Nat
    BY FS_CardinalityType, S \ {} = S
  <2> QED
    BY <2>1
<1>2. PICK m \in Left : \A k \in Left : m <= k
  <2> HIDE DEF Left
  <2> QED
    BY <1>1, LeastNat
<1>3. PICK T \in SUBSET S : T \in Good /\ Cardinality(S \ T) = m
  OBVIOUS
<1>4. ASSUME NEW x \in S \ T PROVE FALSE
  <2>1. IsFiniteSet(S \ T)
    BY FS_Difference
  <2>2. Cardinality((S \ T) \ {x}) = m - 1 /\ IsFiniteSet((S \ T) \ {x})
    BY <2>1, <1>3, FS_RemoveElement
  <2>3. (S \ T) \ {x} = S \ (T \cup {x})
    OBVIOUS
  <2>4. m - 1 \in Nat
    BY <2>2, FS_CardinalityType
  <2>5. m - 1 \in Left
    BY <1>3, <2>2, <2>3, <2>4
  <2>6. m <= m - 1
    BY <2>5, <1>2
  <2> QED
    BY <2>6, <2>4
<1>5. S = T
  BY <1>4
<1> QED
  BY <1>3, <1>5
------------------------------------------------------------------------------
(* Sums *)

\* The sums over the subsets of S, as SumFunctionOnSet computes them: from the sum of the
\* rest, which the recursion asks g for.
FirstOf(s) == CHOOSE x \in s : TRUE
Added(g, f, s) == IF s = {} THEN 0 ELSE f[FirstOf(s)] + g[s \ {FirstOf(s)}]
Fits(g, f, D) == g = [s \in D |-> Added(g, f, s)]
Sums(f, S) == CHOOSE g : Fits(g, f, SUBSET S)

LEMMA SumIsSums == ASSUME NEW f, NEW S PROVE SumFunctionOnSet(f, S) = Sums(f, S)[S]
  BY DEF SumFunctionOnSet, FoldFunctionOnSet, MapThenFoldSet, Sums, Fits, Added, FirstOf

LEMMA FitsAt == ASSUME NEW f, NEW g, NEW D, Fits(g, f, D), NEW s \in D PROVE g[s] = Added(g, f, s)
  BY DEF Fits

\* The recursion has a solution on the subsets of a finite set.
LEMMA SumsExist ==
  ASSUME NEW f, NEW S, IsFiniteSet(S)
  PROVE  Fits(Sums(f, S), f, SUBSET S)
<1> DEFINE Small(n) == {s \in SUBSET S : Cardinality(s) <= n}
           Rest(s) == s \ {FirstOf(s)}
           Good == {n \in Nat : \E g : Fits(g, f, Small(n))}
<1>1. ASSUME NEW s \in SUBSET S PROVE Cardinality(s) \in Nat /\ IsFiniteSet(s)
  BY FS_Subset, FS_CardinalityType
<1>2. ASSUME NEW s \in SUBSET S, s # {}
      PROVE  Rest(s) \in SUBSET S /\ Cardinality(Rest(s)) = Cardinality(s) - 1
  BY <1>1, <1>2, FS_RemoveElement, FirstOf(s) \in s DEF FirstOf
<1>3. 0 \in Good
  <2>1. \A s \in Small(0) : s = {}
    BY <1>1, FS_EmptySet
  <2>2. Fits([s \in Small(0) |-> 0], f, Small(0))
    BY <2>1 DEF Fits, Added
  <2> QED
    BY <2>2
<1>4. ASSUME NEW n \in Good PROVE n + 1 \in Good
  <2>1. PICK g : Fits(g, f, Small(n))
    OBVIOUS
  <2> DEFINE new == [s \in Small(n + 1) |-> Added(g, f, s)]
  <2>2. ASSUME NEW s \in Small(n + 1) PROVE Added(new, f, s) = Added(g, f, s)
    <3>1. CASE s = {}
      BY <3>1 DEF Added
    <3>2. CASE s # {}
      <4>1. Rest(s) \in Small(n) /\ Rest(s) \in Small(n + 1)
        BY <1>1, <1>2, <3>2
      <4>2. g[Rest(s)] = Added(g, f, Rest(s))
        <5> HIDE DEF Rest, Small
        <5> QED
          BY <2>1, <4>1, FitsAt
      <4>3. new[Rest(s)] = g[Rest(s)]
        <5> HIDE DEF Rest, Small
        <5> QED
          BY <4>1, <4>2
      <4> HIDE DEF new
      <4> QED
        BY <4>3 DEF Added
    <3> QED
      BY <3>1, <3>2
  <2>3. Fits(new, f, Small(n + 1))
    <3> HIDE DEF Small
    <3> QED
      BY <2>2 DEF Fits
  <2> HIDE DEF Small, new
  <2> QED
    BY <2>3
<1>5. Good = Nat
  <2> HIDE DEF Good
  <2> QED
    BY <1>3, <1>4, NatInduct, Good \subseteq Nat DEF Good
<1>6. Small(Cardinality(S)) = SUBSET S
  BY FS_Subset, FS_CardinalityType
<1>7. \E g : Fits(g, f, SUBSET S)
  <2>1. Cardinality(S) \in Good
    BY <1>5, FS_CardinalityType
  <2> HIDE DEF Small
  <2> QED
    BY <2>1, <1>6
<1> QED
  BY <1>7 DEF Sums

\* The order of the elements does not matter: any of them may come first.
LEMMA SumsAnyFirst ==
  ASSUME NEW f, NEW S, IsFiniteSet(S), \A x \in S : f[x] \in Int
  PROVE  \A s \in SUBSET S : /\ Sums(f, S)[s] \in Int
                             /\ \A x \in s : Sums(f, S)[s] = f[x] + Sums(f, S)[s \ {x}]
<1> SUFFICES ASSUME NEW g, Fits(g, f, SUBSET S)
             PROVE  \A s \in SUBSET S : g[s] \in Int /\ \A x \in s : g[s] = f[x] + g[s \ {x}]
  BY SumsExist
<1> DEFINE Fine(s) == g[s] \in Int /\ \A x \in s : g[s] = f[x] + g[s \ {x}]
           Good == {n \in Nat : \A s \in SUBSET S : Cardinality(s) <= n => Fine(s)}
<1>1. ASSUME NEW s \in SUBSET S PROVE Cardinality(s) \in Nat /\ IsFiniteSet(s)
  BY FS_Subset, FS_CardinalityType
<1>2. ASSUME NEW s \in SUBSET S, NEW x \in s
      PROVE  s \ {x} \in SUBSET S /\ Cardinality(s \ {x}) = Cardinality(s) - 1
  BY <1>1, FS_RemoveElement
<1>3. ASSUME NEW s \in SUBSET S PROVE g[s] = Added(g, f, s)
  BY FitsAt
<1>4. Fine({})
  <2>1. g[{}] = Added(g, f, {})
    BY FitsAt
  <2>2. g[{}] = 0
    BY <2>1 DEF Added
  <2> QED
    BY <2>2
<1>5. 0 \in Good
  <2>1. ASSUME NEW s \in SUBSET S, Cardinality(s) <= 0 PROVE s = {}
    BY <1>1, <2>1, FS_EmptySet
  <2> HIDE DEF Fine
  <2> QED
    BY <2>1, <1>4
<1>6. ASSUME NEW n \in Good PROVE n + 1 \in Good
  <2>1. \A s \in SUBSET S : Cardinality(s) <= n => Fine(s)
    <3> HIDE DEF Fine
    <3> QED
      OBVIOUS
  <2>2. ASSUME NEW s \in SUBSET S, Cardinality(s) <= n + 1, s # {} PROVE Fine(s)
    <3>1. PICK c \in s : c = FirstOf(s)
      BY <2>2 DEF FirstOf
    <3>2. g[s] = f[c] + g[s \ {c}]
      BY <1>3, <2>2, <3>1 DEF Added
    <3>3. ASSUME NEW x \in s PROVE Fine(s \ {x})
      <4>1. s \ {x} \in SUBSET S /\ Cardinality(s \ {x}) <= n
        BY <1>1, <1>2, <2>2
      <4> HIDE DEF Fine
      <4> QED
        BY <4>1, <2>1
    <3>4. f[c] \in Int /\ g[s \ {c}] \in Int
      BY <3>1, <3>3
    <3>5. ASSUME NEW x \in s, x # c PROVE g[s] = f[x] + g[s \ {x}]
      <4>1. g[s \ {c}] = f[x] + g[(s \ {c}) \ {x}]
        BY <3>1, <3>3, <3>5
      <4>2. g[s \ {x}] = f[c] + g[(s \ {x}) \ {c}]
        BY <3>1, <3>3, <3>5
      <4>3. g[(s \ {c}) \ {x}] = g[(s \ {x}) \ {c}]
        <5>1. (s \ {c}) \ {x} = (s \ {x}) \ {c}
          OBVIOUS
        <5> QED
          BY <5>1, Zenon
      <4>4. g[(s \ {c}) \ {x}] \in Int
        <5>1. s \ {c} \in SUBSET S /\ x \in s \ {c} /\ Cardinality(s \ {c}) <= n
          BY <1>1, <1>2, <2>2, <3>1, <3>5
        <5>2. (s \ {c}) \ {x} \in SUBSET S /\ Cardinality((s \ {c}) \ {x}) <= n
          BY <5>1, <1>1, <1>2
        <5>3. Fine((s \ {c}) \ {x})
          <6> HIDE DEF Fine
          <6> QED
            BY <5>2, <2>1
        <5> QED
          BY <5>3
      <4>5. f[x] \in Int /\ f[c] \in Int /\ g[s \ {c}] \in Int /\ g[s \ {x}] \in Int
        BY <3>3, <3>4
      <4> QED
        BY <3>2, <4>1, <4>2, <4>3, <4>4, <4>5
    <3>6. ASSUME NEW x \in s PROVE g[s] = f[x] + g[s \ {x}]
      BY <3>2, <3>5
    <3>7. g[s] \in Int
      BY <3>2, <3>4
    <3> QED
      BY <3>6, <3>7
  <2>3. ASSUME NEW s \in SUBSET S, Cardinality(s) <= n + 1 PROVE Fine(s)
    BY <2>2, <2>3, <1>4
  <2> HIDE DEF Fine
  <2> QED
    BY <2>3
<1>7. Good = Nat
  <2> Good \subseteq Nat
    OBVIOUS
  <2> HIDE DEF Good
  <2> QED
    BY <1>5, <1>6, NatInduct
<1>8. ASSUME NEW s \in SUBSET S PROVE Fine(s)
  <2>1. Cardinality(s) \in Good /\ Cardinality(s) <= Cardinality(s)
    BY <1>1, <1>7
  <2> HIDE DEF Fine
  <2> QED
    BY <2>1
<1> QED
  BY <1>8

(* The rules of sums, for a function with integer values on a finite set *)

IntegersOn(f, S) == IsFiniteSet(S) /\ \A x \in S : f[x] \in Int

\* Sums over S and over a subset of it agree.
LEMMA SumsAgree ==
  ASSUME NEW f, NEW S, IntegersOn(f, S), NEW T \in SUBSET S
  PROVE  Sums(f, S)[T] = Sums(f, T)[T]
<1> DEFINE g == Sums(f, S)
           k == Sums(f, T)
           Good == {s \in SUBSET T : g[s] = k[s]}
<1>1. IsFiniteSet(T) /\ IsFiniteSet(S)
  BY FS_Subset DEF IntegersOn
<1>2. g[{}] = Added(g, f, {}) /\ k[{}] = Added(k, f, {})
  <2>1. Fits(g, f, SUBSET S) /\ Fits(k, f, SUBSET T)
    BY <1>1, SumsExist
  <2> HIDE DEF g, k
  <2>2. {} \in SUBSET S /\ {} \in SUBSET T
    OBVIOUS
  <2>3. g[{}] = Added(g, f, {})
    BY <2>1, <2>2, FitsAt
  <2>4. k[{}] = Added(k, f, {})
    BY <2>1, <2>2, FitsAt
  <2> QED
    BY <2>3, <2>4
<1>3. {} \in Good
  BY <1>2 DEF Added
<1>4. ASSUME NEW s \in SUBSET T, NEW x \in T \ s, s \in Good PROVE s \cup {x} \in Good
  <2> DEFINE t == s \cup {x}
  <2>1. t \in SUBSET S /\ t \in SUBSET T /\ x \in t
    OBVIOUS
  <2>2. g[t] = f[x] + g[t \ {x}] /\ k[t] = f[x] + k[t \ {x}]
    <3> HIDE DEF g, k, t
    <3>1. \A y \in T : f[y] \in Int
      BY DEF IntegersOn
    <3>2. g[t] = f[x] + g[t \ {x}]
      BY <1>1, <2>1, SumsAnyFirst DEF IntegersOn, g
    <3>3. k[t] = f[x] + k[t \ {x}]
      BY <1>1, <2>1, <3>1, SumsAnyFirst DEF k
    <3> QED
      BY <3>2, <3>3
  <2>3. t \ {x} = s
    OBVIOUS
  <2>4. g[t] = k[t]
    <3> HIDE DEF g, k, t
    <3>1. g[t \ {x}] = k[t \ {x}]
      <4>1. g[s] = k[s]
        BY <1>4
      <4> QED
        BY <4>1, <2>3, Zenon
    <3> QED
      BY <2>2, <3>1
  <2> QED
    BY <2>4
<1>5. T \in Good
  <2> HIDE DEF Good
  <2> QED
    BY <1>1, <1>3, <1>4, SetInduct
<1> QED
  BY <1>5

\* The sum over nothing.
LEMMA SumEmpty == ASSUME NEW f PROVE SumFunctionOnSet(f, {}) = 0
<1>1. Fits(Sums(f, {}), f, SUBSET {})
  BY SumsExist, FS_EmptySet
<1>2. Sums(f, {})[{}] = Added(Sums(f, {}), f, {})
  BY <1>1, FitsAt
<1> QED
  BY <1>2, SumIsSums DEF Added

\* A sum is an integer.
LEMMA SumInt == ASSUME NEW f, NEW S, IntegersOn(f, S) PROVE SumFunctionOnSet(f, S) \in Int
  BY SumIsSums, SumsAnyFirst DEF IntegersOn

\* One more element adds its value.
LEMMA SumAdd ==
  ASSUME NEW f, NEW S, NEW x, x \notin S, IntegersOn(f, S \cup {x})
  PROVE  SumFunctionOnSet(f, S \cup {x}) = f[x] + SumFunctionOnSet(f, S)
<1> DEFINE T == S \cup {x}
<1>1. (S \cup {x}) \ {x} = S
  OBVIOUS
<1>2. Sums(f, T)[T] = f[x] + Sums(f, T)[T \ {x}]
  <2> HIDE DEF T
  <2>1. T \in SUBSET T /\ x \in T /\ IntegersOn(f, T)
    BY DEF T
  <2> QED
    BY <2>1, SumsAnyFirst DEF IntegersOn
<1>3. Sums(f, T)[T \ {x}] = Sums(f, T)[S]
  BY <1>1, Zenon
<1>4. Sums(f, T)[S] = Sums(f, S)[S]
  BY SumsAgree
<1> QED
  BY <1>2, <1>3, <1>4, SumIsSums

\* A subset of numbers is numbers.
LEMMA FewerNumbers == ASSUME NEW f, NEW S, IntegersOn(f, S), NEW T \in SUBSET S PROVE IntegersOn(f, T)
  BY FS_Subset DEF IntegersOn

\* Two sums, element by element: what the elements' values satisfy, the sums do.
LEMMA SumSame ==
  ASSUME NEW f, NEW g, NEW S, IntegersOn(f, S), \A x \in S : g[x] = f[x]
  PROVE  SumFunctionOnSet(g, S) = SumFunctionOnSet(f, S)
<1> DEFINE Good == {T \in SUBSET S : SumFunctionOnSet(g, T) = SumFunctionOnSet(f, T)}
<1>1. {} \in Good
  BY SumEmpty
<1>2. ASSUME NEW T \in SUBSET S, NEW x \in S \ T, T \in Good PROVE T \cup {x} \in Good
  <2>1. T \cup {x} \in SUBSET S /\ IntegersOn(f, T \cup {x}) /\ IntegersOn(g, T \cup {x})
    BY FewerNumbers DEF IntegersOn
  <2>2. SumFunctionOnSet(f, T \cup {x}) = f[x] + SumFunctionOnSet(f, T)
    BY <2>1, SumAdd
  <2>3. SumFunctionOnSet(g, T \cup {x}) = g[x] + SumFunctionOnSet(g, T)
    BY <2>1, SumAdd
  <2> QED
    BY <2>1, <2>2, <2>3, <1>2
<1>3. S \in Good
  <2> HIDE DEF Good
  <2> QED
    BY <1>1, <1>2, SetInduct DEF IntegersOn
<1> QED
  BY <1>3

\* The sum of a function that is the sum of two.
LEMMA SumPlus ==
  ASSUME NEW f, NEW g, NEW h, NEW S, IntegersOn(f, S), IntegersOn(g, S), \A x \in S : h[x] = f[x] + g[x]
  PROVE  SumFunctionOnSet(h, S) = SumFunctionOnSet(f, S) + SumFunctionOnSet(g, S)
<1> DEFINE Good == {T \in SUBSET S : SumFunctionOnSet(h, T) = SumFunctionOnSet(f, T) + SumFunctionOnSet(g, T)}
<1>1. {} \in Good
  BY SumEmpty
<1>2. ASSUME NEW T \in SUBSET S, NEW x \in S \ T, T \in Good PROVE T \cup {x} \in Good
  <2>1. /\ T \cup {x} \in SUBSET S
        /\ IntegersOn(f, T \cup {x}) /\ IntegersOn(g, T \cup {x}) /\ IntegersOn(h, T \cup {x})
        /\ IntegersOn(f, T) /\ IntegersOn(g, T)
    BY FewerNumbers DEF IntegersOn
  <2>2. SumFunctionOnSet(f, T \cup {x}) = f[x] + SumFunctionOnSet(f, T)
    BY <2>1, SumAdd
  <2>3. SumFunctionOnSet(g, T \cup {x}) = g[x] + SumFunctionOnSet(g, T)
    BY <2>1, SumAdd
  <2>4. SumFunctionOnSet(h, T \cup {x}) = h[x] + SumFunctionOnSet(h, T)
    BY <2>1, SumAdd
  <2>5. /\ f[x] \in Int /\ g[x] \in Int /\ h[x] = f[x] + g[x]
        /\ SumFunctionOnSet(f, T) \in Int /\ SumFunctionOnSet(g, T) \in Int
    BY <2>1, SumInt DEF IntegersOn
  <2> QED
    BY <2>1, <2>2, <2>3, <2>4, <2>5, <1>2
<1>3. S \in Good
  <2> HIDE DEF Good
  <2> QED
    BY <1>1, <1>2, SetInduct DEF IntegersOn
<1> QED
  BY <1>3

\* The sum of a multiple.
LEMMA SumTimes ==
  ASSUME NEW f, NEW h, NEW a \in Int, NEW S, IntegersOn(f, S), \A x \in S : h[x] = a * f[x]
  PROVE  SumFunctionOnSet(h, S) = a * SumFunctionOnSet(f, S)
<1> DEFINE Good == {T \in SUBSET S : SumFunctionOnSet(h, T) = a * SumFunctionOnSet(f, T)}
<1>1. {} \in Good
  BY SumEmpty
<1>2. ASSUME NEW T \in SUBSET S, NEW x \in S \ T, T \in Good PROVE T \cup {x} \in Good
  <2>1. /\ T \cup {x} \in SUBSET S
        /\ IntegersOn(f, T \cup {x}) /\ IntegersOn(h, T \cup {x}) /\ IntegersOn(f, T)
    BY FewerNumbers DEF IntegersOn
  <2>2. SumFunctionOnSet(f, T \cup {x}) = f[x] + SumFunctionOnSet(f, T)
    BY <2>1, SumAdd
  <2>3. SumFunctionOnSet(h, T \cup {x}) = h[x] + SumFunctionOnSet(h, T)
    BY <2>1, SumAdd
  <2>4. f[x] \in Int /\ h[x] = a * f[x] /\ SumFunctionOnSet(f, T) \in Int
    BY <2>1, SumInt DEF IntegersOn
  <2>5. \A u, v \in Int : a * (u + v) = a * u + a * v
    OBVIOUS
  <2> QED
    BY <2>1, <2>2, <2>3, <2>4, <2>5, <1>2
<1>3. S \in Good
  <2> HIDE DEF Good
  <2> QED
    BY <1>1, <1>2, SetInduct DEF IntegersOn
<1> QED
  BY <1>3

\* Smaller values have a smaller sum.
LEMMA SumMonotone ==
  ASSUME NEW f, NEW g, NEW S, IntegersOn(f, S), IntegersOn(g, S), \A x \in S : f[x] <= g[x]
  PROVE  SumFunctionOnSet(f, S) <= SumFunctionOnSet(g, S)
<1> DEFINE Good == {T \in SUBSET S : SumFunctionOnSet(f, T) <= SumFunctionOnSet(g, T)}
<1>1. {} \in Good
  BY SumEmpty
<1>2. ASSUME NEW T \in SUBSET S, NEW x \in S \ T, T \in Good PROVE T \cup {x} \in Good
  <2>1. /\ T \cup {x} \in SUBSET S
        /\ IntegersOn(f, T \cup {x}) /\ IntegersOn(g, T \cup {x}) /\ IntegersOn(f, T) /\ IntegersOn(g, T)
    BY FewerNumbers DEF IntegersOn
  <2>2. SumFunctionOnSet(f, T \cup {x}) = f[x] + SumFunctionOnSet(f, T)
    BY <2>1, SumAdd
  <2>3. SumFunctionOnSet(g, T \cup {x}) = g[x] + SumFunctionOnSet(g, T)
    BY <2>1, SumAdd
  <2>4. /\ f[x] \in Int /\ g[x] \in Int /\ f[x] <= g[x]
        /\ SumFunctionOnSet(f, T) \in Int /\ SumFunctionOnSet(g, T) \in Int
    BY <2>1, SumInt DEF IntegersOn
  <2> QED
    BY <2>1, <2>2, <2>3, <2>4, <1>2
<1>3. S \in Good
  <2> HIDE DEF Good
  <2> QED
    BY <1>1, <1>2, SetInduct DEF IntegersOn
<1> QED
  BY <1>3

\* A constant is summed as often as there are elements.
LEMMA SumConstant ==
  ASSUME NEW f, NEW a \in Int, NEW S, IsFiniteSet(S), \A x \in S : f[x] = a
  PROVE  SumFunctionOnSet(f, S) = a * Cardinality(S)
<1> DEFINE Good == {T \in SUBSET S : SumFunctionOnSet(f, T) = a * Cardinality(T)}
<1>1. {} \in Good
  BY SumEmpty, FS_EmptySet
<1>2. ASSUME NEW T \in SUBSET S, NEW x \in S \ T, T \in Good PROVE T \cup {x} \in Good
  <2>1. T \cup {x} \in SUBSET S /\ IsFiniteSet(T) /\ IntegersOn(f, T \cup {x})
    BY FS_Subset DEF IntegersOn
  <2>2. SumFunctionOnSet(f, T \cup {x}) = f[x] + SumFunctionOnSet(f, T)
    BY <2>1, SumAdd
  <2>3. Cardinality(T \cup {x}) = Cardinality(T) + 1 /\ Cardinality(T) \in Nat
    BY <2>1, FS_AddElement, FS_CardinalityType
  <2>4. \A u \in Nat : a * (u + 1) = a + a * u
    OBVIOUS
  <2> QED
    BY <2>1, <2>2, <2>3, <2>4, <1>2
<1>3. S \in Good
  <2> HIDE DEF Good
  <2> QED
    BY <1>1, <1>2, SetInduct
<1> QED
  BY <1>3

\* The sum over two sets that share nothing.
LEMMA SumUnion ==
  ASSUME NEW f, NEW S, NEW U, S \cap U = {}, IntegersOn(f, S \cup U)
  PROVE  SumFunctionOnSet(f, S \cup U) = SumFunctionOnSet(f, S) + SumFunctionOnSet(f, U)
<1> DEFINE Good == {T \in SUBSET S : SumFunctionOnSet(f, T \cup U)
                                       = SumFunctionOnSet(f, T) + SumFunctionOnSet(f, U)}
<1>1. IntegersOn(f, S) /\ IntegersOn(f, U)
  BY FewerNumbers
<1>2. {} \in Good
  <2>1. {} \cup U = U
    OBVIOUS
  <2>2. SumFunctionOnSet(f, {} \cup U) = SumFunctionOnSet(f, U)
    BY <2>1, Zenon
  <2> QED
    BY <2>2, <1>1, SumEmpty, SumInt
<1>3. ASSUME NEW T \in SUBSET S, NEW x \in S \ T, T \in Good PROVE T \cup {x} \in Good
  <2>1. /\ T \cup {x} \in SUBSET S /\ IntegersOn(f, T \cup {x}) /\ IntegersOn(f, T)
        /\ IntegersOn(f, (T \cup U) \cup {x}) /\ x \notin T \cup U
    <3>1. (T \cup U) \cup {x} \in SUBSET (S \cup U)
      OBVIOUS
    <3> QED
      BY <3>1, <1>1, FewerNumbers
  <2>2. SumFunctionOnSet(f, T \cup {x}) = f[x] + SumFunctionOnSet(f, T)
    BY <2>1, SumAdd
  <2>3. SumFunctionOnSet(f, (T \cup U) \cup {x}) = f[x] + SumFunctionOnSet(f, T \cup U)
    BY <2>1, SumAdd
  <2>4. SumFunctionOnSet(f, (T \cup {x}) \cup U) = SumFunctionOnSet(f, (T \cup U) \cup {x})
    <3>1. (T \cup {x}) \cup U = (T \cup U) \cup {x}
      OBVIOUS
    <3> QED
      BY <3>1, Zenon
  <2>5. f[x] \in Int /\ SumFunctionOnSet(f, T) \in Int /\ SumFunctionOnSet(f, U) \in Int
    BY <2>1, <1>1, SumInt DEF IntegersOn
  <2> QED
    BY <2>1, <2>2, <2>3, <2>4, <2>5, <1>3
<1>4. S \in Good
  <2> HIDE DEF Good
  <2> QED
    BY <1>1, <1>2, <1>3, SetInduct DEF IntegersOn
<1> QED
  BY <1>4

\* A sum does not change when its elements are named anew.
LEMMA SumRenamed ==
  ASSUME NEW f, NEW g, NEW S, NEW R, NEW name \in [S -> R], IsFiniteSet(S),
         \A x, y \in S : name[x] = name[y] => x = y, \A y \in R : \E x \in S : name[x] = y,
         \A x \in S : f[x] \in Int /\ g[name[x]] = f[x]
  PROVE  SumFunctionOnSet(g, R) = SumFunctionOnSet(f, S)
<1> DEFINE Image(T) == {name[x] : x \in T}
           Good == {T \in SUBSET S : IsFiniteSet(Image(T)) /\ SumFunctionOnSet(g, Image(T)) = SumFunctionOnSet(f, T)}
<1>1. {} \in Good
  <2>1. Image({}) = {}
    OBVIOUS
  <2>2. SumFunctionOnSet(g, Image({})) = SumFunctionOnSet(g, {}) /\ IsFiniteSet(Image({}))
    <3> HIDE DEF Image
    <3> QED
      BY <2>1, FS_EmptySet, Zenon
  <2> QED
    BY <2>2, SumEmpty
<1>2. ASSUME NEW T \in SUBSET S, NEW x \in S \ T, T \in Good PROVE T \cup {x} \in Good
  <2>1. Image(T \cup {x}) = Image(T) \cup {name[x]} /\ name[x] \notin Image(T)
    OBVIOUS
  <2>2. T \cup {x} \in SUBSET S /\ IsFiniteSet(T \cup {x}) /\ IsFiniteSet(Image(T))
        /\ SumFunctionOnSet(g, Image(T)) = SumFunctionOnSet(f, T)
    <3>1. T \cup {x} \in SUBSET S /\ IsFiniteSet(T \cup {x})
      BY FS_Subset
    <3> HIDE DEF Image
    <3> QED
      BY <3>1, <1>2
  <2>3. IsFiniteSet(Image(T) \cup {name[x]}) /\ \A y \in Image(T) \cup {name[x]} : g[y] \in Int
    <3>1. \A y \in Image(T) \cup {name[x]} : g[y] \in Int
      OBVIOUS
    <3> HIDE DEF Image
    <3> QED
      BY <3>1, <2>2, FS_AddElement
  <2>4. SumFunctionOnSet(g, Image(T) \cup {name[x]}) = g[name[x]] + SumFunctionOnSet(g, Image(T))
    <3> HIDE DEF Image
    <3> QED
      BY <2>1, <2>3, SumAdd DEF IntegersOn
  <2>5. SumFunctionOnSet(f, T \cup {x}) = f[x] + SumFunctionOnSet(f, T)
    BY <2>2, SumAdd DEF IntegersOn
  <2>6. SumFunctionOnSet(g, Image(T \cup {x})) = SumFunctionOnSet(g, Image(T) \cup {name[x]})
        /\ IsFiniteSet(Image(T \cup {x}))
    <3> HIDE DEF Image
    <3>1. IsFiniteSet(Image(T) \cup {name[x]})
      BY <2>3
    <3> QED
      BY <2>1, <3>1, Zenon
  <2>7. SumFunctionOnSet(g, Image(T \cup {x})) = SumFunctionOnSet(f, T \cup {x})
    <3> HIDE DEF Image
    <3> QED
      BY <2>2, <2>4, <2>5, <2>6
  <2> HIDE DEF Image
  <2> QED
    BY <2>2, <2>6, <2>7
<1>3. S \in Good
  <2> HIDE DEF Good
  <2> QED
    BY <1>1, <1>2, SetInduct
<1>4. Image(S) = R
  OBVIOUS
<1>5. SumFunctionOnSet(g, Image(S)) = SumFunctionOnSet(f, S)
  <2> HIDE DEF Image
  <2> QED
    BY <1>3
<1> HIDE DEF Image
<1> QED
  BY <1>4, <1>5, Zenon

\* A sum is the sum, over the kinds of its elements, of the sums of one kind.
LEMMA SumByKind ==
  ASSUME NEW f, NEW S, IntegersOn(f, S), NEW K, IsFiniteSet(K), NEW kind, NEW part,
         \A x \in S : kind[x] \in K,
         \A k \in K : part[k] = SumFunctionOnSet(f, {x \in S : kind[x] = k})
  PROVE  SumFunctionOnSet(part, K) = SumFunctionOnSet(f, S)
<1> DEFINE Of(L) == {x \in S : kind[x] \in L}
           Good == {L \in SUBSET K : SumFunctionOnSet(part, L) = SumFunctionOnSet(f, Of(L))}
<1>1. ASSUME NEW T \in SUBSET S PROVE IntegersOn(f, T) /\ SumFunctionOnSet(f, T) \in Int
  BY FewerNumbers, SumInt
<1>2. \A k \in K : part[k] \in Int
  BY <1>1
<1>3. {} \in Good
  <2>1. Of({}) = {}
    OBVIOUS
  <2>2. SumFunctionOnSet(f, Of({})) = SumFunctionOnSet(f, {})
    <3> HIDE DEF Of
    <3> QED
      BY <2>1, Zenon
  <2> QED
    BY <2>2, SumEmpty
<1>4. ASSUME NEW L \in SUBSET K, NEW k \in K \ L, L \in Good PROVE L \cup {k} \in Good
  <2> DEFINE New == {x \in S : kind[x] = k}
  <2>1. L \cup {k} \in SUBSET K /\ IntegersOn(part, L \cup {k})
    BY <1>2, FS_Subset DEF IntegersOn
  <2>2. SumFunctionOnSet(part, L \cup {k}) = part[k] + SumFunctionOnSet(part, L)
    BY <2>1, SumAdd
  <2>3. Of(L \cup {k}) = Of(L) \cup New /\ Of(L) \cap New = {} /\ Of(L) \cup New \in SUBSET S
        /\ Of(L) \in SUBSET S /\ New \in SUBSET S
    OBVIOUS
  <2>4. SumFunctionOnSet(f, Of(L \cup {k})) = SumFunctionOnSet(f, Of(L)) + SumFunctionOnSet(f, New)
    <3> HIDE DEF Of, New
    <3>1. SumFunctionOnSet(f, Of(L) \cup New) = SumFunctionOnSet(f, Of(L)) + SumFunctionOnSet(f, New)
      BY <2>3, <1>1, SumUnion
    <3> QED
      BY <3>1, <2>3, Zenon
  <2>5. part[k] = SumFunctionOnSet(f, New)
    OBVIOUS
  <2>6. SumFunctionOnSet(part, L) = SumFunctionOnSet(f, Of(L))
    <3> HIDE DEF Of
    <3> QED
      BY <1>4
  <2>7. SumFunctionOnSet(f, Of(L)) \in Int /\ SumFunctionOnSet(f, New) \in Int
    BY <2>3, <1>1
  <2> HIDE DEF Of, New
  <2> QED
    BY <2>1, <2>2, <2>4, <2>5, <2>6, <2>7
<1>5. K \in Good
  <2> HIDE DEF Good
  <2> QED
    BY <1>3, <1>4, SetInduct
<1>6. Of(K) = S
  OBVIOUS
<1>7. SumFunctionOnSet(f, Of(K)) = SumFunctionOnSet(f, S)
  <2> HIDE DEF Of
  <2> QED
    BY <1>6, Zenon
<1>8. SumFunctionOnSet(part, K) = SumFunctionOnSet(f, Of(K))
  <2> HIDE DEF Of
  <2> QED
    BY <1>5
<1> QED
  BY <1>7, <1>8
------------------------------------------------------------------------------
(* Recursion over the natural numbers *)

\* A first value, and each value from the one before.
Recurs(g, base, step) == g = [n \in Nat |-> IF n = 0 THEN base ELSE step[<<n, g[n - 1]>>]]

\* A function defined so exists.
LEMMA NatRecursion == ASSUME NEW base, NEW step PROVE \E g : Recurs(g, base, step)
<1> DEFINE Rule(r, i) == IF i = 0 THEN base ELSE step[<<i, r[i - 1]>>]
           Run(r, n) == r = [i \in 0..n |-> Rule(r, i)]
           Exists == {n \in Nat : \E r : Run(r, n)}
           Value(n) == (CHOOSE r : Run(r, n))[n]
           Same == {n \in Nat : \A q, r : Run(q, n) /\ Run(r, n) => q[n] = r[n]}
<1>1. ASSUME NEW n \in Nat, NEW r, Run(r, n), NEW i \in 0..n PROVE r[i] = Rule(r, i)
  <2> HIDE DEF Rule
  <2> QED
    BY <1>1
<1>2. ASSUME NEW n \in Nat, NEW r, Run(r, n + 1) PROVE Run([i \in 0..n |-> r[i]], n)
  <2> DEFINE q == [i \in 0..n |-> r[i]]
  <2>1. ASSUME NEW i \in 0..n PROVE Rule(q, i) = Rule(r, i)
    <3>1. i # 0 => q[i - 1] = r[i - 1]
      OBVIOUS
    <3> HIDE DEF q
    <3> QED
      BY <3>1
  <2>2. ASSUME NEW i \in 0..n PROVE r[i] = Rule(r, i)
    BY <1>1, <1>2, n + 1 \in Nat, i \in 0..(n + 1)
  <2> HIDE DEF Rule
  <2> QED
    BY <2>1, <2>2
<1>3. Exists = Nat
  <2>1. 0 \in Exists
    <3> DEFINE r == [i \in 0..0 |-> base]
    <3>1. r = [i \in 0..0 |-> Rule(r, i)]
      OBVIOUS
    <3> QED
      BY <3>1
  <2>2. ASSUME NEW n \in Exists PROVE n + 1 \in Exists
    <3>1. PICK r : Run(r, n)
      OBVIOUS
    <3> DEFINE new == [i \in 0..(n + 1) |-> Rule(r, i)]
    <3>2. ASSUME NEW i \in 0..(n + 1) PROVE Rule(new, i) = Rule(r, i)
      <4>1. CASE i = 0
        BY <4>1
      <4>2. CASE i # 0
        <5>1. i - 1 \in 0..n /\ i - 1 \in 0..(n + 1)
          BY <4>2
        <5>2. new[i - 1] = Rule(r, i - 1)
          <6> HIDE DEF Rule
          <6> QED
            BY <5>1
        <5>3. r[i - 1] = Rule(r, i - 1)
          BY <5>1, <3>1, <1>1
        <5> HIDE DEF new
        <5>4. new[i - 1] = r[i - 1]
          BY <5>2, <5>3
        <5> QED
          BY <5>4
      <4> QED
        BY <4>1, <4>2
    <3>3. Run(new, n + 1)
      <4> HIDE DEF Rule
      <4> QED
        BY <3>2
    <3> HIDE DEF Run, new
    <3> QED
      BY <3>3
  <2>3. Exists \subseteq Nat
    OBVIOUS
  <2> HIDE DEF Exists
  <2> QED
    BY <2>1, <2>2, <2>3, NatInduct
<1>4. Same = Nat
  <2>1. 0 \in Same
    <3> SUFFICES ASSUME NEW q, NEW r, Run(q, 0), Run(r, 0) PROVE q[0] = r[0]
      OBVIOUS
    <3>1. q[0] = Rule(q, 0) /\ r[0] = Rule(r, 0)
      BY <1>1
    <3> QED
      BY <3>1
  <2>2. ASSUME NEW n \in Same PROVE n + 1 \in Same
    <3> SUFFICES ASSUME NEW q, NEW r, Run(q, n + 1), Run(r, n + 1) PROVE q[n + 1] = r[n + 1]
      OBVIOUS
    <3>1. q[n + 1] = Rule(q, n + 1) /\ r[n + 1] = Rule(r, n + 1)
      BY <1>1
    <3>2. Run([i \in 0..n |-> q[i]], n) /\ Run([i \in 0..n |-> r[i]], n)
      BY <1>2
    <3>3. [i \in 0..n |-> q[i]][n] = [i \in 0..n |-> r[i]][n]
      <4> HIDE DEF Run
      <4> QED
        BY <3>2
    <3>4. q[n] = r[n]
      BY <3>3
    <3> HIDE DEF Run
    <3> QED
      BY <3>1, <3>4
  <2>3. Same \subseteq Nat
    OBVIOUS
  <2> HIDE DEF Same
  <2> QED
    BY <2>1, <2>2, <2>3, NatInduct
<1>5. ASSUME NEW n \in Nat PROVE Run(CHOOSE r : Run(r, n), n)
  <2>1. \E r : Run(r, n)
    BY <1>3
  <2> HIDE DEF Run
  <2> QED
    BY <2>1
<1>6. ASSUME NEW n \in Nat, NEW r, Run(r, n) PROVE r[n] = Value(n)
  <2>1. n \in Same
    BY <1>4
  <2> HIDE DEF Run
  <2> QED
    BY <2>1, <1>5, <1>6
<1> DEFINE g == [n \in Nat |-> Value(n)]
<1>7. ASSUME NEW n \in Nat PROVE Value(n) = Rule(g, n)
  <2>1. PICK r : Run(r, n)
    BY <1>3
  <2>2. Value(n) = Rule(r, n)
    <3>1. r[n] = Value(n)
      BY <2>1, <1>6
    <3>2. r[n] = Rule(r, n)
      BY <2>1, <1>1
    <3> HIDE DEF Value, Rule
    <3> QED
      BY <3>1, <3>2
  <2>3. CASE n = 0
    <3> HIDE DEF Value
    <3> QED
      BY <2>2, <2>3
  <2>4. CASE n # 0
    <3>1. PICK m \in Nat : n = m + 1
      BY <2>4
    <3>2. Run([i \in 0..m |-> r[i]], m)
      BY <2>1, <3>1, <1>2
    <3>3. [i \in 0..m |-> r[i]][m] = Value(m)
      BY <3>2, <1>6
    <3>4. r[m] = g[m]
      <4> HIDE DEF Value
      <4> QED
        BY <3>3
    <3> HIDE DEF Value, g
    <3> QED
      BY <2>2, <3>1, <3>4
  <2> QED
    BY <2>3, <2>4
<1>8. g = [n \in Nat |-> Rule(g, n)]
  <2> HIDE DEF Rule, Value
  <2> QED
    BY <1>7
<1> HIDE DEF g
<1> QED
  BY <1>8 DEF Recurs

\* Its values, one after the other.
LEMMA RecursAt ==
  ASSUME NEW g, NEW base, NEW step, Recurs(g, base, step)
  PROVE  DOMAIN g = Nat /\ g[0] = base /\ \A n \in Nat : g[n + 1] = step[<<n + 1, g[n]>>]
<1>1. DOMAIN g = Nat /\ \A n \in Nat : g[n] = IF n = 0 THEN base ELSE step[<<n, g[n - 1]>>]
  BY DEF Recurs
<1>2. ASSUME NEW n \in Nat PROVE g[n + 1] = step[<<n + 1, g[n]>>]
  <2>1. n + 1 \in Nat /\ n + 1 # 0 /\ (n + 1) - 1 = n
    OBVIOUS
  <2> QED
    BY <1>1, <2>1
<1> QED
  BY <1>1, <1>2

\* A recursion over a set stays in it.
LEMMA RecursIn ==
  ASSUME NEW D, NEW g, NEW base \in D, NEW step, Recurs(g, base, step),
         \A n \in Nat, x \in D : step[<<n, x>>] \in D
  PROVE  g \in [Nat -> D]
<1> DEFINE Good == {n \in Nat : g[n] \in D}
<1>1. 0 \in Good
  BY RecursAt
<1>2. ASSUME NEW n \in Good PROVE n + 1 \in Good
  <2>1. g[n + 1] = step[<<n + 1, g[n]>>] /\ n + 1 \in Nat
    BY RecursAt
  <2> QED
    BY <2>1
<1>3. Good = Nat
  <2> Good \subseteq Nat
    OBVIOUS
  <2> HIDE DEF Good
  <2> QED
    BY <1>1, <1>2, NatInduct
<1> QED
  BY <1>3 DEF Recurs
------------------------------------------------------------------------------
(* Folds over the places of a sequence *)

\* A fold over a sequence, as FoldLeft computes it: from the fold of the rest, the last
\* of the places first.
LastOf(T) == CHOOSE x \in T : \A y \in T : x >= y
Taken(g, base, step, s, T) == IF T = {} THEN base ELSE step[<<g[T \ {LastOf(T)}], s[LastOf(T)]>>]
FoldFits(g, base, step, s, E) == g = [T \in E |-> Taken(g, base, step, s, T)]

\* The last of the first n numbers, and the rest.
LEMMA LastIs == ASSUME NEW n \in Nat, n > 0 PROVE LastOf(1..n) = n /\ (1..n) \ {n} = 1..(n - 1)
  BY DEF LastOf

\* One step of the fold.
LEMMA FoldAt ==
  ASSUME NEW g, NEW base, NEW step, NEW s, NEW E, FoldFits(g, base, step, s, E), NEW T \in E
  PROVE  g[T] = Taken(g, base, step, s, T)
  BY DEF FoldFits

\* A finite set of numbers has a last one.
LEMMA LastIn ==
  ASSUME NEW n \in Nat, NEW T \in SUBSET (1..n), T # {}
  PROVE  LastOf(T) \in T
<1> DEFINE Far == {k \in Nat : \E x \in T : k = n - x}
<1>1. PICK m \in Far : \A k \in Far : m <= k
  <2>1. Far \subseteq Nat /\ Far # {}
    BY \A x \in T : n - x \in Nat
  <2> HIDE DEF Far
  <2> QED
    BY <2>1, LeastNat
<1>2. PICK x \in T : m = n - x
  OBVIOUS
<1>3. ASSUME NEW y \in T PROVE x >= y
  <2>1. n - y \in Far
    BY y \in 1..n
  <2>2. m <= n - y
    BY <1>1, <2>1
  <2> QED
    BY <1>2, <2>2, x \in 1..n, y \in 1..n
<1> QED
  BY <1>3 DEF LastOf

------------------------------------------------------------------------------
(* The order of a finite set *)

\* A strict order, and the place of an element in it, the first having place 1.
PutsInOrder(lt, S) ==
  /\ \A d \in S : <<d, d>> \notin lt
  /\ \A c, d, e \in S : <<c, d>> \in lt /\ <<d, e>> \in lt => <<c, e>> \in lt
  /\ \A d, e \in S : d = e \/ <<d, e>> \in lt \/ <<e, d>> \in lt
PlaceIn(lt, S, e) == 1 + Cardinality({d \in S : <<d, e>> \in lt})

\* The places of a finite set are the numbers up to its size, in its order.
LEMMA Places ==
  ASSUME NEW S, IsFiniteSet(S), NEW lt, PutsInOrder(lt, S)
  PROVE  /\ \A e \in S : PlaceIn(lt, S, e) \in 1..Cardinality(S)
         /\ \A d, e \in S : <<d, e>> \in lt <=> PlaceIn(lt, S, d) < PlaceIn(lt, S, e)
         /\ \A d, e \in S : PlaceIn(lt, S, d) = PlaceIn(lt, S, e) => d = e
         /\ \A p \in 1..Cardinality(S) : \E e \in S : PlaceIn(lt, S, e) = p
<1> DEFINE n == Cardinality(S)
           Earlier(e) == {d \in S : <<d, e>> \in lt}
           place == [e \in S |-> 1 + Cardinality(Earlier(e))]
<1>1. n \in Nat /\ \A e \in S : PlaceIn(lt, S, e) = place[e]
  BY FS_CardinalityType DEF PlaceIn
<1>2. ASSUME NEW e \in S
      PROVE  /\ IsFiniteSet(Earlier(e)) /\ Cardinality(Earlier(e)) \in Nat
             /\ Cardinality(Earlier(e)) <= n - 1
  <2>1. Earlier(e) \subseteq S \ {e}
    BY DEF PutsInOrder
  <2>2. IsFiniteSet(S \ {e}) /\ Cardinality(S \ {e}) = n - 1
    BY FS_RemoveElement
  <2> HIDE DEF Earlier, n
  <2> QED
    BY <2>1, <2>2, FS_Subset, FS_CardinalityType
<1>3. ASSUME NEW d \in S, NEW e \in S, <<d, e>> \in lt
      PROVE  Cardinality(Earlier(d)) < Cardinality(Earlier(e))
  <2>1. Earlier(d) \subseteq Earlier(e) /\ Earlier(d) # Earlier(e)
    BY <1>3 DEF PutsInOrder
  <2> HIDE DEF Earlier, n
  <2>2. Cardinality(Earlier(d)) <= Cardinality(Earlier(e)) /\ Cardinality(Earlier(d)) # Cardinality(Earlier(e))
    BY <1>2, <2>1, FS_Subset
  <2> QED
    BY <1>2, <2>2
<1>4. \A e \in S : place[e] \in 1..n
  <2> HIDE DEF Earlier
  <2> QED
    BY <1>1, <1>2
<1>5. \A d, e \in S : <<d, e>> \in lt => place[d] < place[e]
  <2> HIDE DEF Earlier
  <2> QED
    BY <1>2, <1>3
<1> HIDE DEF place, n
<1>6. ASSUME NEW d \in S, NEW e \in S, ~ (<<d, e>> \in lt) PROVE ~ (place[d] < place[e])
  <2>1. d = e \/ <<e, d>> \in lt
    BY <1>6 DEF PutsInOrder
  <2> QED
    BY <2>1, <1>1, <1>4, <1>5
<1>7. ASSUME NEW d \in S, NEW e \in S, place[d] = place[e] PROVE d = e
  <2>1. ~ (<<d, e>> \in lt) /\ ~ (<<e, d>> \in lt)
    BY <1>1, <1>4, <1>5, <1>7
  <2> QED
    BY <2>1 DEF PutsInOrder
<1>8. \A p \in 1..n : \E e \in S : place[e] = p
  <2>1. place \in Injection(S, 1..n)
    BY <1>4, <1>7 DEF Injection, IsInjective, place
  <2>2. IsFiniteSet(1..n) /\ Cardinality(1..n) = n
    BY <1>1, FS_Interval
  <2>3. place \in Surjection(S, 1..n)
    BY <2>1, <2>2, FS_Injection DEF n
  <2> QED
    BY <2>3 DEF Surjection
<1> QED
  BY <1>1, <1>4, <1>5, <1>6, <1>7, <1>8 DEF n

\* Sets whose elements correspond have the same size.
LEMMA SameSize ==
  ASSUME NEW X, IsFiniteSet(X), NEW Y, NEW name \in [X -> Y],
         \A x, y \in X : name[x] = name[y] => x = y, \A y \in Y : \E x \in X : name[x] = y
  PROVE  IsFiniteSet(Y) /\ Cardinality(Y) = Cardinality(X)
<1>1. name \in Bijection(X, Y)
  BY DEF Bijection, Injection, Surjection, IsInjective
<1> QED
  BY <1>1, FS_Bijection DEF ExistsBijection

\* An image is no larger than what it is of.
LEMMA ImageSize ==
  ASSUME NEW X, IsFiniteSet(X), NEW Y, NEW name \in [X -> Y], \A y \in Y : \E x \in X : name[x] = y
  PROVE  IsFiniteSet(Y) /\ Cardinality(Y) <= Cardinality(X)
<1>1. name \in Surjection(X, Y)
  BY DEF Surjection
<1> QED
  BY <1>1, FS_Surjection

\* A finite set with one element more or less.
LEMMA OneMore ==
  ASSUME NEW T, NEW A, NEW B, IsFiniteSet(A), A \subseteq T,
         B = A \/ (\E b \in T : B = A \cup {b}) \/ (\E b \in A : B = A \ {b})
  PROVE  IsFiniteSet(B) /\ B \subseteq T
<1>1. \A b : IsFiniteSet(A \cup {b})
  BY FS_AddElement
<1>2. \A b : IsFiniteSet(A \ {b})
  BY FS_RemoveElement
<1> QED
  BY <1>1, <1>2, Zenon
==============================================================================
