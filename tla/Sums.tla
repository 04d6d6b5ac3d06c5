--------------------------------- MODULE Sums ---------------------------------
(***************************************************************************)
(* The sum of the values that a function takes on a finite set, as the     *)
(* models write it with MapThenSumSet, and the lemmas that proofs about    *)
(* counters and totals need.                                               *)
(*                                                                         *)
(* Induction goes by a smallest counterexample: the strict subsets of a    *)
(* finite set are well-founded, so that a set of subsets that is not empty *)
(* has a member none of whose strict subsets is in it.                     *)
(***************************************************************************)
EXTENDS Integers, FiniteSetsExt, FiniteSetTheorems, WellFoundedInduction, TLAPS

SumOver(f, S) == MapThenSumSet(LAMBDA x : f[x], S)

------------------------------------------------------------------------------
(* Smallest counterexamples.                                                 *)

\* Of several subsets of a finite set one is smallest.
LEMMA SmallestSet ==
  ASSUME NEW S, IsFiniteSet(S), NEW Bad \in SUBSET (SUBSET S), Bad # {}
  PROVE  \E T \in Bad : \A U \in SUBSET T : U # T => U \notin Bad
<1>1. FiniteSubsetsOf(S) = SUBSET S
  BY FS_FiniteSubsetsOfFinite
<1>2. IsWellFoundedOn(StrictSubsetOrdering(S), SUBSET S)
  BY <1>1, FS_StrictSubsetOrderingWellFounded
<1>3. PICK T \in Bad : \A U \in Bad : ~(<<U, T>> \in StrictSubsetOrdering(S))
  BY <1>2, WFMin
<1>4. ASSUME NEW U \in SUBSET T, U # T, U \in Bad PROVE FALSE
  <2>1. <<U, T>> \in StrictSubsetOrdering(S)
    BY <1>4 DEF StrictSubsetOrdering
  <2> QED
    BY <1>3, <1>4, <2>1
<1> QED
  BY <1>3, <1>4

\* Of several natural numbers one is smallest.
LEMMA SmallestNumber ==
  ASSUME NEW Bad \in SUBSET Nat, Bad # {}
  PROVE  \E n \in Bad : \A m \in Bad : ~(m < n)
<1>1. IsWellFoundedOn(OpToRel(<, Nat), Nat)
  BY NatLessThanWellFounded
<1>2. PICK n \in Bad : \A m \in Bad : ~(<<m, n>> \in OpToRel(<, Nat))
  BY <1>1, WFMin
<1>3. ASSUME NEW m \in Bad, m < n PROVE FALSE
  <2>1. <<m, n>> \in OpToRel(<, Nat)
    BY <1>3 DEF OpToRel
  <2> QED
    BY <1>2, <2>1
<1> QED
  BY <1>2, <1>3

------------------------------------------------------------------------------
(* The recursion behind the sum has a solution.                              *)

Pick(s) == CHOOSE x \in s : TRUE

Rest(s) == s \ {Pick(s)}

\* g is the sum of f on each of the given sets, one element after another.
Sums(g, f, sets) ==
  g = [s \in sets |-> IF s = {} THEN 0 ELSE f[Pick(s)] + g[Rest(s)]]

\* An element picked from a set that is not empty is in it.
LEMMA Picked ==
  ASSUME NEW s, s # {}
  PROVE  Pick(s) \in s /\ Rest(s) \in SUBSET s /\ Rest(s) # s /\ s = Rest(s) \cup {Pick(s)}
<1>1. Pick(s) \in s
  BY DEF Pick
<1> QED
  BY <1>1 DEF Rest

Small(S, n) == {s \in SUBSET S : Cardinality(s) <= n}

\* The sum is defined for sets of any size.
LEMMA SumsExistBelow ==
  ASSUME NEW S, IsFiniteSet(S), NEW f, NEW n \in Nat
  PROVE  \E g : Sums(g, f, Small(S, n))
<1> DEFINE Bad == {k \in Nat : ~ \E g : Sums(g, f, Small(S, k))}
<1>1. ASSUME Bad # {} PROVE FALSE
  <2>1. PICK k \in Bad : \A m \in Bad : ~(m < k)
    BY <1>1, SmallestNumber
  <2>2. ~ \E g : Sums(g, f, Small(S, k))
    BY <2>1
  <2>3. \A s \in SUBSET S : IsFiniteSet(s) /\ Cardinality(s) \in Nat
    BY FS_Subset, FS_CardinalityType
  <2>4. CASE k = 0
    <3> DEFINE g == [s \in Small(S, 0) |-> 0]
    <3>1. \A s \in Small(S, 0) : s = {}
      BY <2>3, FS_EmptySet DEF Small
    <3>2. Sums(g, f, Small(S, 0))
      BY <3>1 DEF Sums
    <3> QED
      BY <2>2, <2>4, <3>2
  <2>5. CASE k # 0
    <3>1. k - 1 \in Nat /\ k - 1 < k
      BY <2>1, <2>5
    <3>2. PICK h : Sums(h, f, Small(S, k - 1))
      BY <2>1, <3>1
    <3> DEFINE Next(s) == f[Pick(s)] + h[Rest(s)]
               g == [s \in Small(S, k) |-> IF s \in Small(S, k - 1) THEN h[s] ELSE Next(s)]
    <3>3. \A s \in Small(S, k) : s # {} => Rest(s) \in Small(S, k - 1)
      <4> SUFFICES ASSUME NEW s \in Small(S, k), s # {}
                   PROVE  Rest(s) \in Small(S, k - 1)
        OBVIOUS
      <4>1. s \in SUBSET S /\ Cardinality(s) <= k /\ Cardinality(s) \in Nat /\ IsFiniteSet(s)
        BY <2>3 DEF Small
      <4>2. Rest(s) \in SUBSET S /\ Cardinality(Rest(s)) = Cardinality(s) - 1
        BY <4>1, Picked, FS_RemoveElement DEF Rest
      <4> QED
        BY <2>1, <4>1, <4>2 DEF Small
    <3>4. Small(S, k - 1) \subseteq Small(S, k)
      BY <2>1, <2>3, <3>1 DEF Small
    <3>5. ASSUME NEW s \in Small(S, k)
          PROVE  g[s] = IF s = {} THEN 0 ELSE f[Pick(s)] + g[Rest(s)]
      <4>1. {} \in Small(S, k - 1)
        BY <2>3, <3>1, FS_EmptySet DEF Small
      <4>2. \A u \in Small(S, k - 1) : h[u] = IF u = {} THEN 0 ELSE f[Pick(u)] + h[Rest(u)]
        BY <3>2 DEF Sums
      <4>3. s # {} => Rest(s) \in Small(S, k - 1) /\ g[Rest(s)] = h[Rest(s)]
        BY <3>3, <3>4
      <4>4. CASE s \in Small(S, k - 1)
        BY <4>2, <4>3, <4>4
      <4>5. CASE s \notin Small(S, k - 1)
        BY <4>1, <4>3, <4>5
      <4> QED
        BY <4>4, <4>5
    <3>6. Sums(g, f, Small(S, k))
      <4>1. g = [s \in Small(S, k) |-> g[s]]
        OBVIOUS
      <4> HIDE DEF g
      <4> QED
        BY <3>5, <4>1 DEF Sums
    <3> QED
      BY <2>2, <3>6
  <2> QED
    BY <2>4, <2>5
<1> QED
  BY <1>1

\* The sum is defined for every subset of a finite set.
LEMMA SumsExist ==
  ASSUME NEW S, IsFiniteSet(S), NEW f
  PROVE  \E g : Sums(g, f, SUBSET S)
<1>1. Cardinality(S) \in Nat
  BY FS_CardinalityType
<1>2. Small(S, Cardinality(S)) = SUBSET S
  BY FS_Subset DEF Small
<1>3. \E g : Sums(g, f, Small(S, Cardinality(S)))
  BY <1>1, SumsExistBelow
<1> QED
  BY <1>2, <1>3

TheSums(f, S) == CHOOSE g : Sums(g, f, SUBSET S)

\* What SumOver stands for.
LEMMA SumIsSolution ==
  ASSUME NEW S, IsFiniteSet(S), NEW f
  PROVE  Sums(TheSums(f, S), f, SUBSET S) /\ SumOver(f, S) = TheSums(f, S)[S]
<1>1. Sums(TheSums(f, S), f, SUBSET S)
  BY SumsExist DEF TheSums
<1>2. SumOver(f, S) = TheSums(f, S)[S]
  BY DEF SumOver, MapThenSumSet, MapThenFoldSet, TheSums, Sums, Pick, Rest
<1> QED
  BY <1>1, <1>2

\* Solutions for functions that agree agree.
LEMMA SumsAgree ==
  ASSUME NEW S, IsFiniteSet(S), NEW T \in SUBSET S, NEW e, NEW f, \A x \in T : e[x] = f[x],
         NEW g, NEW h, Sums(g, e, SUBSET S), Sums(h, f, SUBSET T)
  PROVE  g[T] = h[T]
<1> DEFINE Bad == {s \in SUBSET T : g[s] # h[s]}
<1>1. ASSUME Bad # {} PROVE FALSE
  <2>1. IsFiniteSet(T)
    BY FS_Subset
  <2>2. PICK s \in Bad : \A u \in SUBSET s : u # s => u \notin Bad
    <3>1. Bad \in SUBSET (SUBSET T)
      OBVIOUS
    <3> HIDE DEF Bad
    <3> QED
      BY <1>1, <2>1, <3>1, SmallestSet
  <2>3. /\ g[s] = IF s = {} THEN 0 ELSE e[Pick(s)] + g[Rest(s)]
        /\ h[s] = IF s = {} THEN 0 ELSE f[Pick(s)] + h[Rest(s)]
    BY <2>2 DEF Sums
  <2>4. CASE s = {}
    BY <2>2, <2>3, <2>4
  <2>5. CASE s # {}
    <3>1. Pick(s) \in T /\ Rest(s) \in SUBSET T /\ Rest(s) \in SUBSET s /\ Rest(s) # s
      BY <2>2, <2>5, Picked
    <3>2. g[Rest(s)] = h[Rest(s)]
      BY <2>2, <3>1
    <3> QED
      BY <2>2, <2>3, <3>1, <3>2
  <2> QED
    BY <2>4, <2>5
<1> QED
  BY <1>1

------------------------------------------------------------------------------
(* Laws.                                                                     *)

\* A sum depends on the values on the set only.
THEOREM SumEqual ==
  ASSUME NEW S, IsFiniteSet(S), NEW e, NEW f, \A x \in S : e[x] = f[x]
  PROVE  SumOver(e, S) = SumOver(f, S)
<1>1. /\ Sums(TheSums(e, S), e, SUBSET S) /\ SumOver(e, S) = TheSums(e, S)[S]
      /\ Sums(TheSums(f, S), f, SUBSET S) /\ SumOver(f, S) = TheSums(f, S)[S]
  BY SumIsSolution
<1>2. S \in SUBSET S
  OBVIOUS
<1>3. TheSums(e, S)[S] = TheSums(f, S)[S]
  BY <1>1, <1>2, SumsAgree
<1> QED
  BY <1>1, <1>3

\* The sum over no element is 0.
THEOREM SumEmpty ==
  ASSUME NEW f
  PROVE  SumOver(f, {}) = 0
<1>1. IsFiniteSet({})
  BY FS_EmptySet
<1> QED
  BY <1>1, SumIsSolution DEF Sums

\* The sum over some takes one of them, and the sum over the others.
LEMMA SumPicks ==
  ASSUME NEW S, IsFiniteSet(S), S # {}, NEW f
  PROVE  SumOver(f, S) = f[Pick(S)] + SumOver(f, Rest(S))
<1>1. Rest(S) \in SUBSET S /\ IsFiniteSet(Rest(S))
  BY Picked, FS_Subset
<1>2. Sums(TheSums(f, S), f, SUBSET S) /\ SumOver(f, S) = TheSums(f, S)[S]
  BY SumIsSolution
<1>3. /\ Sums(TheSums(f, Rest(S)), f, SUBSET Rest(S))
      /\ SumOver(f, Rest(S)) = TheSums(f, Rest(S))[Rest(S)]
  BY <1>1, SumIsSolution
<1>4. TheSums(f, S)[S] = f[Pick(S)] + TheSums(f, S)[Rest(S)]
  <2> DEFINE g == TheSums(f, S)
  <2>1. g = [s \in SUBSET S |-> IF s = {} THEN 0 ELSE f[Pick(s)] + g[Rest(s)]]
    BY <1>2 DEF Sums
  <2> HIDE DEF g
  <2>2. S \in SUBSET S
    OBVIOUS
  <2>3. g[S] = IF S = {} THEN 0 ELSE f[Pick(S)] + g[Rest(S)]
    BY <2>1, <2>2
  <2>4. g[S] = f[Pick(S)] + g[Rest(S)]
    BY <2>3
  <2> QED
    BY <2>4 DEF g
<1>5. TheSums(f, S)[Rest(S)] = TheSums(f, Rest(S))[Rest(S)]
  <2>1. \A x \in Rest(S) : f[x] = f[x]
    OBVIOUS
  <2> QED
    BY <1>1, <1>2, <1>3, <2>1, SumsAgree
<1> QED
  BY <1>2, <1>3, <1>4, <1>5

\* A sum of numbers from a set that is closed under addition is in that set.
THEOREM SumClosed ==
  ASSUME NEW S, IsFiniteSet(S), NEW f, NEW N, 0 \in N, \A a, b \in N : a + b \in N,
         \A x \in S : f[x] \in N
  PROVE  SumOver(f, S) \in N
<1> DEFINE Bad == {s \in SUBSET S : SumOver(f, s) \notin N}
<1>1. ASSUME Bad # {} PROVE FALSE
  <2>1. PICK s \in Bad : \A u \in SUBSET s : u # s => u \notin Bad
    <3>1. Bad \in SUBSET (SUBSET S)
      OBVIOUS
    <3> HIDE DEF Bad
    <3> QED
      BY <1>1, <3>1, SmallestSet
  <2>2. CASE s = {}
    BY <2>1, <2>2, SumEmpty
  <2>3. CASE s # {}
    <3>1. Pick(s) \in S /\ Rest(s) \in SUBSET S /\ Rest(s) \in SUBSET s /\ Rest(s) # s
      BY <2>1, <2>3, Picked
    <3>2. SumOver(f, Rest(s)) \in N /\ f[Pick(s)] \in N
      BY <2>1, <3>1
    <3>3. SumOver(f, s) = f[Pick(s)] + SumOver(f, Rest(s))
      BY <2>1, <2>3, SumPicks, FS_Subset
    <3> QED
      BY <2>1, <3>2, <3>3
  <2> QED
    BY <2>2, <2>3
<1> QED
  BY <1>1

\* A sum of integers is an integer, one of natural numbers a natural number.
THEOREM SumType ==
  ASSUME NEW S, IsFiniteSet(S), NEW f, NEW N \in {Nat, Int}, \A x \in S : f[x] \in N
  PROVE  SumOver(f, S) \in N
<1>1. 0 \in N /\ \A a, b \in N : a + b \in N
  OBVIOUS
<1> QED
  BY <1>1, SumClosed

\* One element more adds its value, whatever the order of picking.
THEOREM SumAdd ==
  ASSUME NEW S, IsFiniteSet(S), NEW x, x \notin S, NEW f, \A y \in S \cup {x} : f[y] \in Int
  PROVE  SumOver(f, S \cup {x}) = f[x] + SumOver(f, S)
<1> DEFINE W == S \cup {x}
           Bad == {T \in SUBSET W : \E y \in W \ T : SumOver(f, T \cup {y}) # f[y] + SumOver(f, T)}
<1>1. IsFiniteSet(W) /\ \A y \in W : f[y] \in Int
  BY FS_AddElement
<1> HIDE DEF W
<1>2. \A T \in SUBSET W : IsFiniteSet(T) /\ SumOver(f, T) \in Int
  <2> SUFFICES ASSUME NEW T \in SUBSET W
               PROVE  IsFiniteSet(T) /\ SumOver(f, T) \in Int
    OBVIOUS
  <2>1. IsFiniteSet(T)
    BY <1>1, FS_Subset
  <2>2. \A y \in T : f[y] \in Int
    BY <1>1
  <2> QED
    BY <2>1, <2>2, SumType
<1>3. ASSUME Bad # {} PROVE FALSE
  <2>1. PICK T \in Bad : \A U \in SUBSET T : U # T => U \notin Bad
    <3>1. Bad \in SUBSET (SUBSET W)
      OBVIOUS
    <3> HIDE DEF Bad
    <3> QED
      BY <1>1, <1>3, <3>1, SmallestSet
  <2>2. PICK y \in W \ T : SumOver(f, T \cup {y}) # f[y] + SumOver(f, T)
    BY <2>1
  <2> DEFINE c == Pick(T \cup {y})
  <2>3. /\ c \in T \cup {y} /\ T \cup {y} \in SUBSET W /\ T \in SUBSET W
        /\ SumOver(f, T \cup {y}) = f[c] + SumOver(f, (T \cup {y}) \ {c})
    <3>1. T \cup {y} # {} /\ T \cup {y} \in SUBSET W
      BY <2>1, <2>2
    <3>2. IsFiniteSet(T \cup {y})
      BY <1>2, <3>1
    <3> QED
      BY <3>1, <3>2, Picked, SumPicks DEF Rest
  <2> HIDE DEF c
  <2>4. CASE c = y
    <3>1. (T \cup {y}) \ {c} = T
      BY <2>2, <2>4
    <3> QED
      BY <2>2, <2>3, <2>4, <3>1
  <2>5. CASE c # y
    <3> DEFINE U == T \ {c}
    <3>1. /\ c \in T /\ U \in SUBSET T /\ U # T /\ (T \cup {y}) \ {c} = U \cup {y}
          /\ U \cup {c} = T /\ y \in W \ U /\ c \in W \ U /\ U \in SUBSET W
      BY <2>2, <2>3, <2>5
    <3> HIDE DEF U
    <3>2. U \notin Bad
      BY <2>1, <3>1
    <3>3. SumOver(f, U \cup {y}) = f[y] + SumOver(f, U)
      BY <3>1, <3>2
    <3>4. SumOver(f, U \cup {c}) = f[c] + SumOver(f, U)
      BY <3>1, <3>2
    <3>5. f[c] \in Int /\ f[y] \in Int /\ SumOver(f, U) \in Int
      BY <1>1, <1>2, <2>2, <3>1
    <3>6. SumOver(f, T \cup {y}) = f[c] + (f[y] + SumOver(f, U))
      BY <2>3, <3>1, <3>3
    <3>7. SumOver(f, T) = f[c] + SumOver(f, U)
      BY <3>1, <3>4
    <3> QED
      BY <2>2, <3>5, <3>6, <3>7
  <2> QED
    BY <2>4, <2>5
<1>4. S \notin Bad /\ S \in SUBSET W /\ x \in W \ S
  BY <1>3 DEF W
<1> QED
  BY <1>4

\* Changing one value changes the sum by the difference.
THEOREM SumExcept ==
  ASSUME NEW S, IsFiniteSet(S), NEW x \in S, NEW f, \A y \in S : f[y] \in Int,
         NEW g, g[x] \in Int, \A y \in S : y # x => g[y] = f[y]
  PROVE  SumOver(g, S) = SumOver(f, S) - f[x] + g[x]
<1> DEFINE T == S \ {x}
<1>1. IsFiniteSet(T) /\ x \notin T /\ S = T \cup {x}
  BY FS_RemoveElement
<1>2. /\ \A y \in T \cup {x} : f[y] \in Int
      /\ \A y \in T \cup {x} : g[y] \in Int
      /\ \A y \in T : f[y] \in Int
      /\ \A y \in T : g[y] = f[y]
  OBVIOUS
<1> HIDE DEF T
<1>3. SumOver(f, S) = f[x] + SumOver(f, T) /\ SumOver(g, S) = g[x] + SumOver(g, T)
  BY <1>1, <1>2, SumAdd
<1>4. SumOver(g, T) = SumOver(f, T)
  BY <1>1, <1>2, SumEqual
<1>5. SumOver(f, T) \in Int
  BY <1>1, <1>2, SumType
<1> QED
  BY <1>3, <1>4, <1>5

\* Elements whose value is 0 may be left out.
THEOREM SumWithoutZeros ==
  ASSUME NEW S, IsFiniteSet(S), NEW T \in SUBSET S, NEW f,
         \A y \in S : f[y] \in Int, \A y \in S \ T : f[y] = 0
  PROVE  SumOver(f, S) = SumOver(f, T)
<1> DEFINE Bad == {U \in SUBSET S : T \subseteq U /\ SumOver(f, U) # SumOver(f, T)}
<1>1. ASSUME Bad # {} PROVE FALSE
  <2>1. PICK U \in Bad : \A V \in SUBSET U : V # U => V \notin Bad
    <3>1. Bad \in SUBSET (SUBSET S)
      OBVIOUS
    <3> HIDE DEF Bad
    <3> QED
      BY <1>1, <3>1, SmallestSet
  <2>2. PICK x \in U \ T : TRUE
    BY <2>1
  <2>3. /\ IsFiniteSet(U \ {x}) /\ x \notin U \ {x} /\ (U \ {x}) \cup {x} = U
        /\ \A y \in (U \ {x}) \cup {x} : f[y] \in Int
        /\ \A y \in U \ {x} : f[y] \in Int
    BY <2>1, <2>2, FS_Subset
  <2>4. SumOver(f, U) = f[x] + SumOver(f, U \ {x}) /\ SumOver(f, U \ {x}) \in Int
    <3> DEFINE V == U \ {x}
    <3> HIDE DEF V
    <3>1. SumOver(f, V \cup {x}) = f[x] + SumOver(f, V) /\ SumOver(f, V) \in Int
      BY <2>3, SumAdd, SumType DEF V
    <3> QED
      BY <2>3, <3>1 DEF V
  <2>5. f[x] = 0
    BY <2>1, <2>2
  <2>6. U \ {x} \notin Bad /\ U \ {x} \in SUBSET S /\ T \subseteq U \ {x}
    BY <2>1, <2>2
  <2> QED
    BY <2>1, <2>4, <2>5, <2>6
<1>2. S \notin Bad
  BY <1>1
<1> QED
  BY <1>2

\* No term of a sum of natural numbers is greater than the sum.
THEOREM SumCovers ==
  ASSUME NEW S, IsFiniteSet(S), NEW f, \A y \in S : f[y] \in Nat, NEW x \in S
  PROVE  f[x] <= SumOver(f, S)
<1> DEFINE T == S \ {x}
<1>1. IsFiniteSet(T) /\ x \notin T /\ S = T \cup {x}
  BY FS_RemoveElement
<1>2. (\A y \in T \cup {x} : f[y] \in Int) /\ (\A y \in T : f[y] \in Nat) /\ f[x] \in Nat
  OBVIOUS
<1> HIDE DEF T
<1>3. SumOver(f, S) = f[x] + SumOver(f, T) /\ SumOver(f, T) \in Nat
  BY <1>1, <1>2, SumAdd, SumType
<1> QED
  BY <1>2, <1>3

\* The sum over a part of a set is at most the sum over the set.
THEOREM SumPart ==
  ASSUME NEW S, IsFiniteSet(S), NEW f, \A y \in S : f[y] \in Nat, NEW T \in SUBSET S
  PROVE  SumOver(f, T) <= SumOver(f, S)
<1> DEFINE Bad == {U \in SUBSET S : T \subseteq U /\ ~(SumOver(f, T) <= SumOver(f, U))}
<1>1. ASSUME Bad # {} PROVE FALSE
  <2>1. PICK U \in Bad : \A V \in SUBSET U : V # U => V \notin Bad
    <3>1. Bad \in SUBSET (SUBSET S)
      OBVIOUS
    <3> HIDE DEF Bad
    <3> QED
      BY <1>1, <3>1, SmallestSet
  <2>2. U \in SUBSET S /\ T \subseteq U /\ ~(SumOver(f, T) <= SumOver(f, U))
    BY <2>1
  <2>3. IsFiniteSet(T) /\ SumOver(f, T) \in Nat
    BY <2>2, FS_Subset, SumType
  <2>4. PICK x \in U : x \notin T
    <3>1. U # T
      BY <2>2, <2>3
    <3> QED
      BY <2>2, <3>1
  <2> DEFINE V == U \ {x}
  <2>5. V \in SUBSET U /\ V # U /\ V \in SUBSET S /\ T \subseteq V /\ U = V \cup {x} /\ x \notin V
    BY <2>2, <2>4
  <2>6. V \notin Bad
    BY <2>1, <2>5
  <2>7. IsFiniteSet(V) /\ (\A y \in V : f[y] \in Nat) /\ (\A y \in V \cup {x} : f[y] \in Int) /\ f[x] \in Nat
    BY <2>2, <2>4, <2>5, FS_Subset
  <2> HIDE DEF V
  <2>8. SumOver(f, T) <= SumOver(f, V)
    BY <2>5, <2>6
  <2>9. SumOver(f, U) = f[x] + SumOver(f, V)
    BY <2>5, <2>7, SumAdd
  <2>10. SumOver(f, V) \in Nat
    BY <2>7, SumType
  <2> QED
    BY <2>2, <2>3, <2>7, <2>8, <2>9, <2>10
<1>2. S \notin Bad
  BY <1>1
<1> QED
  BY <1>2

================================================================================
