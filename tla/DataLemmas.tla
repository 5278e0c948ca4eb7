----------------------------- MODULE DataLemmas -----------------------------
(***************************************************************************)
(* Facts about sums over finite sets, about greatest and least elements    *)
(* and least numbers, and about the best of a ranking, that the proofs of  *)
(* several components need.                                                *)
(*                                                                         *)
(* The induction they rest on is the least element of a set of finite      *)
(* sets: a set of counterexamples that is not empty has one that is        *)
(* smallest under inclusion (WFMin), and that one leads to a contradiction.*)
(***************************************************************************)
EXTENDS Integers, FiniteSets, FiniteSetsExt, Functions, FiniteSetTheorems, TLAPS

LEMMA SmallestSet ==
  ASSUME NEW S, IsFiniteSet(S), NEW P \in SUBSET SUBSET S, P # {}
  PROVE  \E s \in P : \A t \in P : t \subseteq s => t = s
<1> DEFINE R == StrictSubsetOrdering(S)
<1>1. IsWellFoundedOn(R, SUBSET S)
  BY FS_StrictSubsetOrderingWellFounded, FS_FiniteSubsetsOfFinite
<1>2. \A t, s \in SUBSET S : t \subseteq s /\ t # s => <<t, s>> \in R
  BY DEF StrictSubsetOrdering
<1> HIDE DEF R
<1>3. PICK s \in P : \A t \in P : ~(<<t, s>> \in R)
  BY <1>1, WFMin
<1> QED BY <1>2, <1>3

-----------------------------------------------------------------------------
(* The recursive function that SumFunctionOnSet(f, S) applies to S. *)

First(s) == CHOOSE x \in s : TRUE

IsSum(f, S, g) ==
  g = [s \in SUBSET S |-> IF s = {} THEN 0 ELSE f[First(s)] + g[s \ {First(s)}]]

Summing(f, S) == CHOOSE g : IsSum(f, S, g)

LEMMA SumIs == \A f, S : SumFunctionOnSet(f, S) = Summing(f, S)[S]
  BY DEF SumFunctionOnSet, FoldFunctionOnSet, MapThenFoldSet, Summing, IsSum, First

LEMMA FirstIn == \A s : s # {} => First(s) \in s
  BY DEF First

LEMMA SumValue ==
  ASSUME NEW f, NEW S, NEW g, IsSum(f, S, g), NEW s \in SUBSET S
  PROVE  g[s] = IF s = {} THEN 0 ELSE f[First(s)] + g[s \ {First(s)}]
<1> DEFINE body(t) == IF t = {} THEN 0 ELSE f[First(t)] + g[t \ {First(t)}]
<1>1. g = [t \in SUBSET S |-> body(t)]
  BY DEF IsSum
<1> HIDE DEF body
<1>2. g[s] = body(s)
  BY <1>1
<1> QED BY <1>2 DEF body

\* Two such functions agree wherever both are defined.
LEMMA SumsAgree ==
  ASSUME NEW f, NEW A, NEW B, IsFiniteSet(A), NEW g, IsSum(f, A, g), NEW h, IsSum(f, B, h),
         NEW s \in SUBSET A, s \in SUBSET B
  PROVE  g[s] = h[s]
<1> DEFINE Bad == {t \in SUBSET A : t \subseteq B /\ g[t] # h[t]}
<1> SUFFICES ASSUME Bad # {} PROVE FALSE
  OBVIOUS
<1>1. PICK t \in Bad : \A u \in Bad : u \subseteq t => u = t
  <2>1. Bad \in SUBSET SUBSET A
    OBVIOUS
  <2> HIDE DEF Bad
  <2> QED BY <2>1, SmallestSet
<1>2. t # {} /\ First(t) \in t
  BY <1>1, SumValue, FirstIn
<1>3. g[t \ {First(t)}] = h[t \ {First(t)}]
  BY <1>1, <1>2
<1> QED BY <1>1, <1>2, <1>3, SumValue

\* On a finite set there is one.
LEMMA SumExists ==
  ASSUME NEW f, NEW S, IsFiniteSet(S)
  PROVE  IsSum(f, S, Summing(f, S))
<1> DEFINE Bad == {t \in SUBSET S : ~\E g : IsSum(f, t, g)}
<1>1. ASSUME Bad # {} PROVE FALSE
  <2>1. PICK s \in Bad : \A u \in Bad : u \subseteq s => u = s
    <3>1. Bad \in SUBSET SUBSET S
      OBVIOUS
    <3> HIDE DEF Bad
    <3> QED BY <1>1, <3>1, SmallestSet
  <2>2. ASSUME NEW t \in SUBSET s, t # s PROVE IsSum(f, t, Summing(f, t))
    <3>1. \E g : IsSum(f, t, g)
      BY <2>1, <2>2
    <3> QED BY <3>1 DEF Summing
  <2> DEFINE less(t) == t \ {First(t)}
             val(t) == IF t = {} THEN 0 ELSE f[First(t)] + Summing(f, less(t))[less(t)]
             g == [t \in SUBSET s |-> val(t)]
  <2>3. ASSUME NEW t \in SUBSET s, t # {} PROVE g[less(t)] = Summing(f, less(t))[less(t)]
    <3>1. less(t) \in SUBSET s /\ less(t) # s
      BY <2>3, FirstIn
    <3>2. g[less(t)] = val(less(t))
      BY <3>1
    <3>3. IsSum(f, less(t), Summing(f, less(t)))
      BY <2>2, <3>1
    <3> DEFINE u == less(t)
    <3>4. CASE u = {}
      BY <3>2, <3>3, <3>4, SumValue
    <3>5. CASE u # {}
      <4>1. less(u) \in SUBSET s /\ less(u) # s /\ less(u) \in SUBSET u
        BY <3>1, <3>5, FirstIn
      <4>2. IsSum(f, less(u), Summing(f, less(u)))
        BY <2>2, <4>1
      <4>3. IsFiniteSet(u) /\ IsFiniteSet(less(u))
        BY <3>1, <4>1, FS_Subset
      <4>4. Summing(f, less(u))[less(u)] = Summing(f, u)[less(u)]
        BY <3>3, <4>1, <4>2, <4>3, SumsAgree
      <4>5. Summing(f, u)[u] = f[First(u)] + Summing(f, u)[less(u)]
        <5>1. IsSum(f, u, Summing(f, u)) /\ u # {} /\ u \in SUBSET u
          BY <3>3, <3>5
        <5>2. Summing(f, u)[u] = f[First(u)] + Summing(f, u)[u \ {First(u)}]
          <6> HIDE DEF u
          <6> QED BY <5>1, SumValue
        <5> QED BY <5>2
      <4> QED BY <3>2, <3>5, <4>4, <4>5
    <3> QED BY <3>4, <3>5
  <2>4. \A t \in SUBSET s : val(t) = IF t = {} THEN 0 ELSE f[First(t)] + g[less(t)]
    BY <2>3
  <2>5. IsSum(f, s, g)
    BY <2>4 DEF IsSum
  <2> QED BY <2>1, <2>5
<1>2. \E g : IsSum(f, S, g)
  BY <1>1
<1> QED BY <1>2 DEF Summing

-----------------------------------------------------------------------------
(* Sums. *)

LEMMA SumEmpty == \A f : SumFunctionOnSet(f, {}) = 0
  BY SumIs, SumExists, SumValue, FS_EmptySet

LEMMA SumFirst ==
  ASSUME NEW f, NEW S, IsFiniteSet(S), S # {}
  PROVE  SumFunctionOnSet(f, S) = f[First(S)] + SumFunctionOnSet(f, S \ {First(S)})
<1> DEFINE T == S \ {First(S)}
<1>1. IsFiniteSet(T)
  BY FS_RemoveElement
<1>2. IsSum(f, S, Summing(f, S)) /\ IsSum(f, T, Summing(f, T))
  BY <1>1, SumExists
<1>3. Summing(f, S)[S] = f[First(S)] + Summing(f, S)[T]
  BY <1>2, SumValue
<1>4. Summing(f, S)[T] = Summing(f, T)[T]
  <2>1. T \in SUBSET S /\ T \in SUBSET T
    OBVIOUS
  <2> HIDE DEF T
  <2> QED BY <1>2, <2>1, SumsAgree
<1> QED BY <1>3, <1>4, SumIs

LEMMA SumInt ==
  ASSUME NEW f, NEW S, IsFiniteSet(S), \A x \in S : f[x] \in Int
  PROVE  SumFunctionOnSet(f, S) \in Int
<1> DEFINE Bad == {t \in SUBSET S : SumFunctionOnSet(f, t) \notin Int}
<1> SUFFICES ASSUME Bad # {} PROVE FALSE
  OBVIOUS
<1>1. PICK t \in Bad : \A u \in Bad : u \subseteq t => u = t
  <2>1. Bad \in SUBSET SUBSET S
    OBVIOUS
  <2> HIDE DEF Bad
  <2> QED BY <2>1, SmallestSet
<1>2. t # {} /\ First(t) \in t /\ IsFiniteSet(t)
  <2>0. SumFunctionOnSet(f, t) # 0
    BY <1>1
  <2>1. t # {}
    BY <2>0, SumEmpty
  <2> QED BY <1>1, <2>1, FirstIn, FS_Subset
<1>3. SumFunctionOnSet(f, t \ {First(t)}) \in Int
  BY <1>1, <1>2
<1> QED BY <1>1, <1>2, <1>3, SumFirst

\* Any summand may be taken off.
LEMMA SumRemove ==
  ASSUME NEW f, NEW S, IsFiniteSet(S), \A x \in S : f[x] \in Int, NEW x \in S
  PROVE  SumFunctionOnSet(f, S) = f[x] + SumFunctionOnSet(f, S \ {x})
<1> DEFINE Takes(t) == \A y \in t : SumFunctionOnSet(f, t) = f[y] + SumFunctionOnSet(f, t \ {y})
           Bad == {t \in SUBSET S : ~Takes(t)}
<1> SUFFICES ASSUME Bad # {} PROVE FALSE
  OBVIOUS
<1>1. PICK t \in Bad : \A u \in Bad : u \subseteq t => u = t
  <2>1. Bad \in SUBSET SUBSET S
    OBVIOUS
  <2> HIDE DEF Bad
  <2> QED BY <2>1, SmallestSet
<1>2. PICK y \in t : SumFunctionOnSet(f, t) # f[y] + SumFunctionOnSet(f, t \ {y})
  BY <1>1
<1> DEFINE z == First(t)
<1>3. z \in t /\ IsFiniteSet(t) /\ t \subseteq S
  BY <1>1, <1>2, FirstIn, FS_Subset
<1>4. SumFunctionOnSet(f, t) = f[z] + SumFunctionOnSet(f, t \ {z})
  BY <1>2, <1>3, SumFirst
<1>5. y # z
  BY <1>2, <1>4
<1>6. SumFunctionOnSet(f, t \ {z}) = f[y] + SumFunctionOnSet(f, (t \ {z}) \ {y})
  <2>1. t \ {z} \notin Bad
    BY <1>1, <1>3
  <2>2. Takes(t \ {z}) /\ y \in t \ {z}
    BY <1>3, <1>5, <2>1
  <2> QED BY <2>2
<1>7. SumFunctionOnSet(f, t \ {y}) = f[z] + SumFunctionOnSet(f, (t \ {y}) \ {z})
  <2>1. t \ {y} \notin Bad
    BY <1>1, <1>2
  <2>2. Takes(t \ {y}) /\ z \in t \ {y}
    BY <1>3, <1>5, <2>1
  <2> QED BY <2>2
<1>8. (t \ {z}) \ {y} = (t \ {y}) \ {z}
  OBVIOUS
<1>9. f[y] \in Int /\ f[z] \in Int /\ SumFunctionOnSet(f, (t \ {y}) \ {z}) \in Int
  <2>1. IsFiniteSet((t \ {y}) \ {z})
    BY <1>3, FS_RemoveElement
  <2> QED BY <1>2, <1>3, <2>1, SumInt
<1>10. \A a, b, c \in Int : a + (b + c) = b + (a + c)
  OBVIOUS
<1> DEFINE rest == SumFunctionOnSet(f, (t \ {y}) \ {z})
<1>11. /\ SumFunctionOnSet(f, t) = f[z] + (f[y] + rest)
       /\ SumFunctionOnSet(f, t \ {y}) = f[z] + rest
       /\ f[y] \in Int /\ f[z] \in Int /\ rest \in Int
  BY <1>4, <1>6, <1>7, <1>8, <1>9, Zenon
<1>12. f[z] + (f[y] + rest) = f[y] + (f[z] + rest)
  <2> HIDE DEF z, rest
  <2> QED BY <1>10, <1>11
<1> HIDE DEF z, rest
<1> QED BY <1>2, <1>11, <1>12, Zenon

LEMMA SumAdd ==
  ASSUME NEW f, NEW S, IsFiniteSet(S), NEW x, x \notin S, \A y \in S \cup {x} : f[y] \in Int
  PROVE  SumFunctionOnSet(f, S \cup {x}) = f[x] + SumFunctionOnSet(f, S)
<1>1. (S \cup {x}) \ {x} = S /\ IsFiniteSet(S \cup {x})
  BY FS_AddElement
<1> QED BY <1>1, SumRemove

LEMMA SumSame ==
  ASSUME NEW f, NEW g, NEW S, IsFiniteSet(S), \A x \in S : f[x] = g[x]
  PROVE  SumFunctionOnSet(f, S) = SumFunctionOnSet(g, S)
<1> DEFINE Bad == {t \in SUBSET S : SumFunctionOnSet(f, t) # SumFunctionOnSet(g, t)}
<1> SUFFICES ASSUME Bad # {} PROVE FALSE
  OBVIOUS
<1>1. PICK t \in Bad : \A u \in Bad : u \subseteq t => u = t
  <2>1. Bad \in SUBSET SUBSET S
    OBVIOUS
  <2> HIDE DEF Bad
  <2> QED BY <2>1, SmallestSet
<1>2. t # {} /\ First(t) \in t /\ IsFiniteSet(t)
  <2>1. t # {}
    BY <1>1, SumEmpty
  <2> QED BY <1>1, <2>1, FirstIn, FS_Subset
<1>3. SumFunctionOnSet(f, t \ {First(t)}) = SumFunctionOnSet(g, t \ {First(t)})
  BY <1>1, <1>2
<1> QED BY <1>1, <1>2, <1>3, SumFirst

LEMMA SumNat ==
  ASSUME NEW f, NEW S, IsFiniteSet(S), \A x \in S : f[x] \in Nat
  PROVE  SumFunctionOnSet(f, S) \in Nat
<1> DEFINE Bad == {t \in SUBSET S : SumFunctionOnSet(f, t) \notin Nat}
<1> SUFFICES ASSUME Bad # {} PROVE FALSE
  OBVIOUS
<1>1. PICK t \in Bad : \A u \in Bad : u \subseteq t => u = t
  <2>1. Bad \in SUBSET SUBSET S
    OBVIOUS
  <2> HIDE DEF Bad
  <2> QED BY <2>1, SmallestSet
<1>2. t # {} /\ First(t) \in t /\ IsFiniteSet(t)
  <2>0. SumFunctionOnSet(f, t) # 0
    BY <1>1
  <2>1. t # {}
    BY <2>0, SumEmpty
  <2> QED BY <1>1, <2>1, FirstIn, FS_Subset
<1>3. SumFunctionOnSet(f, t \ {First(t)}) \in Nat
  BY <1>1, <1>2
<1> QED BY <1>1, <1>2, <1>3, SumFirst

\* Summands that are zero add nothing.
LEMMA SumZero ==
  ASSUME NEW f, NEW S, IsFiniteSet(S), \A x \in S : f[x] = 0
  PROVE  SumFunctionOnSet(f, S) = 0
<1> DEFINE Bad == {t \in SUBSET S : SumFunctionOnSet(f, t) # 0}
<1> SUFFICES ASSUME Bad # {} PROVE FALSE
  OBVIOUS
<1>1. PICK t \in Bad : \A u \in Bad : u \subseteq t => u = t
  <2>1. Bad \in SUBSET SUBSET S
    OBVIOUS
  <2> HIDE DEF Bad
  <2> QED BY <2>1, SmallestSet
<1>2. t # {} /\ First(t) \in t /\ IsFiniteSet(t)
  <2>1. t # {}
    BY <1>1, SumEmpty
  <2> QED BY <1>1, <2>1, FirstIn, FS_Subset
<1>3. SumFunctionOnSet(f, t \ {First(t)}) = 0
  BY <1>1, <1>2
<1> QED BY <1>1, <1>2, <1>3, SumFirst

-----------------------------------------------------------------------------
(* Greatest and least elements. *)

LEMMA GreatestOf ==
  ASSUME NEW S, IsFiniteSet(S), S # {}, NEW h, \A x \in S : h[x] \in Int
  PROVE  \E x \in S : \A y \in S : h[y] <= h[x]
<1> DEFINE Bad == {t \in SUBSET S : t # {} /\ ~\E x \in t : \A y \in t : h[y] <= h[x]}
<1> SUFFICES ASSUME Bad # {} PROVE FALSE
  OBVIOUS
<1>1. PICK t \in Bad : \A u \in Bad : u \subseteq t => u = t
  <2>1. Bad \in SUBSET SUBSET S
    OBVIOUS
  <2> HIDE DEF Bad
  <2> QED BY <2>1, SmallestSet
<1>2. PICK x \in t : TRUE
  BY <1>1
<1>3. t \ {x} \notin Bad
  BY <1>1, <1>2
<1>4. CASE t \ {x} = {}
  <2>1. \A y \in t : y = x
    BY <1>4
  <2>2. h[x] <= h[x]
    BY <1>1, <1>2
  <2> QED BY <1>1, <1>2, <2>1, <2>2
<1>5. CASE t \ {x} # {}
  <2>1. PICK m \in t \ {x} : \A y \in t \ {x} : h[y] <= h[m]
    BY <1>1, <1>3, <1>5
  <2>2. \A y \in t : h[y] \in Int
    BY <1>1
  <2>3. CASE h[m] <= h[x]
    <3>1. \A y \in t : h[y] <= h[x]
      BY <1>2, <2>1, <2>2, <2>3
    <3> QED BY <1>1, <1>2, <3>1
  <2>4. CASE ~(h[m] <= h[x])
    <3>1. \A y \in t : h[y] <= h[m]
      BY <1>2, <2>1, <2>2, <2>4
    <3> QED BY <1>1, <2>1, <3>1
  <2> QED BY <2>3, <2>4
<1> QED BY <1>4, <1>5

LEMMA LeastOf ==
  ASSUME NEW S, IsFiniteSet(S), S # {}, NEW h, \A x \in S : h[x] \in Int
  PROVE  \E x \in S : \A y \in S : h[x] <= h[y]
<1> DEFINE g == [x \in S |-> 0 - h[x]]
<1>1. \A x \in S : g[x] = 0 - h[x] /\ g[x] \in Int
  OBVIOUS
<1> HIDE DEF g
<1>2. PICK x \in S : \A y \in S : g[y] <= g[x]
  BY <1>1, GreatestOf
<1>3. \A y \in S : h[x] <= h[y]
  BY <1>1, <1>2
<1> QED BY <1>3

LEMMA LeastNumber ==
  ASSUME NEW S \in SUBSET Nat, S # {}
  PROVE  \E m \in S : \A x \in S : m <= x
<1>1. PICK n \in S : TRUE
  OBVIOUS
<1> DEFINE T == S \cap (0..n)
           h == [x \in T |-> x]
<1>2. IsFiniteSet(T) /\ T # {}
  <2>1. IsFiniteSet(0..n)
    BY FS_Interval
  <2> QED BY <1>1, <2>1, FS_Subset
<1>3. \A x \in T : h[x] = x /\ h[x] \in Int
  OBVIOUS
<1>4. PICK m \in T : \A x \in T : h[m] <= h[x]
  <2> HIDE DEF T, h
  <2> QED BY <1>2, <1>3, LeastOf
<1>5. \A x \in S : m <= x
  BY <1>3, <1>4
<1> QED BY <1>5

LEMMA MaxIs ==
  ASSUME NEW S \in SUBSET Int, NEW m \in S, \A x \in S : x <= m
  PROVE  Max(S) = m
<1>1. \E x \in S : \A y \in S : x >= y
  OBVIOUS
<1>2. Max(S) \in S /\ \A y \in S : Max(S) >= y
  BY <1>1 DEF Max
<1>3. Max(S) \in Int /\ m \in Int /\ Max(S) >= m /\ Max(S) <= m
  BY <1>2
<1> HIDE DEF Max
<1> QED BY <1>3

(* Of K + 1 ranked things at most, those that fewer than K are ranked above.*)
LEMMA BestRanked ==
  ASSUME NEW D, IsFiniteSet(D), NEW h, \A s \in D : h[s] \in Int,
         \A s, t \in D : h[s] = h[t] => s = t,
         NEW K \in Nat \ {0}, Cardinality(D) <= K + 1,
         NEW R, R = {s \in D : Cardinality({t \in D : h[t] > h[s]}) < K}
  PROVE  Cardinality(R) <= K /\ (R # D => Cardinality(R) = K)
<1> DEFINE Above(s) == {t \in D : h[t] > h[s]}
<1>1. Cardinality(D) \in Nat
  BY FS_CardinalityType
<1>2. \A s \in D : /\ IsFiniteSet(D \ {s}) /\ Cardinality(D \ {s}) = Cardinality(D) - 1
                   /\ Above(s) \subseteq D \ {s}
  BY FS_RemoveElement
<1>3. CASE Cardinality(D) <= K
  <2>1. ASSUME NEW s \in D PROVE Cardinality(Above(s)) < K
    <3>1. Cardinality(Above(s)) <= Cardinality(D) - 1 /\ Cardinality(Above(s)) \in Nat
      BY <1>2, FS_Subset, FS_CardinalityType
    <3> QED BY <1>1, <1>3, <3>1
  <2>2. R = D
    BY <2>1
  <2>3. Cardinality(R) = Cardinality(D)
    BY <2>2, Zenon
  <2> QED BY <1>3, <2>2, <2>3
<1>4. CASE Cardinality(D) = K + 1
  <2>1. D # {}
    BY <1>4, FS_EmptySet
  <2>2. PICK m \in D : \A y \in D : h[m] <= h[y]
    BY <2>1, LeastOf
  <2>3. \A y \in D : y # m => h[y] > h[m]
    BY <2>2
  <2>4. Above(m) = D \ {m}
    BY <2>2, <2>3
  <2>5. m \notin R
    BY <1>2, <1>4, <2>4
  <2>6. ASSUME NEW s \in D, s # m PROVE s \in R
    <3> DEFINE Rest == (D \ {s}) \ {m}
    <3>1. IsFiniteSet(Rest) /\ Cardinality(Rest) = (Cardinality(D) - 1) - 1
      <4> DEFINE E == D \ {s}
      <4>1. IsFiniteSet(E) /\ Cardinality(E) = Cardinality(D) - 1 /\ m \in E
        BY <1>2, <2>6
      <4> HIDE DEF E
      <4>2. IsFiniteSet(E \ {m}) /\ Cardinality(E \ {m}) = Cardinality(E) - 1
        BY <4>1, FS_RemoveElement
      <4> QED BY <4>1, <4>2 DEF E
    <3>2. Above(s) \subseteq Rest
      BY <2>2, <2>3, <2>6
    <3>3. Cardinality(Above(s)) <= Cardinality(Rest) /\ Cardinality(Above(s)) \in Nat
      BY <3>1, <3>2, FS_Subset, FS_CardinalityType
    <3>4. Cardinality(Above(s)) < K
      BY <1>4, <3>1, <3>3
    <3> QED BY <2>6, <3>4
  <2>7. R = D \ {m}
    BY <2>5, <2>6
  <2>8. Cardinality(D \ {m}) = Cardinality(D) - 1
    BY <1>2
  <2>9. Cardinality(R) = K
    <3>1. Cardinality(R) = Cardinality(D \ {m})
      BY <2>7, Zenon
    <3> QED BY <1>4, <2>8, <3>1
  <2> QED BY <2>9
<1> QED BY <1>1, <1>3, <1>4
=============================================================================
