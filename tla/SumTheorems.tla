---------------------------- MODULE SumTheorems ----------------------------
(***************************************************************************)
(* Sums of a function over a finite set (SumFunctionOnSet of the community *)
(* modules): what the proofs about money need to know of them. The library *)
(* computes a sum by taking the elements in an unspecified order, one by   *)
(* one, so each fact is proved by looking at a smallest subset for which   *)
(* it would be false.                                                      *)
(***************************************************************************)
EXTENDS FiniteSetTheorems, TLAPS

\* The element the library takes first out of a set.
FirstOf(s) == CHOOSE x \in s : TRUE

\* The equation the library defines the sums over the subsets of S by.
IsSum(g, f, S) ==
  g = [s \in SUBSET S |-> IF s = {} THEN 0
                          ELSE f[FirstOf(s)] + g[s \ {FirstOf(s)}]]

\* A non-empty set of subsets of a finite set has a smallest one.
LEMMA SmallestSubset ==
  ASSUME NEW S, IsFiniteSet(S), NEW B, B \subseteq SUBSET S, B # {}
  PROVE  \E m \in B : \A t \in SUBSET m : t # m => t \notin B
<1>1. IsWellFoundedOn(StrictSubsetOrdering(S), FiniteSubsetsOf(S))
  BY FS_StrictSubsetOrderingWellFounded
<1>2. B \subseteq FiniteSubsetsOf(S)
  BY FS_FiniteSubsetsOfFinite
<1>3. PICK m \in B : \A t \in B : ~ (<<t, m>> \in StrictSubsetOrdering(S))
  BY <1>1, <1>2, WFMin
<1>4. ASSUME NEW t \in SUBSET m, t # m, t \in B PROVE FALSE
  BY <1>3, <1>4 DEF StrictSubsetOrdering
<1> QED BY <1>4

\* Taking the first element out of a set leaves a strictly smaller one.
LEMMA FirstOfIn ==
  ASSUME NEW s, s # {}
  PROVE  FirstOf(s) \in s /\ s \ {FirstOf(s)} \subseteq s /\ s \ {FirstOf(s)} # s
BY DEF FirstOf

-----------------------------------------------------------------------------
(***************************************************************************)
(* The equation has exactly one solution.                                  *)
(***************************************************************************)

LEMMA IsSumApply ==
  ASSUME NEW g, NEW f, NEW S, IsSum(g, f, S), NEW s \in SUBSET S
  PROVE  g[s] = IF s = {} THEN 0 ELSE f[FirstOf(s)] + g[s \ {FirstOf(s)}]
BY DEF IsSum

LEMMA SumsAgree ==
  ASSUME NEW f, NEW S, IsFiniteSet(S), NEW T \in SUBSET S,
         NEW g, IsSum(g, f, S), NEW h, IsSum(h, f, T)
  PROVE  \A s \in SUBSET T : g[s] = h[s]
<1> DEFINE B == {s \in SUBSET T : g[s] # h[s]}
<1> SUFFICES ASSUME B # {} PROVE FALSE
  OBVIOUS
<1>1. PICK m \in B : \A t \in SUBSET m : t # m => t \notin B
  <2>1. B \subseteq SUBSET S
    OBVIOUS
  <2> HIDE DEF B
  <2> QED BY <2>1, SmallestSubset
<1>2. m \in SUBSET T /\ m \in SUBSET S /\ g[m] # h[m]
  OBVIOUS
<1>3. m # {}
  BY <1>2, IsSumApply
<1>4. g[m \ {FirstOf(m)}] = h[m \ {FirstOf(m)}]
  BY <1>1, <1>2, <1>3, FirstOfIn
<1> QED BY <1>2, <1>3, <1>4, IsSumApply

LEMMA SumExists ==
  ASSUME NEW f, NEW S, IsFiniteSet(S)
  PROVE  \E g : IsSum(g, f, S)
<1> DEFINE B == {s \in SUBSET S : ~ \E g : IsSum(g, f, s)}
<1> SUFFICES ASSUME B # {} PROVE FALSE
  OBVIOUS
<1>1. PICK m \in B : \A t \in SUBSET m : t # m => t \notin B
  <2>1. B \subseteq SUBSET S
    OBVIOUS
  <2> HIDE DEF B
  <2> QED BY <2>1, SmallestSubset
<1> DEFINE sol(t) == CHOOSE g : IsSum(g, f, t)
           rest(s) == s \ {FirstOf(s)}
           G == [s \in SUBSET m |-> IF s = {} THEN 0
                                    ELSE f[FirstOf(s)] + sol(rest(s))[rest(s)]]
<1>2. m \in SUBSET S /\ ~ \E g : IsSum(g, f, m)
  OBVIOUS
<1>3. ASSUME NEW t \in SUBSET m, t # m PROVE IsSum(sol(t), f, t)
  <2>1. \E g : IsSum(g, f, t)
    BY <1>1, <1>2, <1>3
  <2> QED BY <2>1
<1> HIDE DEF B, sol
<1>4. ASSUME NEW s \in SUBSET m, s # {} PROVE G[rest(s)] = sol(rest(s))[rest(s)]
  <2> DEFINE t == rest(s)
  <2>1. t \in SUBSET m /\ t # m
    BY <1>4, FirstOfIn
  <2>2. IsSum(sol(t), f, t)
    BY <1>3, <2>1
  <2> HIDE DEF t, rest
  <2>3. CASE t = {}
    BY <2>1, <2>2, <2>3, IsSumApply DEF t
  <2>4. CASE t # {}
    <3>1. rest(t) \in SUBSET t /\ rest(t) \in SUBSET m /\ rest(t) # m
      BY <2>1, <2>4, FirstOfIn DEF rest
    <3>2. IsSum(sol(rest(t)), f, rest(t))
      BY <1>3, <3>1
    <3>3. IsFiniteSet(t)
      BY <1>2, <2>1, FS_Subset
    <3>4. sol(t)[rest(t)] = sol(rest(t))[rest(t)]
      BY <2>2, <3>1, <3>2, <3>3, SumsAgree
    <3>5. sol(t)[t] = f[FirstOf(t)] + sol(t)[rest(t)]
      BY <2>2, <2>4, IsSumApply DEF rest
    <3> QED BY <2>1, <2>4, <3>4, <3>5 DEF t
  <2> QED BY <2>3, <2>4
<1>5. IsSum(G, f, m)
  <2> HIDE DEF G
  <2>1. ASSUME NEW s \in SUBSET m
        PROVE  G[s] = IF s = {} THEN 0 ELSE f[FirstOf(s)] + G[rest(s)]
    BY <1>4 DEF G
  <2>2. G = [s \in SUBSET m |-> G[s]]
    BY DEF G
  <2> QED BY <2>1, <2>2 DEF IsSum
<1> QED BY <1>2, <1>5

LEMMA SumIsSolution ==
  ASSUME NEW f, NEW S, IsFiniteSet(S)
  PROVE  \E g : IsSum(g, f, S) /\ SumFunctionOnSet(f, S) = g[S]
<1> DEFINE g == CHOOSE g : IsSum(g, f, S)
<1>1. IsSum(g, f, S)
  BY SumExists
<1>2. SumFunctionOnSet(f, S) = g[S]
  BY DEF SumFunctionOnSet, FoldFunctionOnSet, MapThenFoldSet, IsSum, FirstOf
<1> QED BY <1>1, <1>2

-----------------------------------------------------------------------------
(***************************************************************************)
(* What the sum of a set is made of.                                       *)
(***************************************************************************)

\* The sum of nothing is zero.
THEOREM SumEmpty == \A f : SumFunctionOnSet(f, {}) = 0
BY SumIsSolution, IsSumApply, FS_EmptySet

LEMMA SumFirst ==
  ASSUME NEW f, NEW S, IsFiniteSet(S), S # {}
  PROVE  SumFunctionOnSet(f, S) = f[FirstOf(S)] + SumFunctionOnSet(f, S \ {FirstOf(S)})
<1> DEFINE t == S \ {FirstOf(S)}
<1>1. PICK g : IsSum(g, f, S) /\ SumFunctionOnSet(f, S) = g[S]
  BY SumIsSolution
<1>2. IsFiniteSet(t) /\ t \in SUBSET S
  BY FS_Subset
<1>3. PICK h : IsSum(h, f, t) /\ SumFunctionOnSet(f, t) = h[t]
  BY <1>2, SumIsSolution
<1>4. g[t] = h[t]
  BY <1>1, <1>2, <1>3, SumsAgree
<1> QED BY <1>1, <1>3, <1>4, IsSumApply

\* A sum of integers is an integer.
LEMMA SumInt ==
  ASSUME NEW S, IsFiniteSet(S), NEW f, \A x \in S : f[x] \in Int
  PROVE  SumFunctionOnSet(f, S) \in Int
<1> DEFINE B == {s \in SUBSET S : SumFunctionOnSet(f, s) \notin Int}
<1> SUFFICES ASSUME B # {} PROVE FALSE
  OBVIOUS
<1>1. PICK m \in B : \A t \in SUBSET m : t # m => t \notin B
  <2>1. B \subseteq SUBSET S
    OBVIOUS
  <2> HIDE DEF B
  <2> QED BY <2>1, SmallestSubset
<1>2. m \in SUBSET S /\ IsFiniteSet(m) /\ SumFunctionOnSet(f, m) \notin Int
  BY FS_Subset
<1> HIDE DEF B
<1>3. m # {}
  <2>1. SumFunctionOnSet(f, {}) = 0
    BY SumEmpty
  <2> QED BY <1>2, <2>1
<1>4. FirstOf(m) \in m /\ m \ {FirstOf(m)} \in SUBSET m /\ m \ {FirstOf(m)} # m
  BY <1>3, FirstOfIn
<1>5. SumFunctionOnSet(f, m \ {FirstOf(m)}) \in Int
  BY <1>1, <1>2, <1>4 DEF B
<1>6. f[FirstOf(m)] \in Int
  BY <1>2, <1>4
<1> QED BY <1>2, <1>3, <1>5, <1>6, SumFirst

\* Any element can be split off a sum: the order of the elements is irrelevant.
THEOREM SumRemove ==
  ASSUME NEW S, IsFiniteSet(S), NEW f, \A x \in S : f[x] \in Int, NEW e \in S
  PROVE  SumFunctionOnSet(f, S) = f[e] + SumFunctionOnSet(f, S \ {e})
<1> DEFINE B == {s \in SUBSET S :
                  \E x \in s : SumFunctionOnSet(f, s) # f[x] + SumFunctionOnSet(f, s \ {x})}
<1> SUFFICES ASSUME B # {} PROVE FALSE
  OBVIOUS
<1>1. PICK m \in B : \A t \in SUBSET m : t # m => t \notin B
  <2>1. B \subseteq SUBSET S
    OBVIOUS
  <2> HIDE DEF B
  <2> QED BY <2>1, SmallestSubset
<1>2. PICK x \in m : SumFunctionOnSet(f, m) # f[x] + SumFunctionOnSet(f, m \ {x})
  OBVIOUS
<1>3. m \in SUBSET S /\ IsFiniteSet(m) /\ m # {}
  BY FS_Subset
<1> DEFINE y == FirstOf(m)
<1>4. y \in m /\ SumFunctionOnSet(f, m) = f[y] + SumFunctionOnSet(f, m \ {y})
  BY <1>3, FirstOfIn, SumFirst
<1> HIDE DEF y
<1>5. x # y
  BY <1>2, <1>4
<1>6. SumFunctionOnSet(f, m \ {y}) = f[x] + SumFunctionOnSet(f, (m \ {y}) \ {x})
  <2>1. m \ {y} \in SUBSET m /\ m \ {y} # m /\ x \in m \ {y}
    BY <1>4, <1>5
  <2>2. m \ {y} \notin B
    BY <1>1, <2>1
  <2> QED BY <1>3, <2>1, <2>2
<1>7. SumFunctionOnSet(f, m \ {x}) = f[y] + SumFunctionOnSet(f, (m \ {x}) \ {y})
  <2>1. m \ {x} \in SUBSET m /\ m \ {x} # m /\ y \in m \ {x}
    BY <1>4, <1>5
  <2>2. m \ {x} \notin B
    BY <1>1, <2>1
  <2> QED BY <1>3, <2>1, <2>2
<1>8. (m \ {x}) \ {y} = (m \ {y}) \ {x}
  OBVIOUS
<1>9. SumFunctionOnSet(f, (m \ {y}) \ {x}) \in Int
  BY <1>3, SumInt, FS_Subset
<1>10. f[x] \in Int /\ f[y] \in Int
  BY <1>3, <1>4
<1>11. SumFunctionOnSet(f, m \ {x}) = f[y] + SumFunctionOnSet(f, (m \ {y}) \ {x})
  BY <1>7, <1>8
<1> HIDE DEF B
<1> QED BY <1>2, <1>4, <1>6, <1>9, <1>10, <1>11

-----------------------------------------------------------------------------
(***************************************************************************)
(* How a sum changes with the function and with the set.                   *)
(***************************************************************************)

\* A new element adds its value.
LEMMA SumAdd ==
  ASSUME NEW S, IsFiniteSet(S), NEW f, NEW e, e \notin S,
         \A x \in S \cup {e} : f[x] \in Int
  PROVE  SumFunctionOnSet(f, S \cup {e}) = SumFunctionOnSet(f, S) + f[e]
<1>1. IsFiniteSet(S \cup {e})
  BY FS_AddElement
<1>2. (S \cup {e}) \ {e} = S
  OBVIOUS
<1>3. SumFunctionOnSet(f, S \cup {e}) = f[e] + SumFunctionOnSet(f, (S \cup {e}) \ {e})
  BY <1>1, SumRemove
<1>4. SumFunctionOnSet(f, S \cup {e}) = f[e] + SumFunctionOnSet(f, S)
  BY <1>2, <1>3
<1>5. SumFunctionOnSet(f, S) \in Int /\ f[e] \in Int
  BY SumInt
<1> QED BY <1>4, <1>5

\* What is nowhere larger has no larger sum.
THEOREM SumMonotone ==
  ASSUME NEW S, IsFiniteSet(S), NEW f, \A x \in S : f[x] \in Int,
         NEW g, \A x \in S : g[x] \in Int /\ g[x] <= f[x]
  PROVE  SumFunctionOnSet(g, S) <= SumFunctionOnSet(f, S)
<1> DEFINE B == {s \in SUBSET S : ~ (SumFunctionOnSet(g, s) <= SumFunctionOnSet(f, s))}
<1> SUFFICES ASSUME B # {} PROVE FALSE
  OBVIOUS
<1>1. PICK m \in B : \A t \in SUBSET m : t # m => t \notin B
  <2>1. B \subseteq SUBSET S
    OBVIOUS
  <2> HIDE DEF B
  <2> QED BY <2>1, SmallestSubset
<1>2. /\ m \in SUBSET S /\ IsFiniteSet(m)
      /\ ~ (SumFunctionOnSet(g, m) <= SumFunctionOnSet(f, m))
  BY FS_Subset
<1> HIDE DEF B
<1>3. m # {}
  <2>1. SumFunctionOnSet(f, {}) = 0 /\ SumFunctionOnSet(g, {}) = 0
    BY SumEmpty
  <2> QED BY <1>2, <2>1
<1> DEFINE t == m \ {FirstOf(m)}
<1>4. FirstOf(m) \in m /\ t \in SUBSET m /\ t # m
  BY <1>3, FirstOfIn
<1>5. SumFunctionOnSet(g, t) <= SumFunctionOnSet(f, t)
  BY <1>1, <1>2, <1>4 DEF B
<1>6. /\ SumFunctionOnSet(f, m) = f[FirstOf(m)] + SumFunctionOnSet(f, t)
      /\ SumFunctionOnSet(g, m) = g[FirstOf(m)] + SumFunctionOnSet(g, t)
  BY <1>2, <1>3, SumFirst
<1>7. SumFunctionOnSet(f, t) \in Int /\ SumFunctionOnSet(g, t) \in Int
  BY <1>2, <1>4, SumInt, FS_Subset
<1>8. /\ f[FirstOf(m)] \in Int /\ g[FirstOf(m)] \in Int
      /\ g[FirstOf(m)] <= f[FirstOf(m)]
  BY <1>2, <1>4
<1> HIDE DEF t
<1> QED BY <1>2, <1>5, <1>6, <1>7, <1>8

\* The sum looks at nothing but the values on the set.
THEOREM SumEqual ==
  ASSUME NEW S, IsFiniteSet(S), NEW f, \A x \in S : f[x] \in Int,
         NEW g, \A x \in S : g[x] = f[x]
  PROVE  SumFunctionOnSet(g, S) = SumFunctionOnSet(f, S)
<1>1. \A x \in S : g[x] \in Int /\ g[x] <= f[x] /\ f[x] <= g[x]
  OBVIOUS
<1>2. /\ SumFunctionOnSet(g, S) <= SumFunctionOnSet(f, S)
      /\ SumFunctionOnSet(f, S) <= SumFunctionOnSet(g, S)
  BY <1>1, SumMonotone
<1>3. SumFunctionOnSet(g, S) \in Int /\ SumFunctionOnSet(f, S) \in Int
  BY <1>1, SumInt
<1> QED BY <1>2, <1>3

\* A sum of zeros is zero.
LEMMA SumZero ==
  ASSUME NEW S, IsFiniteSet(S), NEW f, \A x \in S : f[x] = 0
  PROVE  SumFunctionOnSet(f, S) = 0
<1> DEFINE B == {s \in SUBSET S : SumFunctionOnSet(f, s) # 0}
<1> SUFFICES ASSUME B # {} PROVE FALSE
  OBVIOUS
<1>1. PICK m \in B : \A t \in SUBSET m : t # m => t \notin B
  <2>1. B \subseteq SUBSET S
    OBVIOUS
  <2> HIDE DEF B
  <2> QED BY <2>1, SmallestSubset
<1>2. m \in SUBSET S /\ IsFiniteSet(m) /\ SumFunctionOnSet(f, m) # 0
  BY FS_Subset
<1> HIDE DEF B
<1>3. m # {}
  BY <1>2, SumEmpty
<1>4. FirstOf(m) \in m /\ m \ {FirstOf(m)} \in SUBSET m /\ m \ {FirstOf(m)} # m
  BY <1>3, FirstOfIn
<1>5. SumFunctionOnSet(f, m \ {FirstOf(m)}) = 0
  BY <1>1, <1>2, <1>4 DEF B
<1>6. f[FirstOf(m)] = 0
  BY <1>2, <1>4
<1> QED BY <1>2, <1>3, <1>5, <1>6, SumFirst

\* The sum of two disjoint sets is the sum of their sums.
LEMMA SumUnion ==
  ASSUME NEW S, IsFiniteSet(S), NEW T, IsFiniteSet(T), S \cap T = {},
         NEW f, \A x \in S \cup T : f[x] \in Int
  PROVE  SumFunctionOnSet(f, S \cup T) = SumFunctionOnSet(f, S) + SumFunctionOnSet(f, T)
<1> DEFINE B == {t \in SUBSET T : SumFunctionOnSet(f, S \cup t)
                                    # SumFunctionOnSet(f, S) + SumFunctionOnSet(f, t)}
<1> SUFFICES ASSUME B # {} PROVE FALSE
  OBVIOUS
<1>1. PICK m \in B : \A t \in SUBSET m : t # m => t \notin B
  <2>1. B \subseteq SUBSET T
    OBVIOUS
  <2> HIDE DEF B
  <2> QED BY <2>1, SmallestSubset
<1>2. /\ m \in SUBSET T
      /\ SumFunctionOnSet(f, S \cup m) # SumFunctionOnSet(f, S) + SumFunctionOnSet(f, m)
  OBVIOUS
<1> HIDE DEF B
<1>3. SumFunctionOnSet(f, S) \in Int
  BY SumInt
<1>4. m # {}
  <2>1. SumFunctionOnSet(f, {}) = 0
    BY SumEmpty
  <2>2. S \cup {} = S
    OBVIOUS
  <2> QED BY <1>2, <1>3, <2>1, <2>2
<1> DEFINE e == FirstOf(m)
           t == m \ {e}
<1>5. e \in m /\ t \in SUBSET m /\ t # m
  BY <1>4, FirstOfIn
<1>6. SumFunctionOnSet(f, S \cup t) = SumFunctionOnSet(f, S) + SumFunctionOnSet(f, t)
  BY <1>1, <1>2, <1>5 DEF B
<1>7. IsFiniteSet(t) /\ IsFiniteSet(S \cup t) /\ e \notin S \cup t /\ e \notin t
  BY <1>2, <1>5, FS_Subset, FS_Union
<1>8. S \cup m = (S \cup t) \cup {e} /\ m = t \cup {e}
  BY <1>5
<1>9. \A x \in (S \cup t) \cup {e} : f[x] \in Int
  BY <1>2, <1>5
<1> HIDE DEF e, t
<1>10. SumFunctionOnSet(f, (S \cup t) \cup {e}) = SumFunctionOnSet(f, S \cup t) + f[e]
  BY <1>7, <1>9, SumAdd
<1>11. SumFunctionOnSet(f, t \cup {e}) = SumFunctionOnSet(f, t) + f[e]
  BY <1>7, <1>9, SumAdd
<1>12. /\ SumFunctionOnSet(f, S \cup m) = SumFunctionOnSet(f, S \cup t) + f[e]
       /\ SumFunctionOnSet(f, m) = SumFunctionOnSet(f, t) + f[e]
  BY <1>8, <1>10, <1>11
<1>13. SumFunctionOnSet(f, t) \in Int /\ f[e] \in Int
  BY <1>7, <1>9, SumInt
<1> QED BY <1>2, <1>3, <1>6, <1>12, <1>13

\* Elements of value zero may be left out or put in.
THEOREM SumSupport ==
  ASSUME NEW S, IsFiniteSet(S), NEW T, IsFiniteSet(T),
         NEW f, \A x \in S \cup T : f[x] \in Int,
         \A x \in (S \ T) \cup (T \ S) : f[x] = 0
  PROVE  SumFunctionOnSet(f, S) = SumFunctionOnSet(f, T)
<1>1. ASSUME NEW U, IsFiniteSet(U), NEW V, V \subseteq U,
             \A x \in U : f[x] \in Int, \A x \in U \ V : f[x] = 0
      PROVE  SumFunctionOnSet(f, U) = SumFunctionOnSet(f, V)
  <2>1. IsFiniteSet(V) /\ IsFiniteSet(U \ V) /\ V \cap (U \ V) = {} /\ V \cup (U \ V) = U
    BY <1>1, FS_Subset
  <2>2. \A x \in V \cup (U \ V) : f[x] \in Int
    BY <1>1
  <2>3. SumFunctionOnSet(f, V \cup (U \ V))
          = SumFunctionOnSet(f, V) + SumFunctionOnSet(f, U \ V)
    BY <2>1, <2>2, SumUnion
  <2>4. SumFunctionOnSet(f, U \ V) = 0
    BY <1>1, <2>1, SumZero
  <2>5. SumFunctionOnSet(f, V) \in Int
    BY <2>1, <2>2, SumInt
  <2>6. SumFunctionOnSet(f, U) = SumFunctionOnSet(f, V) + 0
    BY <2>1, <2>3, <2>4
  <2> QED BY <2>5, <2>6
<1>2. SumFunctionOnSet(f, S) = SumFunctionOnSet(f, S \cap T)
  <2>1. S \cap T \subseteq S /\ (\A x \in S : f[x] \in Int)
        /\ (\A x \in S \ (S \cap T) : f[x] = 0)
    OBVIOUS
  <2> QED BY <1>1, <2>1
<1>3. SumFunctionOnSet(f, T) = SumFunctionOnSet(f, S \cap T)
  <2>1. S \cap T \subseteq T /\ (\A x \in T : f[x] \in Int)
        /\ (\A x \in T \ (S \cap T) : f[x] = 0)
    OBVIOUS
  <2> QED BY <1>1, <2>1
<1> QED BY <1>2, <1>3

\* A sum of natural numbers is one, and none of them exceeds it.
LEMMA SumNat ==
  ASSUME NEW S, IsFiniteSet(S), NEW f, \A x \in S : f[x] \in Nat
  PROVE  /\ SumFunctionOnSet(f, S) \in Nat
         /\ \A e \in S : f[e] <= SumFunctionOnSet(f, S)
<1>1. ASSUME NEW T \in SUBSET S PROVE SumFunctionOnSet(f, T) \in Nat
  <2> DEFINE zero == [x \in T |-> 0]
  <2>1. IsFiniteSet(T)
    BY FS_Subset
  <2>2. SumFunctionOnSet(zero, T) = 0
    BY <2>1, SumZero
  <2>3. \A x \in T : f[x] \in Int /\ zero[x] \in Int /\ zero[x] <= f[x]
    OBVIOUS
  <2> HIDE DEF zero
  <2>4. SumFunctionOnSet(zero, T) <= SumFunctionOnSet(f, T)
    BY <2>1, <2>3, SumMonotone
  <2>5. SumFunctionOnSet(f, T) \in Int
    BY <2>1, <2>3, SumInt
  <2> QED BY <2>2, <2>4, <2>5
<1>2. ASSUME NEW e \in S PROVE f[e] <= SumFunctionOnSet(f, S)
  <2>1. SumFunctionOnSet(f, S) = f[e] + SumFunctionOnSet(f, S \ {e})
    BY SumRemove
  <2> QED BY <1>1, <2>1
<1> QED BY <1>1, <1>2

\* One value changes.
THEOREM SumUpdate ==
  ASSUME NEW S, IsFiniteSet(S), NEW f, \A x \in S : f[x] \in Int,
         NEW e \in S, NEW g, g[e] \in Int, \A x \in S \ {e} : g[x] = f[x]
  PROVE  SumFunctionOnSet(g, S) = SumFunctionOnSet(f, S) + (g[e] - f[e])
<1>1. IsFiniteSet(S \ {e})
  BY FS_Subset
<1>2. /\ SumFunctionOnSet(f, S) = f[e] + SumFunctionOnSet(f, S \ {e})
      /\ SumFunctionOnSet(g, S) = g[e] + SumFunctionOnSet(g, S \ {e})
  BY SumRemove
<1>3. SumFunctionOnSet(g, S \ {e}) = SumFunctionOnSet(f, S \ {e})
  BY <1>1, SumEqual
<1>4. SumFunctionOnSet(f, S \ {e}) \in Int /\ f[e] \in Int
  BY <1>1, SumInt
<1> QED BY <1>2, <1>3, <1>4

\* An amount moves from one value to another, of which the set may hold either,
\* both or none.
THEOREM SumMove ==
  ASSUME NEW S, IsFiniteSet(S), NEW f, \A x \in S : f[x] \in Int,
         NEW a, NEW b, a # b, NEW n \in Int, NEW g,
         a \in S => g[a] = f[a] - n, b \in S => g[b] = f[b] + n,
         \A x \in S \ {a, b} : g[x] = f[x]
  PROVE  SumFunctionOnSet(g, S) = SumFunctionOnSet(f, S)
                                  - (IF a \in S THEN n ELSE 0) + (IF b \in S THEN n ELSE 0)
<1> DEFINE h == [x \in S |-> IF x = a THEN f[a] - n ELSE f[x]]
<1>1. \A x \in S : h[x] \in Int
  OBVIOUS
<1>2. SumFunctionOnSet(h, S) = SumFunctionOnSet(f, S) - (IF a \in S THEN n ELSE 0)
  <2>1. CASE a \in S
    <3>1. h[a] = f[a] - n /\ h[a] \in Int /\ f[a] \in Int /\ \A x \in S \ {a} : h[x] = f[x]
      BY <2>1
    <3> HIDE DEF h
    <3>2. SumFunctionOnSet(h, S) = SumFunctionOnSet(f, S) + (h[a] - f[a])
      BY <2>1, <3>1, SumUpdate
    <3>3. SumFunctionOnSet(f, S) \in Int
      BY SumInt
    <3> QED BY <2>1, <3>1, <3>2, <3>3
  <2>2. CASE a \notin S
    <3>1. \A x \in S : h[x] = f[x]
      BY <2>2
    <3> HIDE DEF h
    <3>2. SumFunctionOnSet(f, S) \in Int
      BY SumInt
    <3> QED BY <2>2, <3>1, <3>2, SumEqual
  <2> QED BY <2>1, <2>2
<1>3. SumFunctionOnSet(g, S) = SumFunctionOnSet(h, S) + (IF b \in S THEN n ELSE 0)
  <2>1. CASE b \in S
    <3>1. h[b] = f[b] /\ g[b] = h[b] + n /\ g[b] \in Int /\ h[b] \in Int
          /\ \A x \in S \ {b} : g[x] = h[x]
      BY <2>1
    <3> HIDE DEF h
    <3>2. SumFunctionOnSet(g, S) = SumFunctionOnSet(h, S) + (g[b] - h[b])
      BY <1>1, <2>1, <3>1, SumUpdate
    <3>3. SumFunctionOnSet(h, S) \in Int
      BY <1>1, SumInt
    <3> QED BY <2>1, <3>1, <3>2, <3>3
  <2>2. CASE b \notin S
    <3>1. \A x \in S : g[x] = h[x]
      BY <2>2
    <3> HIDE DEF h
    <3>2. SumFunctionOnSet(h, S) \in Int
      BY <1>1, SumInt
    <3> QED BY <1>1, <2>2, <3>1, <3>2, SumEqual
  <2> QED BY <2>1, <2>2
<1>4. SumFunctionOnSet(f, S) \in Int /\ SumFunctionOnSet(h, S) \in Int
  BY <1>1, SumInt
<1> HIDE DEF h
<1> QED BY <1>2, <1>3, <1>4

=============================================================================
