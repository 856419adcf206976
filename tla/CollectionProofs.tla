---------------------------- MODULE CollectionProofs ----------------------------
(***************************************************************************)
(* Proofs about Collection and AccountValue, for any items, prices, quests,*)
(* guilds, clock and failures.                                             *)
(*                                                                         *)
(* First what a sum over a finite set is: the community modules define it  *)
(* by recursion over the subsets, and every fact below is proved from a    *)
(* smallest counterexample.  Then the value of the account, the order of   *)
(* the readings of the callback, and what an export has at each of them.   *)
(***************************************************************************)
EXTENDS Collection, FiniteSetTheorems, WellFoundedInduction, TLAPS

(* Of the subsets of a finite set, those that are bad have a smallest one. *)
LEMMA SmallestSubset ==
    ASSUME NEW S, IsFiniteSet(S), NEW B \in SUBSET SUBSET S, B # {}
    PROVE  \E T \in B : \A U \in SUBSET T : U # T => U \notin B
<1> DEFINE R == StrictSubsetOrdering(S)
<1>1. IsWellFoundedOn(R, SUBSET S)
  BY FS_StrictSubsetOrderingWellFounded, FS_FiniteSubsetsOfFinite
<1>2. PICK T \in B : \A U \in B : <<U, T>> \notin R
  <2> HIDE DEF R
  <2> QED BY <1>1, WFMin
<1>3. ASSUME NEW U \in SUBSET T, U # T PROVE U \notin B
  <2>1. T \in SUBSET S /\ U \in SUBSET S
    BY <1>2
  <2>2. <<U, T>> \in R
    BY <1>3, <2>1 DEF StrictSubsetOrdering
  <2> QED BY <1>2, <2>2
<1> QED
  BY <1>2, <1>3

-----------------------------------------------------------------------------
(* Sums.  IsFold says that g is the recursive function behind the sum of f *)
(* over T, which removes one chosen element after another.                 *)
Pick(s) == CHOOSE x \in s : TRUE

IsFold(f, T, g) ==
    g = [s \in SUBSET T |->
           IF s = {} THEN 0 ELSE f[Pick(s)] + g[s \ {Pick(s)}]]

LEMMA PickIn == ASSUME NEW s, s # {} PROVE Pick(s) \in s
  BY DEF Pick

LEMMA SumIsFold ==
    ASSUME NEW f, NEW S
    PROVE  SumFunctionOnSet(f, S) = (CHOOSE g : IsFold(f, S, g))[S]
  BY DEF SumFunctionOnSet, FoldFunctionOnSet, MapThenFoldSet, IsFold, Pick

LEMMA FoldStep ==
    ASSUME NEW f, NEW T, NEW g, IsFold(f, T, g), NEW s \in SUBSET T
    PROVE  g[s] = IF s = {} THEN 0 ELSE f[Pick(s)] + g[s \ {Pick(s)}]
<1> DEFINE G(h) == [u \in SUBSET T |->
                       IF u = {} THEN 0 ELSE f[Pick(u)] + h[u \ {Pick(u)}]]
<1>1. g = G(g)
  BY DEF IsFold
<1>2. G(g)[s] = IF s = {} THEN 0 ELSE f[Pick(s)] + g[s \ {Pick(s)}]
  OBVIOUS
<1> HIDE DEF G
<1> QED BY <1>1, <1>2

(* Folds of one function agree where both are defined.                     *)
LEMMA FoldsAgree ==
    ASSUME NEW f, NEW T, NEW U, IsFiniteSet(T), U \subseteq T,
           NEW g, NEW h, IsFold(f, T, g), IsFold(f, U, h)
    PROVE  \A s \in SUBSET U : g[s] = h[s]
<1> DEFINE B == {s \in SUBSET U : g[s] # h[s]}
<1> SUFFICES ASSUME B # {} PROVE FALSE
  OBVIOUS
<1>1. IsFiniteSet(U) /\ B \in SUBSET SUBSET U
  BY FS_Subset
<1>2. PICK s \in B : \A u \in SUBSET s : u # s => u \notin B
  <2> HIDE DEF B
  <2> QED BY <1>1, SmallestSubset
<1>3. s \in SUBSET U /\ s \in SUBSET T /\ g[s] # h[s]
  BY <1>2
<1>4. CASE s = {}
  <2>1. g[s] = 0 /\ h[s] = 0
    BY <1>3, <1>4, FoldStep
  <2> QED BY <1>3, <2>1
<1>5. CASE s # {}
  <2> DEFINE r == s \ {Pick(s)}
  <2>1. r \in SUBSET s /\ r # s
    BY <1>5, PickIn
  <2>2. g[r] = h[r]
    BY <1>2, <1>3, <2>1
  <2>3. g[s] = f[Pick(s)] + g[r]
    BY <1>3, <1>5, FoldStep
  <2>4. h[s] = f[Pick(s)] + h[r]
    BY <1>3, <1>5, FoldStep
  <2> HIDE DEF r
  <2> QED BY <1>3, <2>2, <2>3, <2>4
<1> QED BY <1>4, <1>5

(* Every function has a fold over every finite set.                        *)
LEMMA FoldExists ==
    ASSUME NEW f, NEW S, IsFiniteSet(S)
    PROVE  \E g : IsFold(f, S, g)
<1> DEFINE B == {T \in SUBSET S : ~\E g : IsFold(f, T, g)}
<1> SUFFICES ASSUME B # {} PROVE FALSE
  OBVIOUS
<1>1. PICK T \in B : \A U \in SUBSET T : U # T => U \notin B
  <2>1. B \in SUBSET SUBSET S
    OBVIOUS
  <2> HIDE DEF B
  <2> QED BY <2>1, SmallestSubset
<1>2. T \in SUBSET S /\ IsFiniteSet(T) /\ ~\E g : IsFold(f, T, g)
  BY <1>1, FS_Subset
<1> DEFINE H(s) == CHOOSE g : IsFold(f, s, g)
           V(s) == H(s)[s]
           P == Pick(T)
<1>3. ASSUME NEW s \in SUBSET T, s # T
      PROVE  IsFold(f, s, H(s)) /\ IsFiniteSet(s)
  <2>1. \E g : IsFold(f, s, g)
    BY <1>1, <1>2, <1>3
  <2> QED BY <1>2, <2>1, FS_Subset
<1>4. ASSUME NEW s \in SUBSET T, s # T
      PROVE  V(s) = IF s = {} THEN 0 ELSE f[Pick(s)] + V(s \ {Pick(s)})
  <2> DEFINE r == s \ {Pick(s)}
  <2>1. IsFold(f, s, H(s)) /\ IsFiniteSet(s)
    BY <1>3, <1>4
  <2>2. V(s) = IF s = {} THEN 0 ELSE f[Pick(s)] + H(s)[r]
    <3>1. s \in SUBSET s
      OBVIOUS
    <3> HIDE DEF H
    <3> QED BY <2>1, <3>1, FoldStep
  <2>3. H(s)[r] = V(r)
    <3>1. r \in SUBSET T /\ r # T /\ r \subseteq s /\ r \in SUBSET r
      BY <1>4
    <3>2. IsFold(f, r, H(r))
      BY <1>3, <3>1
    <3> HIDE DEF H, r
    <3> QED BY <2>1, <3>1, <3>2, FoldsAgree
  <2> QED BY <2>2, <2>3
<1> DEFINE W(s) == IF s = {} THEN 0
                   ELSE IF s = T THEN f[P] + V(T \ {P}) ELSE V(s)
           g == [s \in SUBSET T |-> W(s)]
<1>5. ASSUME NEW s \in SUBSET T
      PROVE  W(s) = IF s = {} THEN 0 ELSE f[Pick(s)] + g[s \ {Pick(s)}]
  <2> SUFFICES ASSUME s # {} PROVE W(s) = f[Pick(s)] + g[s \ {Pick(s)}]
    OBVIOUS
  <2> DEFINE r == s \ {Pick(s)}
  <2>1. r \in SUBSET T /\ r # T /\ r # s
    BY PickIn
  <2>2. g[r] = V(r)
    <3>1. r = {} => V(r) = 0
      BY <1>4, <2>1
    <3>2. g[r] = W(r)
      BY <2>1
    <3>3. W(r) = IF r = {} THEN 0 ELSE V(r)
      BY <2>1
    <3> HIDE DEF V, W, g, r
    <3> QED BY <3>1, <3>2, <3>3
  <2>3. CASE s = T
    <3>1. W(s) = f[P] + V(T \ {P})
      BY <2>3
    <3> HIDE DEF V, W, g
    <3> QED BY <2>2, <2>3, <3>1
  <2>4. CASE s # T
    <3>1. W(s) = V(s)
      BY <2>4
    <3>2. V(s) = f[Pick(s)] + V(r)
      BY <1>4, <2>4
    <3> HIDE DEF V, W, g
    <3> QED BY <2>2, <3>1, <3>2
  <2> QED BY <2>3, <2>4
<1>6. IsFold(f, T, g)
  <2>1. g = [s \in SUBSET T |->
               IF s = {} THEN 0 ELSE f[Pick(s)] + g[s \ {Pick(s)}]]
    <3>1. g = [s \in SUBSET T |-> W(s)]
      OBVIOUS
    <3> HIDE DEF W, g
    <3> QED BY <1>5, <3>1
  <2> HIDE DEF g
  <2> QED BY <2>1 DEF IsFold
<1> QED BY <1>2, <1>6
(* What the sum is: nothing of nothing, and else one chosen element and    *)
(* the rest.                                                               *)
LEMMA SumStep ==
    ASSUME NEW f, NEW S, IsFiniteSet(S)
    PROVE  SumFunctionOnSet(f, S) =
              IF S = {} THEN 0
              ELSE f[Pick(S)] + SumFunctionOnSet(f, S \ {Pick(S)})
<1> DEFINE H(s) == CHOOSE g : IsFold(f, s, g)
           r == S \ {Pick(S)}
<1>1. IsFold(f, S, H(S))
  BY FoldExists
<1>2. IsFold(f, r, H(r))
  BY FoldExists, FS_Subset
<1>3. SumFunctionOnSet(f, S) = H(S)[S] /\ SumFunctionOnSet(f, r) = H(r)[r]
  BY SumIsFold
<1>4. S \in SUBSET S /\ r \subseteq S /\ r \in SUBSET r
  OBVIOUS
<1> HIDE DEF H
<1>5. H(S)[S] = IF S = {} THEN 0 ELSE f[Pick(S)] + H(S)[r]
  BY <1>1, <1>4, FoldStep
<1> HIDE DEF r
<1>6. H(S)[r] = H(r)[r]
  BY <1>1, <1>2, <1>4, FoldsAgree
<1> QED
  BY <1>3, <1>5, <1>6 DEF r

LEMMA SumOfNothing == ASSUME NEW f PROVE SumFunctionOnSet(f, {}) = 0
  BY SumStep, FS_EmptySet

LEMMA SumIsInt ==
    ASSUME NEW f, NEW S, IsFiniteSet(S), \A x \in S : f[x] \in Int
    PROVE  SumFunctionOnSet(f, S) \in Int
<1> DEFINE B == {T \in SUBSET S : SumFunctionOnSet(f, T) \notin Int}
<1> SUFFICES ASSUME B # {} PROVE FALSE
  OBVIOUS
<1>1. PICK T \in B : \A U \in SUBSET T : U # T => U \notin B
  <2>1. B \in SUBSET SUBSET S
    OBVIOUS
  <2> HIDE DEF B
  <2> QED BY <2>1, SmallestSubset
<1>2. T \in SUBSET S /\ IsFiniteSet(T) /\ SumFunctionOnSet(f, T) \notin Int
  BY <1>1, FS_Subset
<1>3. T # {}
  BY <1>2, SumOfNothing
<1> DEFINE r == T \ {Pick(T)}
<1>4. Pick(T) \in T /\ r \in SUBSET T /\ r # T /\ r \in SUBSET S
  BY <1>2, <1>3, PickIn
<1>5. SumFunctionOnSet(f, r) \in Int
  BY <1>1, <1>4
<1>6. SumFunctionOnSet(f, T) = f[Pick(T)] + SumFunctionOnSet(f, r)
  BY <1>2, <1>3, SumStep
<1> HIDE DEF r
<1> QED
  BY <1>2, <1>4, <1>5, <1>6

(* Any element can be taken out first.                                     *)
LEMMA SumRemove ==
    ASSUME NEW f, NEW S, IsFiniteSet(S), \A x \in S : f[x] \in Int,
           NEW e \in S
    PROVE  SumFunctionOnSet(f, S) = f[e] + SumFunctionOnSet(f, S \ {e})
<1> DEFINE Sum(T) == SumFunctionOnSet(f, T)
           B == {T \in SUBSET S : \E x \in T : Sum(T) # f[x] + Sum(T \ {x})}
<1> SUFFICES ASSUME B # {} PROVE FALSE
  OBVIOUS
<1>1. PICK T \in B : \A U \in SUBSET T : U # T => U \notin B
  <2>1. B \in SUBSET SUBSET S
    OBVIOUS
  <2> HIDE DEF B
  <2> QED BY <2>1, SmallestSubset
<1>2. PICK x \in T : Sum(T) # f[x] + Sum(T \ {x})
  BY <1>1
<1>3. T \in SUBSET S /\ IsFiniteSet(T)
  BY <1>1, FS_Subset
<1>4. ASSUME NEW U \in SUBSET T, U # T, NEW y \in U
      PROVE  Sum(U) = f[y] + Sum(U \ {y})
  BY <1>1, <1>3, <1>4
<1> DEFINE y == Pick(T)
<1>5. y \in T /\ Sum(T) = f[y] + Sum(T \ {y})
  BY <1>2, <1>3, PickIn, SumStep
<1>6. x # y
  BY <1>2, <1>5
<1> HIDE DEF y, B
<1>7. Sum(T \ {y}) = f[x] + Sum((T \ {y}) \ {x})
  BY <1>2, <1>4, <1>5, <1>6
<1>8. Sum(T \ {x}) = f[y] + Sum((T \ {x}) \ {y})
  BY <1>2, <1>4, <1>5, <1>6
<1>9. (T \ {y}) \ {x} = (T \ {x}) \ {y}
  OBVIOUS
<1>10. Sum((T \ {x}) \ {y}) \in Int
  <2>1. (T \ {x}) \ {y} \in SUBSET S /\ IsFiniteSet((T \ {x}) \ {y})
    BY <1>3, FS_Subset
  <2> QED BY <2>1, SumIsInt
<1>11. f[x] \in Int /\ f[y] \in Int
  BY <1>2, <1>3, <1>5
<1> DEFINE d == Sum((T \ {x}) \ {y})
           t == Sum(T)
           tx == Sum(T \ {x})
           ty == Sum(T \ {y})
           fx == f[x]
           fy == f[y]
<1>12. ty = fx + d /\ tx = fy + d /\ t = fy + ty /\ t # fx + tx
  BY <1>2, <1>5, <1>7, <1>8, <1>9
<1>13. d \in Int /\ fx \in Int /\ fy \in Int
  BY <1>10, <1>11
<1> HIDE DEF Sum, d, t, tx, ty, fx, fy
<1> QED
  BY <1>12, <1>13

(* The sum of two functions, point by point.                               *)
LEMMA SumPlus ==
    ASSUME NEW f, NEW g, NEW h, NEW S, IsFiniteSet(S),
           \A x \in S : f[x] \in Int /\ g[x] \in Int /\ h[x] = f[x] + g[x]
    PROVE  SumFunctionOnSet(h, S)
              = SumFunctionOnSet(f, S) + SumFunctionOnSet(g, S)
<1> DEFINE F(T) == SumFunctionOnSet(f, T)
           G(T) == SumFunctionOnSet(g, T)
           H(T) == SumFunctionOnSet(h, T)
           B == {T \in SUBSET S : H(T) # F(T) + G(T)}
<1> SUFFICES ASSUME B # {} PROVE FALSE
  OBVIOUS
<1>1. PICK T \in B : \A U \in SUBSET T : U # T => U \notin B
  <2>1. B \in SUBSET SUBSET S
    OBVIOUS
  <2> HIDE DEF B
  <2> QED BY <2>1, SmallestSubset
<1>2. T \in SUBSET S /\ IsFiniteSet(T) /\ H(T) # F(T) + G(T)
  BY <1>1, FS_Subset
<1>3. T # {}
  <2>1. F({}) = 0 /\ G({}) = 0 /\ H({}) = 0
    BY SumOfNothing
  <2>2. H({}) = F({}) + G({})
    <3> HIDE DEF F, G, H
    <3> QED BY <2>1
  <2> HIDE DEF F, G, H
  <2> QED BY <1>2, <2>2
<1> DEFINE y == Pick(T)
           r == T \ {y}
<1>4. y \in T /\ r \in SUBSET T /\ r # T /\ r \in SUBSET S /\ IsFiniteSet(r)
  BY <1>2, <1>3, PickIn, FS_Subset
<1>5. H(r) = F(r) + G(r)
  BY <1>1, <1>4
<1>6. F(T) = f[y] + F(r) /\ G(T) = g[y] + G(r) /\ H(T) = h[y] + H(r)
  BY <1>2, <1>3, SumStep
<1>7. F(r) \in Int /\ G(r) \in Int
  <2> HIDE DEF r
  <2> QED BY <1>4, SumIsInt
<1>8. f[y] \in Int /\ g[y] \in Int /\ h[y] = f[y] + g[y]
  BY <1>2, <1>4
<1> HIDE DEF F, G, H, y, r
<1> QED
  BY <1>2, <1>5, <1>6, <1>7, <1>8

LEMMA SumOfZeros ==
    ASSUME NEW f, NEW S, IsFiniteSet(S), \A x \in S : f[x] = 0
    PROVE  SumFunctionOnSet(f, S) = 0
<1> DEFINE F == SumFunctionOnSet(f, S)
<1>1. F = F + F
  <2>1. \A x \in S : f[x] \in Int /\ f[x] \in Int /\ f[x] = f[x] + f[x]
    OBVIOUS
  <2> QED BY <2>1, SumPlus
<1>2. F \in Int
  BY SumIsInt
<1> HIDE DEF F
<1>3. F = 0
  BY <1>1, <1>2
<1> QED BY <1>3 DEF F

LEMMA SumSame ==
    ASSUME NEW f, NEW g, NEW S, IsFiniteSet(S),
           \A x \in S : f[x] \in Int /\ g[x] = f[x]
    PROVE  SumFunctionOnSet(f, S) = SumFunctionOnSet(g, S)
<1> DEFINE z == [x \in S |-> 0]
           F == SumFunctionOnSet(f, S)
           G == SumFunctionOnSet(g, S)
           Z == SumFunctionOnSet(z, S)
<1>1. \A x \in S : z[x] = 0
  OBVIOUS
<1>2. Z = 0
  <2> HIDE DEF z
  <2> QED BY <1>1, SumOfZeros
<1>3. \A x \in S : f[x] \in Int /\ z[x] \in Int /\ g[x] = f[x] + z[x]
  <2> HIDE DEF z
  <2> QED BY <1>1
<1>4. G = F + Z
  <2> HIDE DEF z
  <2> QED BY <1>3, SumPlus
<1>5. F \in Int
  BY SumIsInt
<1> HIDE DEF F, G, Z
<1>6. F = G
  BY <1>2, <1>4, <1>5
<1> QED BY <1>6 DEF F, G

(* A sum over a set is the sum over one part of it and over the rest.      *)
LEMMA SumSplit ==
    ASSUME NEW f, NEW S, IsFiniteSet(S), \A x \in S : f[x] \in Int,
           NEW A \in SUBSET S
    PROVE  SumFunctionOnSet(f, S)
              = SumFunctionOnSet(f, A) + SumFunctionOnSet(f, S \ A)
<1> DEFINE Sum(T) == SumFunctionOnSet(f, T)
           B == {T \in SUBSET S : Sum(S) # Sum(T) + Sum(S \ T)}
<1> SUFFICES ASSUME B # {} PROVE FALSE
  OBVIOUS
<1>1. PICK T \in B : \A U \in SUBSET T : U # T => U \notin B
  <2>1. B \in SUBSET SUBSET S
    OBVIOUS
  <2> HIDE DEF B
  <2> QED BY <2>1, SmallestSubset
<1>2. T \in SUBSET S /\ IsFiniteSet(T) /\ Sum(S) # Sum(T) + Sum(S \ T)
  BY <1>1, FS_Subset
<1>3. ASSUME NEW U \in SUBSET S PROVE Sum(U) \in Int /\ IsFiniteSet(U)
  <2>1. IsFiniteSet(U) /\ \A x \in U : f[x] \in Int
    BY FS_Subset
  <2> QED BY <2>1, SumIsInt
<1>4. CASE T = {}
  <2>1. Sum(T) = 0 /\ S \ T = S
    BY <1>4, SumOfNothing
  <2>2. Sum(S) \in Int
    BY <1>3
  <2> DEFINE s == Sum(S)
  <2>3. s # 0 + s
    BY <1>2, <2>1
  <2> HIDE DEF s
  <2> QED BY <2>2, <2>3 DEF s
<1>5. CASE T # {}
  <2> DEFINE y == Pick(T)
             r == T \ {y}
             s == Sum(S)
             t == Sum(T)
             u == Sum(r)
             v == Sum(S \ r)
             w == Sum(S \ T)
             fy == f[y]
  <2>1. y \in T /\ r \in SUBSET T /\ r # T /\ r \in SUBSET S
    BY <1>2, <1>5, PickIn
  <2>2. s = u + v
    BY <1>1, <2>1
  <2>3. t = fy + u
    <3>1. \A x \in T : f[x] \in Int
      BY <1>2
    <3> QED BY <1>2, <2>1, <3>1, SumRemove
  <2>4. v = fy + w
    <3>1. y \in S \ r /\ (S \ r) \ {y} = S \ T /\ S \ r \in SUBSET S
      BY <1>2, <2>1
    <3>2. IsFiniteSet(S \ r) /\ \A x \in S \ r : f[x] \in Int
      BY FS_Subset, <3>1
    <3> HIDE DEF y, r
    <3> QED BY <3>1, <3>2, SumRemove
  <2>5. s # t + w
    BY <1>2
  <2>6. u \in Int /\ w \in Int /\ fy \in Int
    <3>1. S \ T \in SUBSET S /\ y \in S
      BY <1>2, <2>1
    <3> HIDE DEF r, y
    <3> QED BY <1>3, <2>1, <3>1
  <2> HIDE DEF Sum, s, t, u, v, w, fy, y, r
  <2> QED BY <2>2, <2>3, <2>4, <2>5, <2>6
<1> QED BY <1>4, <1>5

(* Elements that count for nothing make no difference.                     *)
LEMMA SumWiden ==
    ASSUME NEW f, NEW S, IsFiniteSet(S), \A x \in S : f[x] \in Int,
           NEW A \in SUBSET S, \A x \in S \ A : f[x] = 0
    PROVE  SumFunctionOnSet(f, S) = SumFunctionOnSet(f, A)
<1> DEFINE s == SumFunctionOnSet(f, S)
           a == SumFunctionOnSet(f, A)
           z == SumFunctionOnSet(f, S \ A)
<1>1. IsFiniteSet(A) /\ IsFiniteSet(S \ A)
  BY FS_Subset
<1>2. s = a + z
  BY SumSplit
<1>3. z = 0
  BY <1>1, SumOfZeros
<1>4. a \in Int
  <2>1. \A x \in A : f[x] \in Int
    OBVIOUS
  <2> QED BY <1>1, <2>1, SumIsInt
<1> HIDE DEF s, a, z
<1>5. s = a
  BY <1>2, <1>3, <1>4
<1> QED BY <1>5 DEF s, a

(* What one element changes of a sum.                                      *)
LEMMA SumChange ==
    ASSUME NEW f, NEW g, NEW S, IsFiniteSet(S), NEW e \in S,
           \A x \in S : f[x] \in Int /\ g[x] \in Int,
           \A x \in S \ {e} : g[x] = f[x]
    PROVE  SumFunctionOnSet(g, S) = SumFunctionOnSet(f, S) + (g[e] - f[e])
<1> DEFINE F == SumFunctionOnSet(f, S)
           G == SumFunctionOnSet(g, S)
           R == SumFunctionOnSet(f, S \ {e})
           Q == SumFunctionOnSet(g, S \ {e})
<1>1. IsFiniteSet(S \ {e})
  BY FS_Subset
<1>2. F = f[e] + R
  BY SumRemove
<1>3. G = g[e] + Q
  BY SumRemove
<1>4. R = Q
  BY <1>1, SumSame
<1>5. R \in Int
  BY <1>1, SumIsInt
<1> HIDE DEF F, G, R, Q
<1>6. G = F + (g[e] - f[e])
  BY <1>2, <1>3, <1>4, <1>5
<1> QED BY <1>6 DEF F, G

(* A sum by classes is the sum.                                            *)
ClassOf(S, class, k) == {x \in S : class[x] = k}

LEMMA SumByClass ==
    ASSUME NEW f, NEW S, IsFiniteSet(S), \A x \in S : f[x] \in Int,
           NEW K, IsFiniteSet(K), NEW class, \A x \in S : class[x] \in K,
           NEW t,
           \A k \in K : t[k] = SumFunctionOnSet(f, ClassOf(S, class, k))
    PROVE  SumFunctionOnSet(t, K) = SumFunctionOnSet(f, S)
<1> DEFINE Of2(T) == {x \in S : class[x] \in T}
           Tot(T) == SumFunctionOnSet(t, T)
           Sum(T) == SumFunctionOnSet(f, T)
           B == {T \in SUBSET K : Tot(T) # Sum(Of2(T))}
<1> USE DEF ClassOf
<1>1. \A k \in K : t[k] \in Int
  <2> SUFFICES ASSUME NEW k \in K PROVE t[k] \in Int
    OBVIOUS
  <2> DEFINE C == {x \in S : class[x] = k}
  <2>1. IsFiniteSet(C) /\ \A x \in C : f[x] \in Int
    BY FS_Subset
  <2>2. Sum(C) \in Int
    <3> HIDE DEF C
    <3> QED BY <2>1, SumIsInt
  <2> QED BY <2>2
<1>2. B = {}
  <2> SUFFICES ASSUME B # {} PROVE FALSE
    OBVIOUS
  <2>1. PICK T \in B : \A U \in SUBSET T : U # T => U \notin B
    <3>1. B \in SUBSET SUBSET K
      OBVIOUS
    <3> HIDE DEF B
    <3> QED BY <3>1, SmallestSubset
  <2>2. T \in SUBSET K /\ IsFiniteSet(T) /\ Tot(T) # Sum(Of2(T))
    BY <2>1, FS_Subset
  <2>3. T # {}
    <3>1. Tot({}) = 0 /\ Sum({}) = 0 /\ Of2({}) = {}
      BY SumOfNothing
    <3>2. Tot({}) = Sum(Of2({}))
      <4> HIDE DEF Of2, Tot, Sum
      <4> QED BY <3>1
    <3> HIDE DEF Of2, Tot, Sum
    <3> QED BY <2>2, <3>2
  <2> DEFINE y == Pick(T)
             r == T \ {y}
             a == Tot(T)
             b == Tot(r)
             c == Sum(Of2(T))
             d == Sum(Of2(r))
             ty == t[y]
  <2>4. y \in T /\ r \in SUBSET T /\ r # T /\ r \in SUBSET K
    BY <2>2, <2>3, PickIn
  <2>5. b = d
    BY <2>1, <2>4
  <2>6. a = ty + b
    <3>1. \A k \in T : t[k] \in Int
      BY <1>1, <2>2
    <3> QED BY <2>2, <2>4, <3>1, SumRemove
  <2>7. c = ty + d
    <3> DEFINE C == {x \in S : class[x] = y}
               D == Of2(T)
    <3>1. C \in SUBSET D /\ D \ C = Of2(r) /\ D \in SUBSET S
      BY <2>4
    <3>2. ty = Sum(C)
      BY <2>2, <2>4
    <3>3. IsFiniteSet(D) /\ \A x \in D : f[x] \in Int
      BY <3>1, FS_Subset
    <3> HIDE DEF C, D, y, r
    <3>4. Sum(D) = Sum(C) + Sum(D \ C)
      BY <3>1, <3>3, SumSplit
    <3> QED BY <3>1, <3>2, <3>4 DEF D
  <2>8. a # c
    BY <2>2
  <2> HIDE DEF a, b, c, d, ty
  <2> QED BY <2>5, <2>6, <2>7, <2>8
<1>3. K \in SUBSET K /\ Of2(K) = S
  OBVIOUS
<1> QED
  BY <1>2, <1>3

-----------------------------------------------------------------------------
(* The worth of counts, and how it changes.                                *)
Counts == [Items -> Nat]
Bases == {Buys, Sells}
Products(counts, prices) == [i \in Priced |-> counts[i] * prices[i]]

LEMMA ProductIsInt ==
    ASSUME NEW c \in Counts, NEW prices \in Bases, NEW i \in Priced
    PROVE  /\ c[i] \in Nat
           /\ prices[i] \in Nat
           /\ c[i] * prices[i] \in Int
<1>1. c[i] \in Nat /\ prices[i] \in Nat
  BY ValueAssumption DEF Counts, Bases
<1> DEFINE a == c[i]
           b == prices[i]
<1>2. a \in Nat /\ b \in Nat
  BY <1>1
<1> HIDE DEF a, b
<1>3. a * b \in Int
  BY <1>2
<1> QED BY <1>1, <1>3 DEF a, b

LEMMA WorthIsSum ==
    ASSUME NEW c \in Counts, NEW prices \in Bases, NEW ids
    PROVE  Worth(c, prices, ids)
              = SumFunctionOnSet(Products(c, prices), ids \intersect Priced)
<1> DEFINE S == ids \intersect Priced
           f == [i \in S |-> c[i] * prices[i]]
           g == Products(c, prices)
<1>1. IsFiniteSet(S)
  BY ValueAssumption, FS_Subset
<1>2. \A i \in S : f[i] \in Int /\ g[i] = f[i]
  <2>1. \A i \in S : c[i] * prices[i] \in Int
    BY ProductIsInt
  <2> QED BY <2>1 DEF Products
<1>3. Worth(c, prices, ids) = SumFunctionOnSet(f, S)
  BY DEF Worth, SumFunction
<1> HIDE DEF f, g, S
<1>4. SumFunctionOnSet(f, S) = SumFunctionOnSet(g, S)
  BY <1>1, <1>2, SumSame
<1> QED BY <1>3, <1>4 DEF g, S

LEMMA WorthIsInt ==
    ASSUME NEW c \in Counts, NEW prices \in Bases, NEW ids
    PROVE  Worth(c, prices, ids) \in Int
<1> DEFINE S == ids \intersect Priced
           g == Products(c, prices)
<1>1. IsFiniteSet(S)
  BY ValueAssumption, FS_Subset
<1>2. \A i \in S : g[i] \in Int
  BY ProductIsInt DEF Products
<1> HIDE DEF g, S
<1>3. SumFunctionOnSet(g, S) \in Int
  BY <1>1, <1>2, SumIsInt
<1> QED BY <1>3, WorthIsSum DEF g, S

(* The ids left out are worth nothing when there is nothing of them.       *)
LEMMA WorthOfThePresent ==
    ASSUME NEW c \in Counts, NEW prices \in Bases, NEW ids \in SUBSET Items,
           \A i \in Items \ ids : c[i] = 0
    PROVE  Worth(c, prices, Items) = Worth(c, prices, ids)
<1> DEFINE S == Items \intersect Priced
           A == ids \intersect Priced
           g == Products(c, prices)
<1>1. IsFiniteSet(S) /\ A \in SUBSET S
  BY ValueAssumption, FS_Subset
<1>2. \A i \in S : g[i] \in Int
  BY ProductIsInt DEF Products
<1>3. \A i \in S \ A : g[i] = 0
  <2> SUFFICES ASSUME NEW i \in S \ A PROVE g[i] = 0
    OBVIOUS
  <2>1. c[i] = 0 /\ i \in Priced
    OBVIOUS
  <2> DEFINE b == prices[i]
  <2>2. b \in Nat
    BY <2>1, ProductIsInt
  <2>3. g[i] = 0 * b
    BY <2>1 DEF Products
  <2> HIDE DEF b, g
  <2> QED BY <2>2, <2>3
<1> HIDE DEF g, S, A
<1>4. SumFunctionOnSet(g, S) = SumFunctionOnSet(g, A)
  BY <1>1, <1>2, <1>3, SumWiden
<1> QED BY <1>4, WorthIsSum DEF g, S, A

(* What one of an item is worth.                                           *)
Price(i) == IF i \in Priced THEN Buys[i] ELSE 0

LEMMA PriceIsNat == ASSUME NEW i PROVE Price(i) \in Nat
  BY ValueAssumption DEF Price

LEMMA WorthChange ==
    ASSUME NEW c \in Counts, NEW i \in Items, NEW n \in {-1, 1},
           c[i] + n \in Nat
    PROVE  /\ [c EXCEPT ![i] = @ + n] \in Counts
           /\ Worth([c EXCEPT ![i] = @ + n], Buys, Items)
                 = Worth(c, Buys, Items) + n * Price(i)
<1> DEFINE d == [c EXCEPT ![i] = @ + n]
           S == Items \intersect Priced
           f == Products(c, Buys)
           g == Products(d, Buys)
<1>1. d \in Counts
  BY DEF Counts
<1>2. IsFiniteSet(S) /\ Buys \in Bases
  BY ValueAssumption, FS_Subset DEF Bases
<1>3. \A x \in S : f[x] \in Int /\ g[x] \in Int
  <2> HIDE DEF d
  <2> QED BY <1>1, <1>2, ProductIsInt DEF Products
<1>4. \A x \in S \ {i} : g[x] = f[x]
  <2>1. \A x \in Items \ {i} : d[x] = c[x]
    BY DEF Counts
  <2> HIDE DEF d
  <2> QED BY <2>1 DEF Products
<1>5. CASE i \in Priced
  <2>1. i \in S
    BY <1>5
  <2>2. SumFunctionOnSet(g, S) = SumFunctionOnSet(f, S) + (g[i] - f[i])
    <3> HIDE DEF f, g, S
    <3> QED BY <1>2, <1>3, <1>4, <2>1, SumChange
  <2> DEFINE a == c[i]
             b == Buys[i]
  <2>3. a \in Nat /\ b \in Nat
    BY <1>2, <1>5, ProductIsInt
  <2>4. f[i] = a * b /\ g[i] = (a + n) * b
    BY <1>5 DEF Products, Counts
  <2>5. (a + n) * b - a * b = n * b
    <3> HIDE DEF a, b
    <3> QED BY <2>3
  <2>6. Price(i) = b
    BY <1>5 DEF Price
  <2>7. SumFunctionOnSet(g, S) = SumFunctionOnSet(f, S) + n * Price(i)
    <3> HIDE DEF f, g, S, a, b
    <3> QED BY <2>2, <2>4, <2>5, <2>6
  <2> HIDE DEF d, f, g, S
  <2> QED BY <1>1, <1>2, <2>7, WorthIsSum DEF d, f, g, S
<1>6. CASE i \notin Priced
  <2>1. S \ {i} = S
    BY <1>6
  <2>2. SumFunctionOnSet(f, S) = SumFunctionOnSet(g, S)
    <3> HIDE DEF f, g, S
    <3> QED BY <1>2, <1>3, <1>4, <2>1, SumSame
  <2>3. n * Price(i) = 0
    BY <1>6 DEF Price
  <2>4. Worth(d, Buys, Items) = Worth(c, Buys, Items)
    <3> HIDE DEF d
    <3> QED BY <1>1, <1>2, <2>2, WorthIsSum
  <2> DEFINE w == Worth(c, Buys, Items)
  <2>5. w \in Int
    BY <1>2, WorthIsInt
  <2>6. w = w + n * Price(i)
    <3> HIDE DEF w
    <3> QED BY <2>3, <2>5
  <2> HIDE DEF d, w
  <2> QED BY <1>1, <2>4, <2>6 DEF d, w
<1> QED BY <1>5, <1>6

(* What all places are worth.                                              *)
Holdings == [Places -> Counts]
Whole(has) == SumFunction([p \in Places |-> Worth(has[p], Buys, Items)])

LEMMA PlacesAreFinite == IsFiniteSet(Places)
<1>1. Places = ((((({} \union {"bank"}) \union {"materials"}) \union {"shared"})
                  \union {"characters"}) \union {"equipment"})
  BY DEF Places
<1> QED
  BY <1>1, FS_EmptySet, FS_AddElement

LEMMA WholeIsInt == ASSUME NEW has \in Holdings PROVE Whole(has) \in Int
<1> DEFINE f == [p \in Places |-> Worth(has[p], Buys, Items)]
<1>1. \A p \in Places : f[p] \in Int
  BY WorthIsInt DEF Holdings, Bases
<1>2. Whole(has) = SumFunctionOnSet(f, Places)
  BY DEF Whole, SumFunction
<1> HIDE DEF f
<1> QED BY <1>1, <1>2, SumIsInt, PlacesAreFinite

(* A place gets one more, or one less, of an item.                         *)
LEMMA WholeChange ==
    ASSUME NEW has \in Holdings, NEW p \in Places, NEW i \in Items,
           NEW n \in {-1, 1}, has[p][i] + n \in Nat
    PROVE  LET after == [has EXCEPT ![p] = [has[p] EXCEPT ![i] = @ + n]]
           IN  /\ after \in Holdings
               /\ Whole(after) = Whole(has) + n * Price(i)
<1> DEFINE c == has[p]
           d == [has[p] EXCEPT ![i] = @ + n]
           after == [has EXCEPT ![p] = d]
           f == [x \in Places |-> Worth(has[x], Buys, Items)]
           g == [x \in Places |-> Worth(after[x], Buys, Items)]
<1>1. c \in Counts /\ c[i] + n \in Nat
  BY DEF Holdings
<1>2. d \in Counts /\ Worth(d, Buys, Items) = Worth(c, Buys, Items) + n * Price(i)
  <2> HIDE DEF c
  <2>1. [c EXCEPT ![i] = @ + n] \in Counts
    BY <1>1, WorthChange
  <2>2. Worth([c EXCEPT ![i] = @ + n], Buys, Items)
           = Worth(c, Buys, Items) + n * Price(i)
    BY <1>1, WorthChange
  <2> QED BY <2>1, <2>2 DEF c
<1>3. after \in Holdings /\ after[p] = d
  <2> HIDE DEF d
  <2> QED BY <1>2 DEF Holdings
<1>4. \A x \in Places \ {p} : after[x] = has[x]
  <2> HIDE DEF d
  <2> QED BY DEF Holdings
<1> HIDE DEF after
<1>5. \A x \in Places : f[x] \in Int /\ g[x] \in Int
  BY <1>3, WorthIsInt DEF Holdings, Bases
<1>6. \A x \in Places \ {p} : g[x] = f[x]
  BY <1>4
<1>7. f[p] = Worth(c, Buys, Items) /\ g[p] = Worth(d, Buys, Items)
  BY <1>3
<1>8. Whole(has) = SumFunctionOnSet(f, Places)
      /\ Whole(after) = SumFunctionOnSet(g, Places)
  BY DEF Whole, SumFunction
<1> DEFINE w == Worth(c, Buys, Items)
           v == Worth(d, Buys, Items)
<1> HIDE DEF f, g, c, d
<1>9. Whole(after) = Whole(has) + (g[p] - f[p])
  BY <1>5, <1>6, <1>8, SumChange, PlacesAreFinite
<1>10. w \in Int /\ n * Price(i) \in Int
  <2>1. w \in Int
    BY <1>1, WorthIsInt DEF Bases
  <2> QED BY <2>1, PriceIsNat
<1> HIDE DEF w, v
<1>11. v = w + n * Price(i)
  BY <1>2 DEF v, w
<1>12. v - w = n * Price(i)
  <2> DEFINE m == n * Price(i)
  <2> HIDE DEF m
  <2>1. m \in Int /\ v = w + m
    BY <1>10, <1>11 DEF m
  <2>2. v - w = m
    BY <1>10, <2>1
  <2> QED BY <2>2 DEF m
<1>13. Whole(after) = Whole(has) + n * Price(i)
  BY <1>7, <1>9, <1>12 DEF v, w
<1> QED BY <1>3, <1>13 DEF after, d

-----------------------------------------------------------------------------
(* The estimate: what the poll under way would total if the rest of its    *)
(* calls were answered now.                                                *)
Turn(p) == CASE p = "bank"       -> 1
             [] p = "materials"  -> 2
             [] p = "shared"     -> 3
             [] p = "characters" -> 4
             [] p = "equipment"  -> 4

Mix == [p \in Places |-> IF Turn(p) < call THEN answer[p] ELSE held[p]]
MixCoin == IF call > 5 THEN purse ELSE coin + Gems
Estimate == Whole(Mix) + MixCoin

ValueTypeOK ==
    /\ held \in Holdings
    /\ answer \in Holdings
    /\ coin \in Nat
    /\ purse \in Nat
    /\ call \in 0..8
    /\ slack \in Nat
    /\ call = 0 => slack = 0

(* The estimate is as far off as the worth that has moved allows.          *)
EstimateOK ==
    /\ Estimate - TrueWorth <= slack
    /\ TrueWorth - Estimate <= slack

ValueInv == ValueTypeOK /\ EstimateOK /\ DistortionIsBounded

LEMMA TrueWorthIs == TrueWorth = Whole(held) + coin + Gems
  BY DEF TrueWorth, Whole

LEMMA TurnIs == \A p \in Places : Turn(p) \in 1..4
  BY DEF Turn, Places

LEMMA CallIs ==
    /\ Len(Calls) = 7
    /\ \A n \in 1..7 : /\ \A p \in Places : p \in Calls[n] <=> Turn(p) = n
                       /\ "wallet" \in Calls[n] <=> n = 5
<1>1. Len(Calls) = 7
  BY DEF Calls
<1>2. \A p \in Places : p \in Calls[1] <=> Turn(p) = 1
  BY DEF Calls, Turn, Places
<1>3. \A p \in Places : p \in Calls[2] <=> Turn(p) = 2
  BY DEF Calls, Turn, Places
<1>4. \A p \in Places : p \in Calls[3] <=> Turn(p) = 3
  BY DEF Calls, Turn, Places
<1>5. \A p \in Places : p \in Calls[4] <=> Turn(p) = 4
  BY DEF Calls, Turn, Places
<1>6. \A p \in Places : p \in Calls[5] <=> Turn(p) = 5
  BY DEF Calls, Turn, Places
<1>7. \A p \in Places : p \in Calls[6] <=> Turn(p) = 6
  BY DEF Calls, Turn, Places
<1>8. \A p \in Places : p \in Calls[7] <=> Turn(p) = 7
  BY DEF Calls, Turn, Places
<1>9. /\ "wallet" \notin Calls[1] /\ "wallet" \notin Calls[2]
      /\ "wallet" \notin Calls[3] /\ "wallet" \notin Calls[4]
      /\ "wallet" \in Calls[5] /\ "wallet" \notin Calls[6]
      /\ "wallet" \notin Calls[7]
  BY DEF Calls
<1>10. \A n \in 1..7 : n = 1 \/ n = 2 \/ n = 3 \/ n = 4 \/ n = 5 \/ n = 6 \/ n = 7
  OBVIOUS
<1>11. \A n \in 1..7 : \A p \in Places : p \in Calls[n] <=> Turn(p) = n
  BY <1>2, <1>3, <1>4, <1>5, <1>6, <1>7, <1>8, <1>10
<1>12. \A n \in 1..7 : "wallet" \in Calls[n] <=> n = 5
  BY <1>9, <1>10
<1> QED BY <1>1, <1>11, <1>12

LEMMA MixIsHoldings == ASSUME ValueTypeOK PROVE Mix \in Holdings
  BY DEF ValueTypeOK, Mix, Holdings

LEMMA WorthsAreInts ==
    ASSUME ValueTypeOK
    PROVE  /\ Estimate \in Int /\ TrueWorth \in Int
           /\ Whole(Mix) \in Int /\ Whole(held) \in Int /\ MixCoin \in Int
<1>1. Whole(Mix) \in Int /\ Whole(held) \in Int
  BY MixIsHoldings, WholeIsInt DEF ValueTypeOK
<1>2. MixCoin \in Int /\ coin \in Int /\ Gems \in Int
  BY ValueAssumption DEF ValueTypeOK, MixCoin
<1> QED BY <1>1, <1>2, TrueWorthIs DEF Estimate

(* One item more or one less, where it matters.                            *)
ShiftIf(b, has, p, i, n) ==
    IF b THEN [has EXCEPT ![p] = [has[p] EXCEPT ![i] = @ + n]] ELSE has

LEMMA ShiftIfChange ==
    ASSUME NEW has \in Holdings, NEW p \in Places, NEW i \in Items,
           NEW n \in {-1, 1}, NEW b \in BOOLEAN, b => has[p][i] + n \in Nat
    PROVE  /\ ShiftIf(b, has, p, i, n) \in Holdings
           /\ Whole(ShiftIf(b, has, p, i, n))
                 = Whole(has) + (IF b THEN n * Price(i) ELSE 0)
<1>1. CASE b
  BY <1>1, WholeChange DEF ShiftIf
<1>2. CASE ~b
  <2> DEFINE w == Whole(has)
  <2>1. w \in Int
    BY WholeIsInt
  <2>2. w = w + 0
    <3> HIDE DEF w
    <3> QED BY <2>1
  <2> QED BY <1>2, <2>2 DEF ShiftIf
<1> QED BY <1>1, <1>2

LEMMA MoveKeepsValue ==
    ASSUME ValueInv, NEW i \in Items, NEW p \in Places, NEW q \in Places,
           MoveItem(i, p, q)
    PROVE  ValueTypeOK' /\ EstimateOK' /\ TrueWorth' = TrueWorth
<1> DEFINE bp == ~(Turn(p) < call)
           bq == ~(Turn(q) < call)
           h1 == ShiftIf(TRUE, held, p, i, -1)
           h2 == ShiftIf(TRUE, h1, q, i, 1)
           m1 == ShiftIf(bp, Mix, p, i, -1)
           m2 == ShiftIf(bq, m1, q, i, 1)
<1>1. /\ ValueTypeOK /\ Mix \in Holdings /\ held \in Holdings
      /\ p # q /\ held[p][i] - 1 \in Nat /\ held[q][i] + 1 \in Nat
  <2>1. held[p][i] \in Nat /\ held[q][i] \in Nat /\ held[p][i] > 0 /\ p # q
    BY DEF ValueInv, ValueTypeOK, Holdings, Counts, MoveItem
  <2> QED BY <2>1, MixIsHoldings DEF ValueInv, ValueTypeOK
<1>2. h1 \in Holdings /\ Whole(h1) = Whole(held) + (-1) * Price(i)
  BY <1>1, ShiftIfChange
<1>3. h1[q] = held[q]
  BY <1>1 DEF ShiftIf, Holdings
<1>4. h2 \in Holdings /\ Whole(h2) = Whole(h1) + 1 * Price(i)
  <2> HIDE DEF h1
  <2> QED BY <1>1, <1>2, <1>3, ShiftIfChange
<1>5. held' = h2
  <2>1. held' = [held EXCEPT ![p] = [held[p] EXCEPT ![i] = @ + (-1)],
                             ![q] = [held[q] EXCEPT ![i] = @ + 1]]
    BY DEF MoveItem, Shift
  <2>2. h2 = [h1 EXCEPT ![q] = [held[q] EXCEPT ![i] = @ + 1]]
    BY <1>3 DEF ShiftIf
  <2> QED BY <1>1, <2>1, <2>2 DEF ShiftIf, Holdings
<1>6. /\ bp => Mix[p] = held[p]
      /\ bq => Mix[q] = held[q]
  BY DEF Mix
<1>7. m1 \in Holdings
      /\ Whole(m1) = Whole(Mix) + (IF bp THEN (-1) * Price(i) ELSE 0)
  BY <1>1, <1>6, ShiftIfChange
<1>8. m1[q] = Mix[q]
  BY <1>1 DEF ShiftIf, Holdings
<1>9. m2 \in Holdings
      /\ Whole(m2) = Whole(m1) + (IF bq THEN 1 * Price(i) ELSE 0)
  <2>1. bq => m1[q][i] + 1 \in Nat
    BY <1>1, <1>6, <1>8
  <2>2. m1 \in Holdings /\ bq \in BOOLEAN
    BY <1>7
  <2> HIDE DEF m1, bq
  <2> QED BY <2>1, <2>2, ShiftIfChange
<1>10. Mix' = m2
  <2>1. call' = call /\ answer' = answer
    BY DEF MoveItem, pollVars
  <2>2. Mix' = [x \in Places |-> IF Turn(x) < call THEN answer[x] ELSE held'[x]]
    BY <2>1 DEF Mix
  <2>3. \A x \in Places : held'[x] =
           IF x = p THEN [held[p] EXCEPT ![i] = @ + (-1)]
           ELSE IF x = q THEN [held[q] EXCEPT ![i] = @ + 1] ELSE held[x]
    BY <1>1 DEF MoveItem, Shift, Holdings
  <2>4. \A x \in Places : m1[x] =
           IF x = p /\ bp THEN [Mix[p] EXCEPT ![i] = @ + (-1)] ELSE Mix[x]
    BY <1>1 DEF ShiftIf, Holdings
  <2>5. \A x \in Places : m2[x] =
           IF x = q /\ bq THEN [m1[q] EXCEPT ![i] = @ + 1] ELSE m1[x]
    <3> HIDE DEF m1
    <3> QED BY <1>7 DEF ShiftIf, Holdings
  <2>6. \A x \in Places : m2[x] = Mix'[x]
    <3> SUFFICES ASSUME NEW x \in Places PROVE m2[x] = Mix'[x]
      OBVIOUS
    <3>1. Mix'[x] = IF Turn(x) < call THEN answer[x] ELSE held'[x]
      BY <2>2
    <3>2. Mix[x] = IF Turn(x) < call THEN answer[x] ELSE held[x]
      BY DEF Mix
    <3> HIDE DEF m1, m2
    <3>3. CASE x = p
      BY <1>1, <1>6, <2>3, <2>4, <2>5, <3>1, <3>2, <3>3
    <3>4. CASE x = q
      BY <1>1, <1>6, <1>8, <2>3, <2>4, <2>5, <3>1, <3>2, <3>4
    <3>5. CASE x # p /\ x # q
      BY <2>3, <2>4, <2>5, <3>1, <3>2, <3>5
    <3> QED BY <3>3, <3>4, <3>5
  <2> HIDE DEF m2
  <2> QED BY <1>9, <2>2, <2>6 DEF Holdings
<1>11. /\ coin' = coin /\ purse' = purse /\ call' = call /\ answer' = answer
       /\ slack' = IF call > 0 THEN slack + Price(i) ELSE slack
  BY DEF MoveItem, pollVars, Loosen, Price, ValueInv, ValueTypeOK
<1>12. ValueTypeOK'
  <2> HIDE DEF h2
  <2> QED BY <1>1, <1>4, <1>5, <1>11, PriceIsNat DEF ValueTypeOK
<1> DEFINE k == Price(i)
           wh == Whole(held)
           wm == Whole(Mix)
           mc == MixCoin
<1>13. k \in Nat /\ wh \in Int /\ wm \in Int /\ mc \in Int
  BY <1>1, PriceIsNat, WorthsAreInts
<1> HIDE DEF h1, h2, m1, m2
<1>14. Whole(h1) = wh - k /\ Whole(h2) = wh
  <2>1. Whole(h1) = wh + (-1) * k /\ Whole(h2) = Whole(h1) + 1 * k
    BY <1>2, <1>4
  <2> HIDE DEF k, wh
  <2> QED BY <1>13, <2>1
<1>15. TrueWorth' = TrueWorth
  BY <1>5, <1>11, <1>14, TrueWorthIs DEF TrueWorth, Whole
<1>16. Whole(m2) - wm \in {-k, 0, k} /\ Whole(m2) \in Int
       /\ (bp /\ bq => Whole(m2) = wm)
  <2>1. /\ Whole(m1) = wm + (IF bp THEN (-1) * k ELSE 0)
        /\ Whole(m2) = Whole(m1) + (IF bq THEN 1 * k ELSE 0)
    BY <1>7, <1>9
  <2> HIDE DEF k, wm, bp, bq
  <2> QED BY <1>13, <2>1
<1>17. Estimate' = Whole(m2) + mc /\ Estimate = wm + mc
  BY <1>10, <1>11 DEF Estimate, MixCoin, Whole
<1>18. call = 0 => bp /\ bq
  BY TurnIs
<1>19. EstimateOK'
  <2> DEFINE e == Estimate
             t == TrueWorth
             e2 == Whole(m2) + mc
  <2>1. /\ e - t <= slack /\ t - e <= slack /\ t \in Int /\ slack \in Nat
        /\ call \in Nat /\ e = wm + mc
    BY <1>17, WorthsAreInts DEF ValueInv, EstimateOK, ValueTypeOK
  <2>2. slack' = IF call > 0 THEN slack + k ELSE slack
    BY <1>11
  <2> HIDE DEF k, wm, mc, e, t, bp, bq
  <2>3. e2 - t <= slack' /\ t - e2 <= slack'
    BY <1>13, <1>16, <1>18, <2>1, <2>2
  <2> QED BY <1>15, <1>17, <2>3 DEF EstimateOK, t
<1> QED BY <1>12, <1>15, <1>19

LEMMA SaleKeepsValue ==
    ASSUME ValueInv, NEW i \in Items, NEW p \in Places, SellItem(i, p)
    PROVE  ValueTypeOK' /\ EstimateOK' /\ TrueWorth' = TrueWorth
<1> DEFINE bp == ~(Turn(p) < call)
           bc == ~(call > 5)
           h1 == ShiftIf(TRUE, held, p, i, -1)
           m1 == ShiftIf(bp, Mix, p, i, -1)
<1>1. /\ ValueTypeOK /\ Mix \in Holdings /\ held \in Holdings
      /\ held[p][i] - 1 \in Nat
  <2>1. held[p][i] \in Nat /\ held[p][i] > 0
    BY DEF ValueInv, ValueTypeOK, Holdings, Counts, SellItem
  <2> QED BY <2>1, MixIsHoldings DEF ValueInv, ValueTypeOK
<1>2. h1 \in Holdings /\ Whole(h1) = Whole(held) + (-1) * Price(i)
  BY <1>1, ShiftIfChange
<1>3. held' = h1
  BY DEF SellItem, Shift, ShiftIf
<1>4. bp => Mix[p] = held[p]
  BY DEF Mix
<1>5. m1 \in Holdings
      /\ Whole(m1) = Whole(Mix) + (IF bp THEN (-1) * Price(i) ELSE 0)
  BY <1>1, <1>4, ShiftIfChange
<1>6. Mix' = m1
  <2>1. call' = call /\ answer' = answer
    BY DEF SellItem, pollVars
  <2>2. Mix' = [x \in Places |-> IF Turn(x) < call THEN answer[x] ELSE held'[x]]
    BY <2>1 DEF Mix
  <2>3. \A x \in Places : held'[x] =
           IF x = p THEN [held[p] EXCEPT ![i] = @ + (-1)] ELSE held[x]
    BY <1>1 DEF SellItem, Shift, Holdings
  <2>4. \A x \in Places : m1[x] =
           IF x = p /\ bp THEN [Mix[p] EXCEPT ![i] = @ + (-1)] ELSE Mix[x]
    BY <1>1 DEF ShiftIf, Holdings
  <2>5. \A x \in Places : m1[x] = Mix'[x]
    <3> SUFFICES ASSUME NEW x \in Places PROVE m1[x] = Mix'[x]
      OBVIOUS
    <3>1. Mix'[x] = IF Turn(x) < call THEN answer[x] ELSE held'[x]
      BY <2>2
    <3>2. Mix[x] = IF Turn(x) < call THEN answer[x] ELSE held[x]
      BY DEF Mix
    <3> HIDE DEF m1
    <3> QED BY <1>4, <2>3, <2>4, <3>1, <3>2
  <2> HIDE DEF m1
  <2> QED BY <1>5, <2>2, <2>5 DEF Holdings
<1>7. /\ coin' = coin + Price(i) /\ purse' = purse /\ call' = call
      /\ answer' = answer
      /\ slack' = IF call > 0 THEN slack + Price(i) ELSE slack
  BY DEF SellItem, pollVars, Loosen, Price, ValueInv, ValueTypeOK
<1>8. ValueTypeOK'
  <2> HIDE DEF h1
  <2> QED BY <1>1, <1>2, <1>3, <1>7, PriceIsNat DEF ValueTypeOK
<1> DEFINE k == Price(i)
           wh == Whole(held)
           wm == Whole(Mix)
           mc == MixCoin
<1>9. k \in Nat /\ wh \in Int /\ wm \in Int /\ mc \in Int /\ coin \in Nat
      /\ Gems \in Nat
  BY <1>1, PriceIsNat, WorthsAreInts, ValueAssumption DEF ValueTypeOK
<1> HIDE DEF h1, m1
<1>10. TrueWorth' = TrueWorth
  <2>1. TrueWorth' = Whole(h1) + coin' + Gems /\ TrueWorth = wh + coin + Gems
    BY <1>3, TrueWorthIs DEF TrueWorth, Whole
  <2>2. Whole(h1) = wh + (-1) * k /\ coin' = coin + k
    BY <1>2, <1>7
  <2> HIDE DEF k, wh
  <2> QED BY <1>9, <2>1, <2>2
<1>11. MixCoin' = IF bc THEN mc + k ELSE mc
  <2>1. MixCoin' = IF call > 5 THEN purse ELSE (coin + k) + Gems
    BY <1>7 DEF MixCoin
  <2>2. mc = IF call > 5 THEN purse ELSE coin + Gems
    BY DEF MixCoin
  <2> HIDE DEF k, mc
  <2> QED BY <1>9, <2>1, <2>2
<1>12. Estimate' = Whole(m1) + MixCoin' /\ Estimate = wm + mc
  BY <1>6 DEF Estimate, Whole
<1>13. call = 0 => bp /\ bc
  BY TurnIs
<1>14. EstimateOK'
  <2> DEFINE e == Estimate
             t == TrueWorth
             e2 == Estimate'
  <2>1. /\ e - t <= slack /\ t - e <= slack /\ t \in Int /\ slack \in Nat
        /\ call \in Nat /\ e = wm + mc
    BY <1>12, WorthsAreInts DEF ValueInv, EstimateOK, ValueTypeOK
  <2>2. slack' = IF call > 0 THEN slack + k ELSE slack
    BY <1>7
  <2>3. Whole(m1) = wm + (IF bp THEN (-1) * k ELSE 0)
    BY <1>5
  <2>4. e2 = Whole(m1) + (IF bc THEN mc + k ELSE mc)
    BY <1>11, <1>12
  <2> HIDE DEF k, wm, mc, e, t, e2, bp, bc
  <2>5. e2 - t <= slack' /\ t - e2 <= slack'
    BY <1>9, <1>13, <2>1, <2>2, <2>3, <2>4
  <2> QED BY <1>10, <2>5 DEF EstimateOK, t, e2
<1> QED BY <1>8, <1>10, <1>14

(* Asking changes what is known, never the estimate.                       *)
LEMMA CallKeepsValue ==
    ASSUME ValueInv, StartValuePoll \/ ValueCall
    PROVE  ValueTypeOK' /\ EstimateOK' /\ TrueWorth' = TrueWorth
<1>1. held' = held /\ coin' = coin /\ slack' = slack
  BY DEF StartValuePoll, ValueCall, worldVars
<1>2. ValueTypeOK
  BY DEF ValueInv
<1>3. TrueWorth' = TrueWorth
  BY <1>1 DEF TrueWorth
<1>4. ValueTypeOK' /\ Mix' = Mix /\ MixCoin' = MixCoin
  <2>1. CASE StartValuePoll
    <3>1. call = 0 /\ call' = 1 /\ answer' = answer /\ purse' = purse
      BY <2>1 DEF StartValuePoll
    <3>2. ValueTypeOK'
      BY <1>1, <1>2, <3>1 DEF ValueTypeOK
    <3>3. Mix' = Mix
      BY <1>1, <3>1, TurnIs DEF Mix
    <3>4. MixCoin' = MixCoin
      BY <1>1, <3>1 DEF MixCoin
    <3> QED BY <3>2, <3>3, <3>4
  <2>2. CASE ValueCall
    <3>1. /\ call \in 1..7 /\ call' = call + 1
          /\ answer' = [p \in Places |->
                          IF Turn(p) = call THEN held[p] ELSE answer[p]]
          /\ purse' = IF call = 5 THEN coin + Gems ELSE purse
      BY <2>2, CallIs DEF ValueCall
    <3>2. ValueTypeOK'
      <4>1. answer' \in Holdings
        BY <1>2, <3>1 DEF Holdings, ValueTypeOK
      <4>2. purse' \in Nat /\ call' \in 0..8 /\ call' # 0
        BY <1>2, <3>1, ValueAssumption DEF ValueTypeOK
      <4> QED BY <1>1, <1>2, <4>1, <4>2 DEF ValueTypeOK
    <3>3. Mix' = Mix
      <4>1. \A p \in Places : Turn(p) < call + 1 <=> Turn(p) < call \/ Turn(p) = call
        BY <3>1, TurnIs
      <4> QED BY <1>1, <3>1, <4>1 DEF Mix
    <3>4. MixCoin' = MixCoin
      BY <1>1, <3>1 DEF MixCoin
    <3> QED BY <3>2, <3>3, <3>4
  <2> QED BY <2>1, <2>2
<1>5. Estimate' = Estimate
  BY <1>4 DEF Estimate, Whole
<1>6. EstimateOK'
  BY <1>1, <1>3, <1>5 DEF EstimateOK, ValueInv
<1> QED BY <1>3, <1>4, <1>6

LEMMA ForgetKeepsValue ==
    ASSUME ValueInv, Forget, UNCHANGED worldVars
    PROVE  ValueTypeOK' /\ EstimateOK' /\ TrueWorth' = TrueWorth
<1>1. /\ held' = held /\ coin' = coin /\ call' = 0 /\ slack' = 0 /\ purse' = 0
      /\ answer' = [p \in Places |-> Empty]
  BY DEF Forget, worldVars
<1>2. ValueTypeOK
  BY DEF ValueInv
<1>3. TrueWorth' = TrueWorth
  BY <1>1 DEF TrueWorth
<1>4. ValueTypeOK'
  BY <1>1, <1>2 DEF ValueTypeOK, Holdings, Counts, Empty
<1>5. Mix' = held /\ MixCoin' = coin + Gems
  <2>1. \A p \in Places : ~(Turn(p) < 0)
    BY TurnIs
  <2>2. Mix' = [p \in Places |-> held[p]]
    BY <1>1, <2>1 DEF Mix
  <2> QED BY <1>1, <1>2, <2>2 DEF MixCoin, ValueTypeOK, Holdings
<1>6. Estimate' = TrueWorth'
  <2>1. Estimate' = Whole(held) + (coin + Gems)
    BY <1>5 DEF Estimate, Whole
  <2>2. TrueWorth = Whole(held) + coin + Gems
    BY TrueWorthIs
  <2> DEFINE w == Whole(held)
  <2>3. w \in Int /\ coin \in Int /\ Gems \in Int
    BY <1>2, WorthsAreInts, ValueAssumption DEF ValueTypeOK
  <2> HIDE DEF w
  <2>4. w + (coin + Gems) = w + coin + Gems
    BY <2>3
  <2> QED BY <1>3, <2>1, <2>2, <2>4 DEF w
<1>7. EstimateOK'
  <2>1. TrueWorth' \in Int
    BY <1>2, <1>3, WorthsAreInts
  <2> DEFINE e == Estimate'
             t == TrueWorth'
             s == slack'
  <2>2. e = t /\ t \in Int /\ s = 0
    BY <1>1, <1>6, <2>1
  <2> HIDE DEF e, t, s
  <2>3. e - t <= s /\ t - e <= s
    BY <2>2
  <2> QED BY <2>3 DEF e, t, s, EstimateOK
<1> QED BY <1>3, <1>4, <1>7

(* A place's worth over the ids asked for is its worth over all.           *)
LEMMA AskedIsEnough ==
    ASSUME NEW has \in Holdings, NEW p \in Places, NEW prices \in Bases
    PROVE  Worth(has[p], prices, Asked(has)) = Worth(has[p], prices, Items)
<1> DEFINE c == has[p]
           A == Asked(has)
<1>1. c \in Counts /\ A \in SUBSET Items
  BY DEF Holdings, Asked
<1>2. \A i \in Items \ A : c[i] = 0
  <2> SUFFICES ASSUME NEW i \in Items \ A PROVE c[i] = 0
    OBVIOUS
  <2>1. ~(has[p][i] > 0) /\ c[i] \in Nat
    BY <1>1 DEF Asked, Counts
  <2> QED BY <2>1
<1> HIDE DEF c, A
<1>3. Worth(c, prices, Items) = Worth(c, prices, A)
  BY <1>1, <1>2, WorthOfThePresent
<1> QED BY <1>3 DEF c, A

LEMMA TotalIsWhole ==
    ASSUME NEW has \in Holdings, NEW copper
    PROVE  Compute(has, copper).buy["total"] = Whole(has) + copper
<1> DEFINE worth == [p \in Places |-> Worth(has[p], Buys, Asked(has))]
<1>1. Compute(has, copper).buy["total"] = SumFunction(worth) + copper
  BY DEF Compute, Components
<1>2. worth = [p \in Places |-> Worth(has[p], Buys, Items)]
  BY AskedIsEnough DEF Bases
<1> HIDE DEF worth
<1>3. SumFunction(worth) = Whole(has)
  BY <1>2 DEF Whole
<1> QED BY <1>1, <1>3

LEMMA SetKeepsValue ==
    ASSUME ValueInv, SetAccountValue
    PROVE  ValueTypeOK' /\ EstimateOK' /\ DistortionIsBounded'
<1>1. ValueTypeOK' /\ EstimateOK' /\ TrueWorth' = TrueWorth
  BY ForgetKeepsValue DEF SetAccountValue
<1>2. call = 8 /\ valued' = Compute(answer, purse) /\ leeway' = slack
  BY CallIs DEF SetAccountValue
<1>3. ValueTypeOK
  BY DEF ValueInv
<1>4. Mix = answer /\ MixCoin = purse
  <2>1. \A p \in Places : Turn(p) < call
    BY <1>2, TurnIs
  <2> QED BY <1>2, <1>3, <2>1 DEF Mix, MixCoin, ValueTypeOK, Holdings
<1>5. valued'.buy["total"] = Estimate
  BY <1>2, <1>3, <1>4, TotalIsWhole DEF Estimate, ValueTypeOK
<1>6. valued'.buy["total"] - TrueWorth' <= leeway'
      /\ TrueWorth' - valued'.buy["total"] <= leeway'
  BY <1>1, <1>2, <1>5 DEF ValueInv, EstimateOK
<1> QED BY <1>1, <1>6 DEF DistortionIsBounded

LEMMA StillBounded ==
    ASSUME DistortionIsBounded, TrueWorth' = TrueWorth,
           UNCHANGED <<valued, leeway>>
    PROVE  DistortionIsBounded'
  BY DEF DistortionIsBounded

LEMMA ValueInitHolds == ASSUME ValueInit PROVE ValueInv
<1>1. /\ held \in Holdings /\ answer \in Holdings /\ call = 0 /\ slack = 0
      /\ coin \in Nat /\ purse \in Nat
  BY ValueAssumption DEF ValueInit, Holdings, Counts, Empty
<1>2. ValueTypeOK
  BY <1>1 DEF ValueTypeOK
<1>3. Mix = held /\ MixCoin = coin + Gems
  <2>1. Mix = [p \in Places |-> held[p]]
    BY <1>1, TurnIs DEF Mix
  <2> QED BY <1>1, <2>1 DEF MixCoin, Holdings
<1>4. EstimateOK
  <2> DEFINE w == Whole(held)
             t == TrueWorth
             e == Estimate
  <2>1. w \in Int /\ coin \in Int /\ Gems \in Int
    BY <1>1, <1>2, WorthsAreInts, ValueAssumption
  <2>2. e = w + (coin + Gems) /\ t = w + coin + Gems /\ slack = 0
    BY <1>1, <1>3, TrueWorthIs DEF Estimate
  <2> HIDE DEF w, t, e
  <2>3. e - t <= slack /\ t - e <= slack
    BY <2>1, <2>2
  <2> QED BY <2>3 DEF e, t, EstimateOK
<1>5. DistortionIsBounded
  <2>1. valued = NoValue
    BY DEF ValueInit
  <2> QED BY <2>1 DEF DistortionIsBounded
<1> QED BY <1>2, <1>4, <1>5 DEF ValueInv

LEMMA ValueStep ==
    ASSUME ValueInv, [ValueNext]_valueVars
    PROVE  ValueInv'
<1>1. ASSUME NEW i \in Items, NEW p \in Places, NEW q \in Places,
             MoveItem(i, p, q)
      PROVE  ValueInv'
  <2>1. UNCHANGED <<valued, leeway>>
    BY <1>1 DEF MoveItem
  <2> QED BY <1>1, <2>1, MoveKeepsValue, StillBounded DEF ValueInv
<1>2. ASSUME NEW i \in Items, NEW p \in Places, SellItem(i, p)
      PROVE  ValueInv'
  <2>1. UNCHANGED <<valued, leeway>>
    BY <1>2 DEF SellItem
  <2> QED BY <1>2, <2>1, SaleKeepsValue, StillBounded DEF ValueInv
<1>3. CASE StartValuePoll \/ ValueCall
  <2>1. UNCHANGED <<valued, leeway>>
    BY <1>3 DEF StartValuePoll, ValueCall
  <2> QED BY <1>3, <2>1, CallKeepsValue, StillBounded DEF ValueInv
<1>4. CASE ValueCallFails
  <2>1. UNCHANGED <<valued, leeway>> /\ Forget /\ UNCHANGED worldVars
    BY <1>4 DEF ValueCallFails
  <2> QED BY <2>1, ForgetKeepsValue, StillBounded DEF ValueInv
<1>5. CASE SetAccountValue
  BY <1>5, SetKeepsValue DEF ValueInv
<1>6. CASE UNCHANGED valueVars
  <2>1. /\ held' = held /\ coin' = coin /\ call' = call /\ answer' = answer
        /\ purse' = purse /\ valued' = valued /\ slack' = slack
        /\ leeway' = leeway
    BY <1>6 DEF valueVars, worldVars, pollVars
  <2>2. ValueTypeOK'
    BY <2>1 DEF ValueInv, ValueTypeOK
  <2>3. TrueWorth' = TrueWorth /\ Mix' = Mix /\ MixCoin' = MixCoin
    BY <2>1 DEF TrueWorth, Mix, MixCoin
  <2>4. Estimate' = Estimate
    BY <2>3 DEF Estimate, Whole
  <2>5. EstimateOK'
    BY <2>1, <2>3, <2>4 DEF ValueInv, EstimateOK
  <2>6. DistortionIsBounded'
    BY <2>1, <2>3, StillBounded DEF ValueInv
  <2> QED BY <2>2, <2>5, <2>6 DEF ValueInv
<1> QED
  BY <1>1, <1>2, <1>3, <1>4, <1>5, <1>6 DEF ValueNext

(* Collection drives AccountValue: whatever else it does, the account and  *)
(* its value poll take one of their own steps or none.                     *)
LEMMA StepsOfTheValue == [Next]_vars => [ValueNext]_valueVars
<1> SUFFICES ASSUME [Next]_vars PROVE [ValueNext]_valueVars
  OBVIOUS
<1> USE DEF valueVars, gameVars, storeVars
<1>1. CASE \/ Advance \/ Publish \/ Collect \/ Export \/ Unregister \/ Ended
           \/ UNCHANGED vars
  BY <1>1 DEF Advance, Publish, Collect, Export, Unregister, Ended, vars
<1>2. ASSUME NEW q \in Quests, Complete(q) PROVE UNCHANGED valueVars
  BY <1>2 DEF Complete
<1>3. ASSUME NEW g \in Guilds, Enrol(g) PROVE UNCHANGED valueVars
  BY <1>3 DEF Enrol
<1>4. CASE PlayerMoves
  BY <1>4 DEF PlayerMoves, ValueNext
<1>5. ASSUME NEW k \in Keys, Poll(k) PROVE [ValueNext]_valueVars
  <2>1. ASSUME NEW d, Store(k, d) PROVE UNCHANGED valueVars
    BY <2>1 DEF Store
  <2>2. ASSUME NEW x, NEW d, Store(x, d) PROVE UNCHANGED valueVars
    BY <2>2 DEF Store
  <2>3. CASE PollPlain(k)
    BY <2>2, <2>3 DEF PollPlain
  <2>4. CASE PollAccount
    BY <2>2, <2>4 DEF PollAccount
  <2>5. CASE PollStory
    BY <2>2, <2>5 DEF PollStory
  <2>6. CASE PollCommerce
    BY <2>2, <2>6 DEF PollCommerce
  <2>7. CASE PollGuild
    BY <2>2, <2>7 DEF PollGuild
  <2>8. CASE PollValue
    BY <2>8 DEF PollValue, ValueNext
  <2> QED BY <1>5, <2>3, <2>4, <2>5, <2>6, <2>7, <2>8 DEF Poll
<1>6. CASE Reading
  <2>1. ASSUME NEW s, Observes(s) PROVE UNCHANGED valueVars
    BY <2>1 DEF Observes
  <2>2. CASE ReadSnapshot
    BY <2>1, <2>2 DEF ReadSnapshot
  <2>3. CASE LookUpName
    BY <2>1, <2>3 DEF LookUpName
  <2>4. CASE LookUpSeason
    BY <2>1, <2>4 DEF LookUpSeason
  <2>5. CASE ReadTotals
    BY <2>1, <2>5 DEF ReadTotals
  <2>6. CASE ReadStamps
    BY <2>1, <2>6 DEF ReadStamps
  <2> QED BY <1>6, <2>2, <2>3, <2>4, <2>5, <2>6 DEF Reading
<1> QED
  BY <1>1, <1>2, <1>3, <1>4, <1>5, <1>6 DEF Next

LEMMA ValueInvariant == Spec => []ValueInv
<1>1. Init => ValueInv
  BY ValueInitHolds DEF Init
<1>2. ValueInv /\ [Next]_vars => ValueInv'
  BY StepsOfTheValue, ValueStep
<1> QED BY <1>1, <1>2, PTL DEF Spec

(* Beside the callback, the other polls and the tables, the value poll and *)
(* the player take only the steps AccountValue has for them, each of them  *)
(* whole: nothing else writes what they keep (poller.go:335-417).          *)
THEOREM CollectionRunsValuePoll == Spec => ValueSpec
<1>1. Init => ValueInit
  BY DEF Init
<1> QED BY <1>1, StepsOfTheValue, PTL DEF Spec, ValueSpec

(* The published total is off by no more than the worth that moved while   *)
(* the poll was asking place after place, for any items, prices and moves  *)
(* (poller.go:335-417, value.go:33-104).  The invariant behind it follows  *)
(* the total the poll would come to if the rest of its calls were answered *)
(* at once.                                                                *)
THEOREM ValueIsNearlyExact == Spec => []DistortionIsBounded
<1>1. ValueInv => DistortionIsBounded
  BY DEF ValueInv
<1> QED BY <1>1, ValueInvariant, PTL

-----------------------------------------------------------------------------
(* One breakdown adds up.                                                  *)
LEMMA CategoriesAreFinite == IsFiniteSet(Categories)
<1> DEFINE f == [i \in Items |-> CategoryOf[i]]
<1>1. f \in Surjection(Items, Categories)
  BY DEF Surjection, Categories
<1> HIDE DEF f
<1> QED BY <1>1, FS_Surjection, ValueAssumption

LEMMA BasisAddsUp ==
    ASSUME NEW has \in Holdings, NEW copper \in Nat, NEW prices \in Bases
    PROVE  LET basis == Components(has, copper, prices)
           IN  basis["total"] = SumFunctionOnSet(basis, Places \union {"wallet"})
<1> DEFINE basis == Components(has, copper, prices)
           worth == [p \in Places |-> Worth(has[p], prices, Asked(has))]
           S == Places \union {"wallet"}
<1>1. "wallet" \notin Places /\ "total" \notin Places
  BY DEF Places
<1>2. basis = [c \in Places \union {"wallet", "total"} |->
                 CASE c = "wallet" -> copper
                   [] c = "total"  -> SumFunction(worth) + copper
                   [] OTHER        -> worth[c]]
  BY DEF Components
<1>3. /\ basis["wallet"] = copper
      /\ basis["total"] = SumFunction(worth) + copper
      /\ \A p \in Places : basis[p] = worth[p]
  <2> HIDE DEF worth, basis
  <2> QED BY <1>1, <1>2
<1>4. \A p \in Places : worth[p] \in Int
  BY WorthIsInt DEF Holdings
<1>5. SumFunction(worth) = SumFunctionOnSet(worth, Places)
  BY DEF SumFunction
<1>6. IsFiniteSet(S) /\ S \ {"wallet"} = Places /\ "wallet" \in S
  BY <1>1, PlacesAreFinite, FS_AddElement
<1> HIDE DEF basis, worth, S
<1>7. \A x \in S : basis[x] \in Int
  <2>1. \A x \in S : x \in Places \/ x = "wallet"
    BY DEF S
  <2> QED BY <1>3, <1>4, <2>1
<1>8. SumFunctionOnSet(basis, S) = basis["wallet"] + SumFunctionOnSet(basis, Places)
  BY <1>6, <1>7, SumRemove
<1>9. SumFunctionOnSet(worth, Places) = SumFunctionOnSet(basis, Places)
  BY <1>3, <1>4, PlacesAreFinite, SumSame
<1>10. SumFunctionOnSet(worth, Places) \in Int
  BY <1>4, PlacesAreFinite, SumIsInt
<1>11. basis["total"] = SumFunctionOnSet(basis, S)
  BY <1>3, <1>5, <1>8, <1>9, <1>10
<1> QED BY <1>11 DEF basis, S

LEMMA CategoriesAddUp ==
    ASSUME NEW has \in Holdings, NEW copper \in Nat
    PROVE  LET v == Compute(has, copper)
           IN  v.sell["materials"] = SumFunction(v.category)
<1> DEFINE v == Compute(has, copper)
           c == has["materials"]
           A == Asked(has)
           S == A \intersect Priced
           f == Products(c, Sells)
           t == [k \in Categories |-> OfCategory(c, k, A)]
<1>1. c \in Counts /\ Sells \in Bases /\ "materials" \in Places
      /\ "materials" # "wallet" /\ "materials" # "total"
  BY DEF Holdings, Bases, Places
<1>2. A \in SUBSET Items
  BY DEF Asked
<1>3. v.sell["materials"] = Worth(c, Sells, A) /\ v.category = t
  <2>1. v.sell = Components(has, copper, Sells) /\ v.category = t
    BY DEF Compute
  <2>2. Components(has, copper, Sells)["materials"] = Worth(c, Sells, A)
    BY <1>1 DEF Components
  <2> QED BY <2>1, <2>2
<1>4. Worth(c, Sells, A) = SumFunctionOnSet(f, S)
  <2> HIDE DEF c, A
  <2> QED BY <1>1, WorthIsSum
<1>5. IsFiniteSet(S) /\ \A i \in S : f[i] \in Int
  <2>1. IsFiniteSet(S)
    BY <1>2, ValueAssumption, FS_Subset
  <2>2. \A i \in S : f[i] \in Int
    <3> HIDE DEF c, A
    <3> QED BY <1>1, ProductIsInt DEF Products
  <2> QED BY <2>1, <2>2
<1>6. \A i \in S : CategoryOf[i] \in Categories
  BY <1>2 DEF Categories
<1>7. \A k \in Categories : t[k] = SumFunctionOnSet(f, ClassOf(S, CategoryOf, k))
  <2> SUFFICES ASSUME NEW k \in Categories
               PROVE  t[k] = SumFunctionOnSet(f, ClassOf(S, CategoryOf, k))
    OBVIOUS
  <2> DEFINE C == {i \in A : CategoryOf[i] = k}
  <2>1. t[k] = Worth(c, Sells, C)
    BY DEF OfCategory
  <2>2. C \intersect Priced = ClassOf(S, CategoryOf, k)
    BY DEF ClassOf
  <2> HIDE DEF c, A, C, S, t, f
  <2>3. Worth(c, Sells, C) = SumFunctionOnSet(f, C \intersect Priced)
    BY <1>1, WorthIsSum DEF f
  <2> QED BY <2>1, <2>2, <2>3
<1>8. SumFunction(t) = SumFunctionOnSet(t, Categories)
  BY DEF SumFunction
<1> HIDE DEF v, c, A, S, f, t
<1>9. SumFunctionOnSet(t, Categories) = SumFunctionOnSet(f, S)
  BY <1>5, <1>6, <1>7, CategoriesAreFinite, SumByClass
<1> QED BY <1>3, <1>4, <1>8, <1>9 DEF v

LEMMA BreakdownsAddUp ==
    ASSUME NEW has \in Holdings, NEW copper \in Nat
    PROVE  AddsUp(Compute(has, copper))
<1> DEFINE v == Compute(has, copper)
<1>1. v.buy = Components(has, copper, Buys) /\ v.sell = Components(has, copper, Sells)
  BY DEF Compute
<1>2. \A b \in {v.buy, v.sell} :
         b["total"] = SumFunctionOnSet(b, Places \union {"wallet"})
  <2> HIDE DEF v
  <2> QED BY <1>1, BasisAddsUp DEF Bases
<1>3. v.sell["materials"] = SumFunction(v.category)
  BY CategoriesAddUp
<1> HIDE DEF v
<1>4. AddsUp(v)
  BY <1>2, <1>3 DEF AddsUp
<1> QED BY <1>4 DEF v

-----------------------------------------------------------------------------
(* Type correctness of Collection, with the shapes TypeOK does not spell   *)
(* out: a stock of snapshots, an observation, the stored guild list.       *)
Moments == {0} \union Times

IsStock(r) ==
    /\ r = [k \in Keys |-> [at |-> r[k].at, data |-> r[k].data]]
    /\ \A k \in Keys : r[k].at \in Moments

IsObservation(s) ==
    /\ s = [read |-> s.read, names |-> s.names, completed |-> s.completed,
            totals |-> s.totals, stamps |-> s.stamps]
    /\ IsStock(s.read)
    /\ s.names \subseteq Keys
    /\ s.completed \in [Seasons -> Nat]
    /\ s.totals \in [Seasons -> Nat]
    /\ s.stamps \in [Marked -> Moments]

StoreTypeOK ==
    /\ IsStock(snapshot)
    /\ lastSuccess = [k \in Marked |-> snapshot[k].at]
    /\ snapshot["account"].at > 0 => snapshot["account"].data \subseteq Guilds
    /\ \A k \in Keys : snapshot[k].at <= now

CallbackTypeOK ==
    /\ pc \in 0..End
    /\ IsObservation(series)
    /\ IsObservation(exported)

FullTypeOK ==
    /\ now \in Times
    /\ awake \in Slices
    /\ done \subseteq Present(now)
    /\ member \subseteq Guilds
    /\ StoreTypeOK
    /\ tables \in Moments
    /\ registered \in BOOLEAN
    /\ CallbackTypeOK
    /\ failures \in 0..MaxFailures

LEMMA FullTypeGivesType == FullTypeOK => TypeOK
  BY DEF FullTypeOK, StoreTypeOK, CallbackTypeOK, IsStock, IsObservation,
         Moments, TypeOK

LEMMA NothingIsObservation == IsObservation(Nothing)
<1>1. \A k \in Keys : Absent.at \in Moments /\ Absent = [at |-> Absent.at, data |-> Absent.data]
  BY DEF Absent, Moments
<1>2. IsStock([k \in Keys |-> Absent])
  <2> HIDE DEF Absent
  <2> QED BY <1>1 DEF IsStock
<1> DEFINE r == [k \in Keys |-> Absent]
<1>3. Nothing = [read |-> r, names |-> {}, completed |-> [s \in Seasons |-> 0],
                 totals |-> [s \in Seasons |-> 0], stamps |-> [k \in Marked |-> 0]]
  BY DEF Nothing
<1> HIDE DEF r
<1>4. IsStock(r)
  BY <1>2 DEF r
<1>5. 0 \in Moments
  BY DEF Moments
<1> QED BY <1>3, <1>4, <1>5 DEF IsObservation

LEMMA TimeIs == ASSUME NEW t \in Times PROVE t \in Nat /\ t > 0 /\ t \in Moments
  BY CollectionAssumption DEF Times, Moments

LEMMA MomentIs == ASSUME NEW t \in Moments PROVE t \in Nat /\ t <= MaxTime
  BY CollectionAssumption DEF Times, Moments

LEMMA KeysAre ==
    /\ Marked \subseteq Keys
    /\ "account" \in Marked /\ "value" \in Marked /\ "story" \in Marked
    /\ "commerce" \in Marked /\ "guild" \in Marked
    /\ "account" \notin Plain
  BY DEF Marked, Keys, Plain

LEMMA InitHasType == Init => FullTypeOK
<1> SUFFICES ASSUME Init PROVE FullTypeOK
  OBVIOUS
<1>1. now \in Times /\ awake \in Slices
  BY CollectionAssumption DEF Init, Times
<1>2. IsStock(snapshot) /\ \A k \in Keys : snapshot[k].at = 0
  <2>1. snapshot = [k \in Keys |-> Absent]
    BY DEF Init
  <2> QED BY <2>1 DEF IsStock, Absent, Moments
<1>3. StoreTypeOK
  <2>1. lastSuccess = [k \in Marked |-> 0]
    BY DEF Init
  <2>2. lastSuccess = [k \in Marked |-> snapshot[k].at]
    BY <1>2, <2>1, KeysAre
  <2>3. ~(snapshot["account"].at > 0)
    BY <1>2, KeysAre
  <2>4. \A k \in Keys : snapshot[k].at <= now
    BY <1>1, <1>2, TimeIs
  <2> QED BY <1>2, <2>2, <2>3, <2>4 DEF StoreTypeOK
<1>4. CallbackTypeOK
  <2>1. pc = 0 /\ series = Nothing /\ exported = Nothing
    BY DEF Init
  <2>2. 0 \in 0..End
    BY DEF End
  <2> QED BY <2>1, <2>2, NothingIsObservation DEF CallbackTypeOK
<1>5. /\ done = {} /\ member = Guilds /\ tables = 0 /\ registered = TRUE
      /\ failures = 0
  BY DEF Init
<1> QED
  BY <1>1, <1>3, <1>4, <1>5, CollectionAssumption DEF FullTypeOK, Moments

-----------------------------------------------------------------------------
(* The readings of the callback.                                           *)
First == Len(FirstReadings)

LEMMA FirstReadingsAre ==
    /\ First = 24
    /\ FirstReadings[1] = Get("account")
    /\ FirstReadings[2] = Get("progression")
    /\ FirstReadings[3] = Get("achievements")
    /\ FirstReadings[4] = Get("legendary")
    /\ FirstReadings[5] = Get("resets")
    /\ FirstReadings[6] = Get("wvw")
    /\ FirstReadings[7] = Get("storage")
    /\ FirstReadings[8] = Name("storage")
    /\ FirstReadings[9] = Get("wardrobe")
    /\ FirstReadings[10] = Get("wallet")
    /\ FirstReadings[11] = Name("wallet")
    /\ FirstReadings[12] = Get("characters")
    /\ FirstReadings[13] = Get("commerce")
    /\ FirstReadings[14] = Get("guild")
    /\ FirstReadings[15] = Get("pvp")
    /\ FirstReadings[16] = Get("standings")
    /\ FirstReadings[17] = Get("unlocks")
    /\ FirstReadings[18] = Name("unlocks")
    /\ FirstReadings[19] = Get("wizardsvault")
    /\ FirstReadings[20] = Get("prices")
    /\ FirstReadings[21] = Name("prices")
    /\ FirstReadings[22] = Get("craft_profits")
    /\ FirstReadings[23] = Name("craft_profits")
    /\ FirstReadings[24] = Get("story")
  BY DEF First, FirstReadings

LEMMA LastReadingsAre ==
    /\ Len(LastReadings) = 4
    /\ LastReadings[1] = Totals
    /\ LastReadings[2] = Get("value")
    /\ LastReadings[3] = Name("value")
    /\ LastReadings[4] = Stamps
  BY DEF LastReadings

(* The look-ups of the quests, one for each.                               *)
Looked == Cardinality(Quests)
Quest(n) == SetToSeq(Quests)[n]

LEMMA QuestLookupsAre ==
    /\ Looked \in Nat
    /\ Len(QuestLookups) = Looked
    /\ \A n \in 1..Looked : /\ QuestLookups[n] = Season(Quest(n))
                            /\ Quest(n) \in Quests
    /\ \A n, m \in 1..Looked : Quest(n) = Quest(m) => n = m
<1>1. Looked \in Nat /\ ExistsBijection(1..Looked, Quests)
  BY CollectionAssumption, FS_CardinalityType DEF Looked
<1>2. \E f \in [1..Looked -> Quests] : IsInjective(f)
  <2>1. PICK f \in Bijection(1..Looked, Quests) : TRUE
    BY <1>1 DEF ExistsBijection
  <2>2. f \in [1..Looked -> Quests]
        /\ \A a, b \in 1..Looked : f[a] = f[b] => a = b
    BY DEF Bijection, Injection, IsInjective
  <2> QED BY <2>2 DEF IsInjective
<1>3. SetToSeq(Quests) \in [1..Looked -> Quests] /\ IsInjective(SetToSeq(Quests))
  BY <1>2 DEF SetToSeq, Looked
<1>4. QuestLookups = [n \in 1..Looked |-> Season(Quest(n))]
  BY DEF QuestLookups, Looked, Quest
<1>5. Len(QuestLookups) = Looked
  BY <1>1, <1>4
<1>6. \A n, m \in 1..Looked : Quest(n) = Quest(m) => n = m
  BY <1>3 DEF IsInjective, Quest
<1> QED
  BY <1>1, <1>3, <1>4, <1>5, <1>6 DEF Quest

IsConcat(u, s, t) ==
    /\ Len(u) = Len(s) + Len(t)
    /\ \A n \in 1..Len(s) : u[n] = s[n]
    /\ \A n \in 1..Len(t) : u[Len(s) + n] = t[n]

LEMMA ConcatIs ==
    ASSUME NEW X, NEW s \in Seq(X), NEW t \in Seq(X)
    PROVE  s \o t \in Seq(X) /\ IsConcat(s \o t, s, t)
<1>1. s \o t \in Seq(X) /\ Len(s \o t) = Len(s) + Len(t)
  OBVIOUS
<1>2. \A n \in 1..Len(s) : (s \o t)[n] = s[n]
  OBVIOUS
<1>3. ASSUME NEW n \in 1..Len(t) PROVE (s \o t)[Len(s) + n] = t[n]
  <2>1. /\ Len(s) + n \in 1..Len(s) + Len(t) /\ ~(Len(s) + n <= Len(s))
        /\ Len(s) + n - Len(s) = n
    OBVIOUS
  <2> QED BY <2>1
<1> QED BY <1>1, <1>2, <1>3 DEF IsConcat

LEMMA ReadingsAre ==
    /\ Looked \in Nat
    /\ Len(Readings) = 28 + Looked
    /\ \A n \in 1..24 : Readings[n] = FirstReadings[n]
    /\ \A n \in 1..Looked : Readings[24 + n] = Season(Quest(n))
    /\ Readings[25 + Looked] = Totals
    /\ Readings[26 + Looked] = Get("value")
    /\ Readings[27 + Looked] = Name("value")
    /\ Readings[28 + Looked] = Stamps
<1> DEFINE X == {FirstReadings[n] : n \in 1..24} \union {QuestLookups[n] : n \in 1..Looked}
                  \union {LastReadings[n] : n \in 1..4}
<1>1. FirstReadings \in Seq(X) /\ Len(FirstReadings) = 24
  <2>1. Len(FirstReadings) = 24
    BY FirstReadingsAre DEF First
  <2>2. FirstReadings \in Seq({FirstReadings[n] : n \in 1..24})
    BY <2>1 DEF FirstReadings
  <2> QED BY <2>1, <2>2
<1>2. LastReadings \in Seq(X) /\ Len(LastReadings) = 4
  <2>1. LastReadings \in Seq({LastReadings[n] : n \in 1..4})
    BY LastReadingsAre DEF LastReadings
  <2> QED BY <2>1, LastReadingsAre
<1>3. QuestLookups \in Seq(X) /\ Len(QuestLookups) = Looked
  <2>1. QuestLookups \in [1..Looked -> X]
    BY DEF QuestLookups, Looked
  <2> QED BY <2>1, QuestLookupsAre
<1> HIDE DEF X
<1>4. Readings = (FirstReadings \o QuestLookups) \o LastReadings
  BY DEF Readings
<1> DEFINE Y == FirstReadings \o QuestLookups
<1>5. /\ Y \in Seq(X) /\ Len(Y) = 24 + Looked
      /\ \A n \in 1..24 : Y[n] = FirstReadings[n]
      /\ \A n \in 1..Looked : Y[24 + n] = QuestLookups[n]
  <2>1. Y = FirstReadings \o QuestLookups /\ 24 \in Nat /\ Looked \in Nat
    BY QuestLookupsAre
  <2>2. Y \in Seq(X) /\ IsConcat(Y, FirstReadings, QuestLookups)
    BY <1>1, <1>3, ConcatIs
  <2> HIDE DEF Y
  <2> QED BY <1>1, <1>3, <2>1, <2>2 DEF IsConcat
<1>6. /\ Len(Readings) = 28 + Looked
      /\ \A n \in 1..24 + Looked : Readings[n] = Y[n]
      /\ \A n \in 1..4 : Readings[24 + Looked + n] = LastReadings[n]
  <2> DEFINE L == 24 + Looked
  <2>1. Readings = Y \o LastReadings /\ L \in Nat /\ 4 \in Nat /\ L + 4 = 28 + Looked
    BY <1>4, QuestLookupsAre
  <2>2. Len(Y) = L
    BY <1>5
  <2> HIDE DEF Y, L
  <2>3. /\ Len(Readings) = L + 4
        /\ \A n \in 1..L : Readings[n] = Y[n]
        /\ \A n \in 1..4 : Readings[L + n] = LastReadings[n]
    <3>1. IsConcat(Y \o LastReadings, Y, LastReadings)
      BY <1>2, <1>5, ConcatIs
    <3> QED BY <1>2, <2>1, <2>2, <3>1 DEF IsConcat
  <2> QED BY <2>1, <2>3 DEF L
<1> HIDE DEF Y
<1>7. \A n \in 1..24 : Readings[n] = FirstReadings[n]
  <2> SUFFICES ASSUME NEW n \in 1..24 PROVE Readings[n] = FirstReadings[n]
    OBVIOUS
  <2>1. n \in 1..24 + Looked
    BY QuestLookupsAre
  <2> QED BY <1>5, <1>6, <2>1
<1>8. \A n \in 1..Looked : Readings[24 + n] = Season(Quest(n))
  <2> SUFFICES ASSUME NEW n \in 1..Looked
               PROVE  Readings[24 + n] = Season(Quest(n))
    OBVIOUS
  <2>1. 24 + n \in 1..24 + Looked
    BY QuestLookupsAre
  <2> QED BY <1>5, <1>6, <2>1, QuestLookupsAre
<1>9. /\ Readings[25 + Looked] = Totals
      /\ Readings[26 + Looked] = Get("value")
      /\ Readings[27 + Looked] = Name("value")
      /\ Readings[28 + Looked] = Stamps
  <2>1. /\ Readings[24 + Looked + 1] = LastReadings[1]
        /\ Readings[24 + Looked + 2] = LastReadings[2]
        /\ Readings[24 + Looked + 3] = LastReadings[3]
        /\ Readings[24 + Looked + 4] = LastReadings[4]
    BY <1>6
  <2>2. /\ 24 + Looked + 1 = 25 + Looked /\ 24 + Looked + 2 = 26 + Looked
        /\ 24 + Looked + 3 = 27 + Looked /\ 24 + Looked + 4 = 28 + Looked
    BY QuestLookupsAre
  <2> QED BY <2>1, <2>2, LastReadingsAre
<1> QED
  BY <1>6, <1>7, <1>8, <1>9, QuestLookupsAre

(* A look-up of names comes right after the getter of what it looks up.    *)
IsGet(n) == \E k \in Keys : Readings[n] = Get(k)
IsName(n) ==
    \E k \in Keys : /\ Readings[n] = Name(k)
                    /\ n - 1 \in 1..Len(Readings)
                    /\ Readings[n - 1] = Get(k)

LEMMA FirstAreGetsAndNames == \A n \in 1..24 : IsGet(n) \/ IsName(n)
<1>1. 1..24 \subseteq 1..Len(Readings) /\ \A n \in 1..24 : Readings[n] = FirstReadings[n]
  BY ReadingsAre
<1>2. /\ "account" \in Keys /\ "progression" \in Keys /\ "achievements" \in Keys
      /\ "legendary" \in Keys /\ "resets" \in Keys /\ "wvw" \in Keys
      /\ "storage" \in Keys /\ "wardrobe" \in Keys /\ "wallet" \in Keys
      /\ "characters" \in Keys /\ "commerce" \in Keys /\ "guild" \in Keys
      /\ "pvp" \in Keys /\ "standings" \in Keys /\ "unlocks" \in Keys
      /\ "wizardsvault" \in Keys /\ "prices" \in Keys
      /\ "craft_profits" \in Keys /\ "story" \in Keys
  BY DEF Keys, Marked
<1>3. \A n \in 1..24 : \A k \in Keys : FirstReadings[n] = Get(k) => IsGet(n)
  BY <1>1 DEF IsGet
<1>4. ASSUME NEW n \in 2..24, NEW k \in Keys,
             FirstReadings[n - 1] = Get(k), FirstReadings[n] = Name(k)
      PROVE  IsName(n)
  <2>1. n \in 1..24 /\ n - 1 \in 1..24
    OBVIOUS
  <2> QED BY <1>1, <1>4, <2>1 DEF IsName
<1>5. \A n \in 2..24 : \A k \in Keys :
         FirstReadings[n - 1] = Get(k) /\ FirstReadings[n] = Name(k) => IsName(n)
  BY <1>4
<1>6. /\ IsGet(1) /\ IsGet(2) /\ IsGet(3) /\ IsGet(4) /\ IsGet(5) /\ IsGet(6)
      /\ IsGet(7) /\ IsGet(9) /\ IsGet(10) /\ IsGet(12)
  BY <1>2, <1>3, FirstReadingsAre
<1>7. /\ IsGet(13) /\ IsGet(14) /\ IsGet(15) /\ IsGet(16) /\ IsGet(17)
      /\ IsGet(19) /\ IsGet(20) /\ IsGet(22) /\ IsGet(24)
  BY <1>2, <1>3, FirstReadingsAre
<1>8. IsName(8) /\ IsName(11) /\ IsName(18) /\ IsName(21) /\ IsName(23)
  <2>1. /\ 8 \in 2..24 /\ 11 \in 2..24 /\ 18 \in 2..24 /\ 21 \in 2..24 /\ 23 \in 2..24
        /\ 8 - 1 = 7 /\ 11 - 1 = 10 /\ 18 - 1 = 17 /\ 21 - 1 = 20 /\ 23 - 1 = 22
    OBVIOUS
  <2> HIDE DEF IsName
  <2>2. IsName(8) /\ IsName(11)
    BY <1>2, <1>5, <2>1, FirstReadingsAre
  <2>3. IsName(18) /\ IsName(21) /\ IsName(23)
    BY <1>2, <1>5, <2>1, FirstReadingsAre
  <2> QED BY <2>2, <2>3
<1>9. \A n \in 1..24 :
         \/ n = 1 \/ n = 2 \/ n = 3 \/ n = 4 \/ n = 5 \/ n = 6 \/ n = 7 \/ n = 8
         \/ n = 9 \/ n = 10 \/ n = 11 \/ n = 12 \/ n = 13 \/ n = 14 \/ n = 15
         \/ n = 16 \/ n = 17 \/ n = 18 \/ n = 19 \/ n = 20 \/ n = 21 \/ n = 22
         \/ n = 23 \/ n = 24
  OBVIOUS
<1> QED
  BY <1>6, <1>7, <1>8, <1>9

LEMMA LengthIs == Looked \in Nat /\ Len(Readings) = 28 + Looked /\ End = 29 + Looked
<1>1. Looked \in Nat /\ Len(Readings) = 28 + Looked
  BY ReadingsAre
<1>2. (28 + Looked) + 1 = 29 + Looked
  BY <1>1
<1> QED BY <1>1, <1>2 DEF End

IsSeason(n) ==
    \E m \in 1..Looked : n = 24 + m /\ Readings[n] = Season(Quest(m))

LEMMA KindsOfReadings ==
    \A n \in 1..Len(Readings) :
       \/ IsGet(n) \/ IsName(n) \/ IsSeason(n)
       \/ n = 25 + Looked /\ Readings[n] = Totals
       \/ n = Len(Readings) /\ Readings[n] = Stamps
<1> SUFFICES ASSUME NEW n \in 1..Len(Readings)
             PROVE  \/ IsGet(n) \/ IsName(n) \/ IsSeason(n)
                    \/ n = 25 + Looked /\ Readings[n] = Totals
                    \/ n = Len(Readings) /\ Readings[n] = Stamps
  OBVIOUS
<1>1. CASE n \in 1..24
  BY <1>1, FirstAreGetsAndNames
<1>2. CASE n - 24 \in 1..Looked
  <2> DEFINE m == n - 24
  <2>1. m \in 1..Looked /\ n = 24 + m
    BY <1>2, ReadingsAre
  <2> HIDE DEF m
  <2> QED BY <2>1, ReadingsAre DEF IsSeason
<1>3. CASE n = 25 + Looked
  BY <1>3, ReadingsAre
<1>4. CASE n = 26 + Looked
  BY <1>4, ReadingsAre, KeysAre DEF IsGet
<1>5. CASE n = 27 + Looked
  <2>1. n - 1 = 26 + Looked /\ n - 1 \in 1..Len(Readings)
    BY <1>5, LengthIs
  <2> QED BY <1>5, <2>1, ReadingsAre, KeysAre DEF IsName
<1>6. CASE n = 28 + Looked
  BY <1>6, ReadingsAre
<1>7. \/ n \in 1..24 \/ n - 24 \in 1..Looked \/ n = 25 + Looked
      \/ n = 26 + Looked \/ n = 27 + Looked \/ n = 28 + Looked
  BY LengthIs
<1> QED BY <1>1, <1>2, <1>3, <1>4, <1>5, <1>6, <1>7

(* What the operation of a reading says of it.                             *)
LEMMA OpsOfReadings ==
    ASSUME NEW n \in 1..Len(Readings)
    PROVE  /\ Readings[n].op = "get" => IsGet(n)
           /\ Readings[n].op = "name" => IsName(n)
           /\ Readings[n].op = "season" => IsSeason(n)
           /\ Readings[n].op = "totals" => n = 25 + Looked
           /\ Readings[n].op = "stamps" => n = Len(Readings)
<1>1. IsGet(n) => Readings[n].op = "get"
  BY DEF IsGet, Get
<1>2. IsName(n) => Readings[n].op = "name"
  BY DEF IsName, Name
<1>3. IsSeason(n) => Readings[n].op = "season"
  BY DEF IsSeason, Season
<1>4. Totals.op = "totals" /\ Stamps.op = "stamps"
  BY DEF Totals, Stamps
<1> QED BY <1>1, <1>2, <1>3, <1>4, KindsOfReadings

LEMMA EveryKeyIsRead == \A k \in Keys : \E n \in 1..Len(Readings) : Readings[n] = Get(k)
<1>1. 1..24 \subseteq 1..Len(Readings) /\ \A n \in 1..24 : Readings[n] = FirstReadings[n]
  BY ReadingsAre
<1>2. 26 + Looked \in 1..Len(Readings) /\ Readings[26 + Looked] = Get("value")
  BY ReadingsAre
<1>3. \A k \in Keys :
        \/ k = "account" \/ k = "progression" \/ k = "achievements"
        \/ k = "legendary" \/ k = "resets" \/ k = "wvw" \/ k = "storage"
        \/ k = "wardrobe" \/ k = "wallet" \/ k = "characters"
        \/ k = "commerce" \/ k = "guild" \/ k = "pvp" \/ k = "standings"
        \/ k = "unlocks" \/ k = "wizardsvault" \/ k = "prices"
        \/ k = "craft_profits" \/ k = "story" \/ k = "value"
  BY DEF Keys, Marked
<1> DEFINE Found(k) == \E n \in 1..Len(Readings) : Readings[n] = Get(k)
<1>4. \A n \in 1..24 : \A k : FirstReadings[n] = Get(k) => Found(k)
  BY <1>1
<1>5. 1 \in 1..24 /\ 2 \in 1..24 /\ 3 \in 1..24 /\ 4 \in 1..24 /\ 5 \in 1..24
      /\ 6 \in 1..24 /\ 7 \in 1..24 /\ 9 \in 1..24 /\ 10 \in 1..24
      /\ 12 \in 1..24 /\ 13 \in 1..24 /\ 14 \in 1..24 /\ 15 \in 1..24
      /\ 16 \in 1..24 /\ 17 \in 1..24 /\ 19 \in 1..24 /\ 20 \in 1..24
      /\ 22 \in 1..24 /\ 24 \in 1..24
  OBVIOUS
<1>6. Found("value")
  BY <1>2
<1> HIDE DEF Found
<1>7. /\ Found("account") /\ Found("progression") /\ Found("achievements")
      /\ Found("legendary") /\ Found("resets") /\ Found("wvw")
      /\ Found("storage") /\ Found("wardrobe") /\ Found("wallet")
  BY <1>4, <1>5, FirstReadingsAre
<1>8. /\ Found("characters") /\ Found("commerce") /\ Found("guild")
      /\ Found("pvp") /\ Found("standings") /\ Found("unlocks")
      /\ Found("wizardsvault") /\ Found("prices") /\ Found("craft_profits")
      /\ Found("story")
  BY <1>4, <1>5, FirstReadingsAre
<1>9. \A k \in Keys : Found(k)
  BY <1>3, <1>6, <1>7, <1>8
<1> QED BY <1>9 DEF Found

(* Where the callback goes next: past no reading of the text.              *)
LEMMA SmallestExists ==
    ASSUME NEW S, IsFiniteSet(S), S \subseteq Nat, S # {}
    PROVE  Min(S) \in S /\ \A y \in S : Min(S) <= y
<1> DEFINE HasMin(T) == \E x \in T : \A y \in T : x <= y
           B == {T \in SUBSET S : T # {} /\ ~HasMin(T)}
<1>1. B = {}
  <2> SUFFICES ASSUME B # {} PROVE FALSE
    OBVIOUS
  <2>1. PICK T \in B : \A U \in SUBSET T : U # T => U \notin B
    <3>1. B \in SUBSET SUBSET S
      OBVIOUS
    <3> HIDE DEF B
    <3> QED BY <3>1, SmallestSubset
  <2>2. T \in SUBSET S /\ T # {} /\ ~HasMin(T)
    BY <2>1
  <2>3. PICK e \in T : TRUE
    BY <2>2
  <2>4. CASE T \ {e} = {}
    <3>1. \A y \in T : y = e /\ e \in Nat
      BY <2>2, <2>3, <2>4
    <3>2. HasMin(T)
      BY <2>3, <3>1
    <3> QED BY <2>2, <3>2
  <2>5. CASE T \ {e} # {}
    <3>1. HasMin(T \ {e})
      BY <2>1, <2>2, <2>3, <2>5
    <3>2. PICK x \in T \ {e} : \A y \in T \ {e} : x <= y
      BY <3>1
    <3>3. x \in Nat /\ e \in Nat /\ \A y \in T : y \in Nat
      BY <2>2, <2>3, <3>2
    <3>4. CASE x <= e
      <4>1. \A y \in T : x <= y
        BY <3>2, <3>4
      <4> QED BY <2>2, <3>2, <4>1
    <3>5. CASE ~(x <= e)
      <4>1. \A y \in T : e <= y
        <5> SUFFICES ASSUME NEW y \in T, y # e PROVE e <= y
          BY <3>3
        <5>1. x <= y /\ y \in Nat
          BY <3>2, <3>3
        <5> QED BY <3>3, <3>5, <5>1
      <4> QED BY <2>2, <2>3, <4>1
    <3> QED BY <3>4, <3>5
  <2> QED BY <2>4, <2>5
<1>2. \E x \in S : \A y \in S : x <= y
  BY <1>1
<1> QED BY <1>2 DEF Min

LEMMA AfterIs ==
    ASSUME NEW n \in 0..End - 1
    PROVE  /\ After(n) \in 1..End /\ n < After(n)
           /\ \A m \in Text : m < After(n) => m <= n
           /\ After(n) = End \/ After(n) \in Text
<1> DEFINE S == {m \in Text : m > n} \union {End}
<1>1. End = 29 + Looked /\ Len(Readings) = 28 + Looked /\ Looked \in Nat
  BY LengthIs
<1>2. Text \subseteq 1..Len(Readings)
  BY DEF Text
<1>3. IsFiniteSet(S) /\ S \subseteq 1..End /\ S # {}
  <2>1. S \subseteq 1..End
    <3>1. 1..Len(Readings) \subseteq 1..End /\ End \in 1..End
      BY <1>1
    <3> QED BY <1>2, <3>1
  <2>2. IsFiniteSet(1..End)
    BY <1>1, FS_Interval
  <2> QED BY <2>1, <2>2, FS_Subset
<1>4. Min(S) \in S /\ \A y \in S : Min(S) <= y
  <2>1. S \subseteq Nat
    BY <1>1, <1>3
  <2> HIDE DEF S
  <2> QED BY <1>3, <2>1, SmallestExists
<1>5. After(n) = Min(S)
  BY DEF After
<1> HIDE DEF S
<1>6. After(n) \in S /\ \A y \in S : After(n) <= y
  BY <1>4, <1>5
<1>7. After(n) \in 1..End /\ After(n) \in Nat /\ n \in Nat
  <2>1. 1..End \subseteq Nat /\ n \in Nat
    BY <1>1
  <2> QED BY <1>3, <1>6, <2>1
<1>8. n < After(n) /\ (After(n) = End \/ After(n) \in Text)
  BY <1>1, <1>2, <1>6, <1>7 DEF S
<1>9. ASSUME NEW m \in Text, m < After(n) PROVE m <= n
  <2>1. m \in Nat
    BY <1>2
  <2>2. m \notin S
    BY <1>6, <1>7, <1>9, <2>1
  <2>3. ~(m > n)
    BY <2>2 DEF S
  <2> QED BY <1>7, <2>1, <2>3
<1> QED BY <1>7, <1>8, <1>9

-----------------------------------------------------------------------------
(* Steps beside the callback leave it where it is, only add to the tables, *)
(* and store under the keys of the polls that run, never of an older time. *)
Around ==
    /\ UNCHANGED <<awake, exportVars>>
    /\ tables <= tables'
    /\ \A k \in Keys : /\ snapshot[k].at <= snapshot'[k].at
                       /\ snapshot'[k].at # snapshot[k].at => k \in awake

LEMMA Same ==
    ASSUME FullTypeOK, UNCHANGED <<snapshot, tables, awake, exportVars>>
    PROVE  Around
<1>1. /\ \A k \in Keys : snapshot[k].at \in Nat
      /\ tables \in Nat
  BY MomentIs DEF FullTypeOK, StoreTypeOK, IsStock
<1> QED BY <1>1 DEF Around

(* What is stored is a stock again, whatever was stored.                   *)
IsPut(q, r, k, e) ==
    /\ IsStock(q)
    /\ q[k] = e
    /\ \A x \in Keys \ {k} : q[x] = r[x]

LEMMA PutKeepsStock ==
    ASSUME NEW r, IsStock(r), NEW k \in Keys, NEW t \in Moments, NEW d,
           NEW q, q = [r EXCEPT ![k] = [at |-> t, data |-> d]]
    PROVE  IsPut(q, r, k, [at |-> t, data |-> d])
<1> DEFINE e == [at |-> t, data |-> d]
<1>1. DOMAIN r = Keys
  BY DEF IsStock
<1>2. q[k] = e /\ \A x \in Keys \ {k} : q[x] = r[x]
  BY <1>1
<1>3. DOMAIN q = Keys /\ q = [x \in Keys |-> q[x]]
  BY <1>1
<1>4. \A x \in Keys : r[x] = [at |-> r[x].at, data |-> r[x].data]
  <2> DEFINE g == [x \in Keys |-> [at |-> r[x].at, data |-> r[x].data]]
  <2>1. \A x \in Keys : g[x] = [at |-> r[x].at, data |-> r[x].data]
    OBVIOUS
  <2>2. r = g
    BY DEF IsStock
  <2> HIDE DEF g
  <2> QED BY <2>1, <2>2
<1>5. \A x \in Keys : /\ q[x] = [at |-> q[x].at, data |-> q[x].data]
                      /\ q[x].at \in Moments
  <2> SUFFICES ASSUME NEW x \in Keys
               PROVE  /\ q[x] = [at |-> q[x].at, data |-> q[x].data]
                      /\ q[x].at \in Moments
    OBVIOUS
  <2>1. CASE x = k
    <3>1. q[x] = [at |-> t, data |-> d]
      BY <1>2, <2>1
    <3> QED BY <3>1
  <2>2. CASE x # k
    <3>1. q[x] = r[x]
      BY <1>2, <2>2
    <3> QED BY <1>4, <3>1 DEF IsStock
  <2> QED BY <2>1, <2>2
<1>6. IsStock(q)
  BY <1>3, <1>5 DEF IsStock
<1> QED BY <1>2, <1>6 DEF IsPut

LEMMA PutStep ==
    ASSUME FullTypeOK, NEW k \in Keys, k \in awake, NEW d,
           k = "account" => d \subseteq Guilds,
           snapshot' = [snapshot EXCEPT ![k] = [at |-> now, data |-> d]],
           lastSuccess' = IF k \in Marked THEN [lastSuccess EXCEPT ![k] = now]
                                          ELSE lastSuccess,
           UNCHANGED <<now, awake, tables, exportVars>>
    PROVE  StoreTypeOK' /\ Around
<1>1. now \in Times /\ now \in Moments /\ now \in Nat /\ IsStock(snapshot)
      /\ tables \in Nat
  BY TimeIs, MomentIs DEF FullTypeOK, StoreTypeOK
<1>2. /\ IsStock(snapshot')
      /\ snapshot'[k] = [at |-> now, data |-> d]
      /\ \A x \in Keys \ {k} : snapshot'[x] = snapshot[x]
  <2>1. IsPut(snapshot', snapshot, k, [at |-> now, data |-> d])
    BY <1>1, PutKeepsStock
  <2> QED BY <2>1 DEF IsPut
<1>3. \A x \in Keys : snapshot[x].at \in Nat /\ snapshot[x].at <= now
  BY <1>1, MomentIs DEF IsStock, FullTypeOK, StoreTypeOK
<1>4. \A x \in Keys : snapshot'[x].at = IF x = k THEN now ELSE snapshot[x].at
  BY <1>2
<1>5. lastSuccess' = [x \in Marked |-> snapshot'[x].at]
  <2>1. lastSuccess = [x \in Marked |-> snapshot[x].at]
    BY DEF FullTypeOK, StoreTypeOK
  <2> QED BY <1>4, <2>1, KeysAre
<1>6. snapshot'["account"].at > 0 => snapshot'["account"].data \subseteq Guilds
  <2>1. CASE k = "account"
    BY <1>2, <2>1
  <2>2. CASE k # "account"
    <3>1. snapshot'["account"] = snapshot["account"]
      BY <1>2, <2>2, KeysAre
    <3> QED BY <3>1 DEF FullTypeOK, StoreTypeOK
  <2> QED BY <2>1, <2>2
<1>7. \A x \in Keys : snapshot'[x].at <= now'
  BY <1>1, <1>3, <1>4
<1>8. Around
  BY <1>1, <1>3, <1>4 DEF Around
<1> QED BY <1>2, <1>5, <1>6, <1>7, <1>8 DEF StoreTypeOK

LEMMA StoreStep ==
    ASSUME FullTypeOK, NEW k \in Keys, k \in awake, NEW d, Store(k, d),
           k = "account" => d \subseteq Guilds,
           failures' \in 0..MaxFailures
    PROVE  FullTypeOK' /\ Around
<1>1. /\ now' = now /\ done' = done /\ member' = member /\ awake' = awake
      /\ tables' = tables /\ registered' = registered /\ exportVars' = exportVars
      /\ pc' = pc /\ series' = series /\ exported' = exported
  BY DEF Store, gameVars, exportVars
<1>2. StoreTypeOK' /\ Around
  BY <1>1, PutStep DEF Store
<1>3. CallbackTypeOK'
  BY <1>1 DEF FullTypeOK, CallbackTypeOK
<1> QED BY <1>1, <1>2, <1>3 DEF FullTypeOK

LEMMA PairIsFinite == ASSUME NEW a, NEW b PROVE IsFiniteSet({a, b})
<1>1. IsFiniteSet({a})
  BY FS_Singleton
<1>2. IsFiniteSet({a} \union {b})
  BY <1>1, FS_AddElement
<1>3. {a, b} = {a} \union {b}
  OBVIOUS
<1> QED BY <1>2, <1>3

(* The soft calls that fail are finitely many, and within the bound.       *)
LEMMA SoftCallsStep ==
    ASSUME FullTypeOK, NEW failed, IsFiniteSet(failed), SoftCalls(failed)
    PROVE  failures' \in 0..MaxFailures
  BY CollectionAssumption, FS_CardinalityType DEF FullTypeOK, SoftCalls

LEMMA PollStep ==
    ASSUME FullTypeOK, NEW k \in Keys, Poll(k)
    PROVE  FullTypeOK' /\ Around
<1>1. /\ failures \in 0..MaxFailures
      /\ "account" \in Keys /\ "story" \in Keys /\ "commerce" \in Keys
      /\ "guild" \in Keys /\ "value" \in Keys
  BY KeysAre DEF FullTypeOK
<1>2. CASE PollPlain(k)
  BY <1>1, <1>2, StoreStep, KeysAre DEF PollPlain, Polled
<1>3. CASE PollAccount
  <2>1. member \subseteq Guilds
    BY DEF FullTypeOK
  <2> QED BY <1>1, <1>3, <2>1, StoreStep DEF PollAccount, Polled
<1>4. CASE PollStory
  BY <1>1, <1>4, StoreStep DEF PollStory, Polled
<1>5. CASE PollCommerce
  <2>1. PICK failed \in SUBSET {"buys", "sells"} :
           /\ SoftCalls(failed)
           /\ Store("commerce", [side \in {"buys", "sells"} |-> side \notin failed])
    BY <1>5 DEF PollCommerce
  <2>2. IsFiniteSet(failed)
    <3>1. IsFiniteSet({"buys", "sells"})
      BY PairIsFinite
    <3> QED BY <3>1, FS_Subset
  <2>3. "commerce" \in awake
    BY <1>5 DEF PollCommerce, Polled
  <2> QED BY <1>1, <2>1, <2>2, <2>3, SoftCallsStep, StoreStep
<1>6. CASE PollGuild
  <2>1. PICK failed \in SUBSET ((GuildList \intersect Led) \X {"upgrades", "treasury"}) :
           /\ SoftCalls(failed)
           /\ Store("guild", [g \in GuildList |-> Internals(g, failed)])
    BY <1>6 DEF PollGuild
  <2>2. IsFiniteSet(failed)
    <3>2. IsFiniteSet({"upgrades", "treasury"})
      BY PairIsFinite
    <3>3. GuildList \intersect Led \in SUBSET Guilds
      BY CollectionAssumption
    <3>4. IsFiniteSet(GuildList \intersect Led)
      BY <3>3, CollectionAssumption, FS_Subset
    <3>5. IsFiniteSet((GuildList \intersect Led) \X {"upgrades", "treasury"})
      BY <3>2, <3>4, FS_Product
    <3> QED BY <3>5, FS_Subset
  <2>3. "guild" \in awake
    BY <1>6 DEF PollGuild, Polled
  <2> QED BY <1>1, <2>1, <2>2, <2>3, SoftCallsStep, StoreStep
<1>7. CASE PollValue
  <2>1. /\ now' = now /\ done' = done /\ member' = member /\ awake' = awake
        /\ tables' = tables /\ registered' = registered /\ exportVars' = exportVars
        /\ pc' = pc /\ series' = series /\ exported' = exported
        /\ "value" \in awake
    BY <1>7 DEF PollValue, Polled, exportVars
  <2>2. failures' \in 0..MaxFailures
    BY <1>1, <1>7, CollectionAssumption DEF PollValue
  <2>3. StoreTypeOK' /\ Around
    <3>1. CASE call = Len(Calls) + 1
      <4>1. /\ snapshot' = [snapshot EXCEPT !["value"] = [at |-> now, data |-> valued']]
            /\ lastSuccess' = [lastSuccess EXCEPT !["value"] = now]
        BY <1>7, <3>1 DEF PollValue
      <4> QED BY <1>1, <2>1, <4>1, PutStep, KeysAre
    <3>2. CASE call # Len(Calls) + 1
      <4>1. snapshot' = snapshot /\ lastSuccess' = lastSuccess
        BY <1>7, <3>2 DEF PollValue
      <4>2. StoreTypeOK'
        BY <2>1, <4>1 DEF FullTypeOK, StoreTypeOK
      <4> QED BY <2>1, <4>1, <4>2, Same
    <3> QED BY <3>1, <3>2
  <2>4. CallbackTypeOK'
    BY <2>1 DEF FullTypeOK, CallbackTypeOK
  <2> QED BY <2>1, <2>2, <2>3, <2>4 DEF FullTypeOK
<1> QED
  BY <1>2, <1>3, <1>4, <1>5, <1>6, <1>7 DEF Poll

LEMMA BesideStep ==
    ASSUME FullTypeOK,
           \/ Advance
           \/ \E q \in Quests : Complete(q)
           \/ \E g \in Guilds : Enrol(g)
           \/ PlayerMoves
           \/ \E k \in Keys : Poll(k)
           \/ Publish
    PROVE  FullTypeOK' /\ Around
<1>1. CASE Advance
  <2>1. /\ now < MaxTime /\ now' = now + 1 /\ done' = done /\ member' = member
        /\ awake' = awake /\ snapshot' = snapshot /\ lastSuccess' = lastSuccess
        /\ tables' = tables /\ registered' = registered /\ failures' = failures
        /\ exportVars' = exportVars
        /\ pc' = pc /\ series' = series /\ exported' = exported
    BY <1>1 DEF Advance, storeVars, exportVars
  <2>2. now \in Nat /\ now' \in Times /\ now <= now'
    BY <2>1, CollectionAssumption DEF FullTypeOK, Times
  <2>3. Present(now) \subseteq Present(now')
    <3> SUFFICES ASSUME NEW q \in Quests, Introduced[q] <= now
                 PROVE  Introduced[q] <= now'
      BY DEF Present
    <3>1. Introduced[q] \in Nat
      BY CollectionAssumption
    <3> QED BY <2>1, <2>2, <3>1
  <2>4. StoreTypeOK'
    <3>1. \A k \in Keys : snapshot[k].at \in Nat /\ snapshot[k].at <= now
      BY MomentIs DEF FullTypeOK, StoreTypeOK, IsStock
    <3>2. \A k \in Keys : snapshot[k].at <= now'
      BY <2>1, <2>2, <3>1
    <3> QED BY <2>1, <3>2 DEF FullTypeOK, StoreTypeOK
  <2>5. CallbackTypeOK'
    BY <2>1 DEF FullTypeOK, CallbackTypeOK
  <2>6. Around
    BY <2>1, Same
  <2> QED BY <2>1, <2>2, <2>3, <2>4, <2>5, <2>6 DEF FullTypeOK
<1>2. ASSUME NEW q \in Quests, Complete(q) PROVE FullTypeOK' /\ Around
  <2>1. /\ done' = done \union {q} /\ q \in Present(now)
        /\ now' = now /\ member' = member
        /\ awake' = awake /\ snapshot' = snapshot /\ lastSuccess' = lastSuccess
        /\ tables' = tables /\ registered' = registered /\ failures' = failures
        /\ exportVars' = exportVars
        /\ pc' = pc /\ series' = series /\ exported' = exported
    BY <1>2 DEF Complete, storeVars, exportVars
  <2>2. Around
    BY <2>1, Same
  <2>3. StoreTypeOK' /\ CallbackTypeOK'
    BY <2>1 DEF FullTypeOK, StoreTypeOK, CallbackTypeOK
  <2>4. done' \subseteq Present(now')
    BY <2>1 DEF FullTypeOK
  <2> QED BY <2>1, <2>2, <2>3, <2>4 DEF FullTypeOK
<1>3. ASSUME NEW g \in Guilds, Enrol(g) PROVE FullTypeOK' /\ Around
  <2>1. /\ member' = (IF g \in member THEN member \ {g} ELSE member \union {g})
        /\ now' = now /\ done' = done
        /\ awake' = awake /\ snapshot' = snapshot /\ lastSuccess' = lastSuccess
        /\ tables' = tables /\ registered' = registered /\ failures' = failures
        /\ exportVars' = exportVars
        /\ pc' = pc /\ series' = series /\ exported' = exported
    BY <1>3 DEF Enrol, storeVars, exportVars
  <2>2. Around
    BY <2>1, Same
  <2>3. StoreTypeOK' /\ CallbackTypeOK'
    BY <2>1 DEF FullTypeOK, StoreTypeOK, CallbackTypeOK
  <2>4. member' \subseteq Guilds
    BY <2>1 DEF FullTypeOK
  <2> QED BY <2>1, <2>2, <2>3, <2>4 DEF FullTypeOK
<1>4. CASE PlayerMoves
  <2>1. /\ now' = now /\ done' = done /\ member' = member
        /\ awake' = awake /\ snapshot' = snapshot /\ lastSuccess' = lastSuccess
        /\ tables' = tables /\ registered' = registered /\ failures' = failures
        /\ exportVars' = exportVars
        /\ pc' = pc /\ series' = series /\ exported' = exported
    BY <1>4 DEF PlayerMoves, exportVars
  <2>2. Around
    BY <2>1, Same
  <2>3. StoreTypeOK' /\ CallbackTypeOK'
    BY <2>1 DEF FullTypeOK, StoreTypeOK, CallbackTypeOK
  <2> QED BY <2>1, <2>2, <2>3 DEF FullTypeOK
<1>5. CASE Publish
  <2>1. PICK b \in (tables + 1)..now : tables' = b
    BY <1>5 DEF Publish
  <2>2. /\ now' = now /\ done' = done /\ member' = member
        /\ awake' = awake /\ snapshot' = snapshot /\ lastSuccess' = lastSuccess
        /\ registered' = registered /\ failures' = failures
        /\ exportVars' = exportVars
        /\ pc' = pc /\ series' = series /\ exported' = exported
    BY <1>5 DEF Publish, gameVars, storeVars, exportVars
  <2>3. tables' \in Moments /\ tables <= tables'
    <3>1. tables \in Nat /\ now \in Nat /\ now <= MaxTime
      BY MomentIs, CollectionAssumption DEF FullTypeOK, Times
    <3>2. tables' \in 1..MaxTime /\ tables <= tables'
      BY <2>1, <3>1, CollectionAssumption
    <3> QED BY <3>2 DEF Moments, Times
  <2>4. Around
    <3>1. \A k \in Keys : snapshot[k].at \in Nat
      BY MomentIs DEF FullTypeOK, StoreTypeOK, IsStock
    <3> QED BY <2>2, <2>3, <3>1 DEF Around
  <2>5. StoreTypeOK' /\ CallbackTypeOK'
    BY <2>2 DEF FullTypeOK, StoreTypeOK, CallbackTypeOK
  <2> QED BY <2>2, <2>3, <2>4, <2>5 DEF FullTypeOK
<1> QED
  BY <1>1, <1>2, <1>3, <1>4, <1>5, PollStep

(* What the reading under way reads, by its operation.                     *)
LEMMA WhatIsRead ==
    /\ At("get") => /\ pc \in 1..Len(Readings) /\ Of \in Keys
                    /\ Readings[pc] = Get(Of)
    /\ At("name") => /\ pc \in 1..Len(Readings) /\ Of \in Keys
                     /\ Readings[pc] = Name(Of)
                     /\ pc - 1 \in 1..Len(Readings) /\ Readings[pc - 1] = Get(Of)
    /\ At("season") => /\ pc \in 1..Len(Readings) /\ Of \in Quests
                       /\ Readings[pc] = Season(Of)
                       /\ \E m \in 1..Looked : pc = 24 + m /\ Of = Quest(m)
    /\ At("totals") => pc = 25 + Looked /\ Readings[pc] = Totals
    /\ At("stamps") => pc = Len(Readings) /\ Readings[pc] = Stamps
<1>1. CASE At("get")
  <2>1. pc \in 1..Len(Readings) /\ Readings[pc].op = "get"
    BY <1>1 DEF At
  <2>2. PICK k \in Keys : Readings[pc] = Get(k)
    BY <2>1, OpsOfReadings DEF IsGet
  <2>3. Of = k
    BY <2>2 DEF Of, Get
  <2> QED BY <2>1, <2>2, <2>3 DEF At
<1>2. CASE At("name")
  <2>1. pc \in 1..Len(Readings) /\ Readings[pc].op = "name"
    BY <1>2 DEF At
  <2>2. PICK k \in Keys : /\ Readings[pc] = Name(k)
                          /\ pc - 1 \in 1..Len(Readings)
                          /\ Readings[pc - 1] = Get(k)
    BY <2>1, OpsOfReadings DEF IsName
  <2>3. Of = k
    BY <2>2 DEF Of, Name
  <2> QED BY <2>1, <2>2, <2>3 DEF At
<1>3. CASE At("season")
  <2>1. pc \in 1..Len(Readings) /\ Readings[pc].op = "season"
    BY <1>3 DEF At
  <2>2. PICK m \in 1..Looked : pc = 24 + m /\ Readings[pc] = Season(Quest(m))
    BY <2>1, OpsOfReadings DEF IsSeason
  <2>3. Of = Quest(m) /\ Quest(m) \in Quests
    BY <2>2, QuestLookupsAre DEF Of, Season
  <2> QED BY <2>1, <2>2, <2>3 DEF At
<1>4. CASE At("totals")
  <2>1. pc \in 1..Len(Readings) /\ Readings[pc].op = "totals"
    BY <1>4 DEF At
  <2>2. pc = 25 + Looked
    BY <2>1, OpsOfReadings
  <2> QED BY <2>1, <2>2, ReadingsAre DEF At
<1>5. CASE At("stamps")
  <2>1. pc \in 1..Len(Readings) /\ Readings[pc].op = "stamps"
    BY <1>5 DEF At
  <2>2. pc = Len(Readings)
    BY <2>1, OpsOfReadings
  <2>3. Len(Readings) = 28 + Looked
    BY LengthIs
  <2> QED BY <2>1, <2>2, <2>3, ReadingsAre DEF At
<1> QED BY <1>1, <1>2, <1>3, <1>4, <1>5 DEF At

(* What one reading changes of an observation, and that it stays one.      *)
LEMMA ReadChange ==
    ASSUME NEW s, IsObservation(s), NEW r, IsStock(r),
           NEW t, t = [s EXCEPT !.read = r]
    PROVE  /\ IsObservation(t) /\ t.read = r
           /\ t.names = s.names /\ t.completed = s.completed
           /\ t.totals = s.totals /\ t.stamps = s.stamps
  BY DEF IsObservation

LEMMA NamesChange ==
    ASSUME NEW s, IsObservation(s), NEW k \in Keys,
           NEW t, t = [s EXCEPT !.names = @ \union {k}]
    PROVE  /\ IsObservation(t) /\ t.names = s.names \union {k}
           /\ t.read = s.read /\ t.completed = s.completed
           /\ t.totals = s.totals /\ t.stamps = s.stamps
  BY DEF IsObservation

LEMMA CompletedChange ==
    ASSUME NEW s, IsObservation(s), NEW f \in [Seasons -> Nat],
           NEW t, t = [s EXCEPT !.completed = f]
    PROVE  /\ IsObservation(t) /\ t.completed = f
           /\ t.read = s.read /\ t.names = s.names
           /\ t.totals = s.totals /\ t.stamps = s.stamps
  BY DEF IsObservation

LEMMA TotalsChange ==
    ASSUME NEW s, IsObservation(s), NEW f \in [Seasons -> Nat],
           NEW t, t = [s EXCEPT !.totals = f]
    PROVE  /\ IsObservation(t) /\ t.totals = f
           /\ t.read = s.read /\ t.names = s.names
           /\ t.completed = s.completed /\ t.stamps = s.stamps
  BY DEF IsObservation

LEMMA StampsChange ==
    ASSUME NEW s, IsObservation(s), NEW f \in [Marked -> Moments],
           NEW t, t = [s EXCEPT !.stamps = f]
    PROVE  /\ IsObservation(t) /\ t.stamps = f
           /\ t.read = s.read /\ t.names = s.names
           /\ t.completed = s.completed /\ t.totals = s.totals
  BY DEF IsObservation

(* What the callback copies of a stored snapshot.                          *)
LEMMA ObservedIs ==
    ASSUME FullTypeOK, NEW k \in Keys
    PROVE  /\ Observed(k) = [at |-> snapshot[k].at, data |-> Observed(k).data]
           /\ snapshot[k].at \in Moments
           /\ k # "account" => Observed(k) = snapshot[k]
<1> DEFINE e == snapshot[k]
<1>1. IsStock(snapshot)
  BY DEF FullTypeOK, StoreTypeOK
<1>2. e = [at |-> e.at, data |-> e.data] /\ e.at \in Moments
  <2> DEFINE g == [x \in Keys |-> [at |-> snapshot[x].at, data |-> snapshot[x].data]]
  <2>1. g[k] = [at |-> e.at, data |-> e.data] /\ snapshot = g
    BY <1>1 DEF IsStock
  <2> HIDE DEF g
  <2> QED BY <1>1, <2>1 DEF IsStock
<1>3. Observed(k) = IF k = "account" THEN [e EXCEPT !.data = NoData] ELSE e
  BY DEF Observed
<1> HIDE DEF e
<1>4. [e EXCEPT !.data = NoData] = [at |-> e.at, data |-> NoData]
  BY <1>2
<1> QED BY <1>2, <1>3, <1>4 DEF e

Still ==
    /\ UNCHANGED <<now, done, member, awake, snapshot, lastSuccess, tables,
                   failures>>
    /\ StoreTypeOK'

LEMMA StillIs ==
    ASSUME FullTypeOK, UNCHANGED <<gameVars, awake, storeVars, tables, failures>>
    PROVE  Still
  BY DEF FullTypeOK, StoreTypeOK, Still, gameVars, storeVars

LEMMA ObservesIs ==
    ASSUME FullTypeOK, NEW s, Observes(s), pc \in 1..Len(Readings)
    PROVE  /\ series' = s /\ pc' = After(pc) /\ pc' \in 0..End
           /\ exported' = exported /\ registered' = registered /\ Still
<1>1. /\ series' = s /\ pc' = After(pc) /\ exported' = exported
      /\ registered' = registered
      /\ UNCHANGED <<gameVars, awake, storeVars, tables, failures>>
  BY DEF Observes
<1>2. pc' \in 0..End
  <2>1. pc \in 0..End - 1 /\ End \in Nat
    BY LengthIs
  <2>2. After(pc) \in 1..End
    BY <2>1, AfterIs
  <2> QED BY <1>1, <2>1, <2>2
<1> QED BY <1>1, <1>2, StillIs

(* The five readings, as what they do to the observation.                  *)
LEMMA ReadSnapshotIs ==
    ASSUME FullTypeOK, ReadSnapshot
    PROVE  /\ Observes(series') /\ IsObservation(series')
           /\ IsPut(series'.read, series.read, Of, Observed(Of))
           /\ series'.names = series.names
           /\ series'.completed = series.completed
           /\ series'.totals = series.totals /\ series'.stamps = series.stamps
<1>1. Of \in Keys /\ series' = [series EXCEPT !.read[Of] = Observed(Of)]
  BY WhatIsRead DEF ReadSnapshot, Observes
<1>2. IsObservation(series) /\ IsStock(series.read)
  BY DEF FullTypeOK, CallbackTypeOK, IsObservation
<1> DEFINE r == [series.read EXCEPT ![Of] = Observed(Of)]
<1>3. IsPut(r, series.read, Of, Observed(Of))
  <2>1. Observed(Of) = [at |-> snapshot[Of].at, data |-> Observed(Of).data]
        /\ snapshot[Of].at \in Moments
    BY <1>1, ObservedIs
  <2>2. r = [series.read EXCEPT ![Of] = [at |-> snapshot[Of].at, data |-> Observed(Of).data]]
    BY <2>1
  <2> HIDE DEF r
  <2>3. IsPut(r, series.read, Of, [at |-> snapshot[Of].at, data |-> Observed(Of).data])
    BY <1>1, <1>2, <2>1, <2>2, PutKeepsStock
  <2> QED BY <2>1, <2>3
<1>4. series' = [series EXCEPT !.read = r]
  BY <1>1, <1>2 DEF IsObservation
<1>5. IsStock(r)
  BY <1>3 DEF IsPut
<1> HIDE DEF r
<1>6. /\ IsObservation(series') /\ series'.read = r
      /\ series'.names = series.names /\ series'.completed = series.completed
      /\ series'.totals = series.totals /\ series'.stamps = series.stamps
  BY <1>2, <1>4, <1>5, ReadChange
<1>7. Observes(series')
  BY DEF ReadSnapshot, Observes
<1> QED BY <1>3, <1>6, <1>7

Known(k) == series.read[k].at > 0 /\ tables > 0

LEMMA LookUpNameIs ==
    ASSUME FullTypeOK, LookUpName
    PROVE  /\ Observes(series') /\ IsObservation(series')
           /\ series'.names = IF Known(Of) THEN series.names \union {Of}
                                           ELSE series.names
           /\ series'.read = series.read
           /\ series'.completed = series.completed
           /\ series'.totals = series.totals /\ series'.stamps = series.stamps
<1>1. Of \in Keys /\ IsObservation(series)
  BY WhatIsRead DEF LookUpName, FullTypeOK, CallbackTypeOK
<1>2. series' = IF Known(Of) THEN [series EXCEPT !.names = @ \union {Of}]
                             ELSE series
  BY DEF LookUpName, Observes, Known
<1>3. Observes(series')
  BY DEF LookUpName, Observes
<1>4. CASE Known(Of)
  BY <1>1, <1>2, <1>3, <1>4, NamesChange
<1>5. CASE ~Known(Of)
  BY <1>1, <1>2, <1>3, <1>5
<1> QED BY <1>4, <1>5

Counted(q) ==
    /\ series.read["story"].at > 0
    /\ q \in series.read["story"].data
    /\ tables > 0
    /\ q \in Present(tables)

LEMMA LookUpSeasonIs ==
    ASSUME FullTypeOK, LookUpSeason
    PROVE  /\ Observes(series') /\ IsObservation(series')
           /\ Of \in Quests /\ SeasonOf[Of] \in Seasons
           /\ series'.completed =
                 IF Counted(Of) THEN [series.completed EXCEPT ![SeasonOf[Of]] = @ + 1]
                                ELSE series.completed
           /\ series'.read = series.read /\ series'.names = series.names
           /\ series'.totals = series.totals /\ series'.stamps = series.stamps
<1>1. Of \in Quests /\ IsObservation(series)
  BY WhatIsRead DEF LookUpSeason, FullTypeOK, CallbackTypeOK
<1>2. series' = IF Counted(Of)
                THEN [series EXCEPT !.completed[SeasonOf[Of]] = @ + 1]
                ELSE series
  BY DEF LookUpSeason, Observes, Counted
<1>3. Observes(series')
  BY DEF LookUpSeason, Observes
<1>4. SeasonOf[Of] \in Seasons
  BY <1>1 DEF Seasons
<1>5. CASE Counted(Of)
  <2> DEFINE f == [series.completed EXCEPT ![SeasonOf[Of]] = @ + 1]
  <2>1. f \in [Seasons -> Nat]
    BY <1>1, <1>4 DEF IsObservation
  <2>2. series' = [series EXCEPT !.completed = f]
    BY <1>1, <1>2, <1>5 DEF IsObservation
  <2>3. series'.completed = f => series'.completed =
           [series.completed EXCEPT ![SeasonOf[Of]] = @ + 1]
    OBVIOUS
  <2> HIDE DEF f
  <2>4. /\ IsObservation(series') /\ series'.completed = f
        /\ series'.read = series.read /\ series'.names = series.names
        /\ series'.totals = series.totals /\ series'.stamps = series.stamps
    BY <1>1, <2>1, <2>2, CompletedChange
  <2> QED BY <1>1, <1>3, <1>4, <1>5, <2>3, <2>4
<1>6. CASE ~Counted(Of)
  BY <1>1, <1>2, <1>3, <1>4, <1>6
<1> QED BY <1>5, <1>6

LEMMA SeasonTotalIsNat == ASSUME NEW t, NEW s PROVE SeasonTotal(t, s) \in Nat
<1> DEFINE T == {q \in Present(t) : SeasonOf[q] = s}
<1>1. T \in SUBSET Quests
  BY DEF Present
<1> HIDE DEF T
<1>2. Cardinality(T) \in Nat
  BY <1>1, CollectionAssumption, FS_Subset, FS_CardinalityType
<1> QED BY <1>2 DEF SeasonTotal, T

LEMMA ReadTotalsIs ==
    ASSUME FullTypeOK, ReadTotals
    PROVE  /\ Observes(series') /\ IsObservation(series')
           /\ tables # 0 => \A s \in Seasons : series'.totals[s] = SeasonTotal(tables, s)
           /\ series'.read = series.read /\ series'.names = series.names
           /\ series'.completed = series.completed
           /\ series'.stamps = series.stamps
<1> DEFINE f == [s \in Seasons |-> SeasonTotal(tables, s)]
<1>1. IsObservation(series)
  BY DEF FullTypeOK, CallbackTypeOK
<1>2. series' = IF tables = 0 THEN series ELSE [series EXCEPT !.totals = f]
  BY DEF ReadTotals, Observes
<1>3. Observes(series')
  BY DEF ReadTotals, Observes
<1>4. f \in [Seasons -> Nat] /\ \A s \in Seasons : f[s] = SeasonTotal(tables, s)
  BY SeasonTotalIsNat
<1> HIDE DEF f
<1>5. CASE tables = 0
  BY <1>1, <1>2, <1>3, <1>5
<1>6. CASE tables # 0
  <2>1. /\ IsObservation(series') /\ series'.totals = f
        /\ series'.read = series.read /\ series'.names = series.names
        /\ series'.completed = series.completed
        /\ series'.stamps = series.stamps
    BY <1>1, <1>2, <1>4, <1>6, TotalsChange
  <2> QED BY <1>3, <1>4, <2>1
<1> QED BY <1>5, <1>6

LEMMA ReadStampsIs ==
    ASSUME FullTypeOK, ReadStamps
    PROVE  /\ Observes(series') /\ IsObservation(series')
           /\ series'.stamps = [k \in Marked |-> snapshot[k].at]
           /\ series'.read = series.read /\ series'.names = series.names
           /\ series'.completed = series.completed
           /\ series'.totals = series.totals
<1>1. IsObservation(series) /\ lastSuccess = [k \in Marked |-> snapshot[k].at]
      /\ IsStock(snapshot)
  BY DEF FullTypeOK, CallbackTypeOK, StoreTypeOK
<1>2. series' = [series EXCEPT !.stamps = lastSuccess] /\ Observes(series')
  BY DEF ReadStamps, Observes
<1>3. lastSuccess \in [Marked -> Moments]
  BY <1>1, KeysAre DEF IsStock
<1> QED BY <1>1, <1>2, <1>3, StampsChange

LEMMA ReadingStep ==
    ASSUME FullTypeOK, Reading
    PROVE  /\ FullTypeOK' /\ Still /\ exported' = exported
           /\ pc \in 1..Len(Readings) /\ pc' = After(pc)
<1>1. pc \in 1..Len(Readings)
  BY DEF Reading, ReadSnapshot, LookUpName, LookUpSeason, ReadTotals,
         ReadStamps, At
<1>2. Observes(series') /\ IsObservation(series')
  BY ReadSnapshotIs, LookUpNameIs, LookUpSeasonIs, ReadTotalsIs, ReadStampsIs
     DEF Reading
<1>3. /\ pc' = After(pc) /\ pc' \in 0..End /\ exported' = exported
      /\ registered' = registered /\ Still
  BY <1>1, <1>2, ObservesIs
<1>4. CallbackTypeOK'
  BY <1>2, <1>3 DEF FullTypeOK, CallbackTypeOK
<1>5. FullTypeOK'
  BY <1>3, <1>4 DEF FullTypeOK, Still
<1> QED BY <1>1, <1>3, <1>5

(* The steps that start and end a collection, and the ones that leave all  *)
(* of this alone.                                                          *)
LEMMA CollectIs ==
    ASSUME FullTypeOK, Collect
    PROVE  /\ FullTypeOK' /\ Still /\ exported' = exported
           /\ pc = 0 /\ pc' = After(0) /\ series' = Nothing
<1>1. /\ pc = 0 /\ pc' = After(0) /\ series' = Nothing /\ exported' = exported
      /\ registered' = registered /\ Still
  BY StillIs DEF Collect
<1>2. pc' \in 0..End
  <2>1. 0 \in 0..End - 1 /\ End \in Nat
    BY LengthIs
  <2>2. After(0) \in 1..End
    BY <2>1, AfterIs
  <2> QED BY <1>1, <2>1, <2>2
<1>3. CallbackTypeOK'
  BY <1>1, <1>2, NothingIsObservation DEF FullTypeOK, CallbackTypeOK
<1> QED BY <1>1, <1>3 DEF FullTypeOK, Still

LEMMA ExportIs ==
    ASSUME FullTypeOK, Export
    PROVE  /\ FullTypeOK' /\ Still /\ exported' = series
           /\ pc = End /\ pc' = 0 /\ series' = Nothing
<1>1. /\ pc = End /\ pc' = 0 /\ series' = Nothing /\ exported' = series
      /\ registered' = registered /\ Still
  BY StillIs DEF Export
<1>2. pc' \in 0..End
  BY <1>1, LengthIs
<1>3. CallbackTypeOK'
  BY <1>1, <1>2, NothingIsObservation DEF FullTypeOK, CallbackTypeOK
<1> QED BY <1>1, <1>3 DEF FullTypeOK, Still

LEMMA IdleStep ==
    ASSUME FullTypeOK, Unregister \/ Ended \/ UNCHANGED vars
    PROVE  FullTypeOK' /\ Around
<1>1. /\ now' = now /\ done' = done /\ member' = member
      /\ awake' = awake /\ snapshot' = snapshot /\ lastSuccess' = lastSuccess
      /\ tables' = tables /\ failures' = failures
      /\ exportVars' = exportVars
      /\ pc' = pc /\ series' = series /\ exported' = exported
  BY DEF Unregister, Ended, vars, gameVars, storeVars, exportVars
<1>2. registered' \in BOOLEAN
  BY DEF FullTypeOK, Unregister, Ended, vars
<1>3. StoreTypeOK' /\ CallbackTypeOK'
  BY <1>1 DEF FullTypeOK, StoreTypeOK, CallbackTypeOK
<1>4. Around
  BY <1>1, Same
<1> QED BY <1>1, <1>2, <1>3, <1>4 DEF FullTypeOK

(* Every step of Collection is one beside the callback, or one of it.      *)
LEMMA StepsAre ==
    ASSUME FullTypeOK, [Next]_vars
    PROVE  FullTypeOK' /\ (Around \/ Collect \/ Reading \/ Export)
<1>1. CASE \/ Advance
           \/ \E q \in Quests : Complete(q)
           \/ \E g \in Guilds : Enrol(g)
           \/ PlayerMoves
           \/ \E k \in Keys : Poll(k)
           \/ Publish
  BY <1>1, BesideStep
<1>2. CASE Collect
  BY <1>2, CollectIs
<1>3. CASE Reading
  BY <1>3, ReadingStep
<1>4. CASE Export
  BY <1>4, ExportIs
<1>5. CASE Unregister \/ Ended \/ UNCHANGED vars
  BY <1>5, IdleStep
<1> QED BY <1>1, <1>2, <1>3, <1>4, <1>5 DEF Next

LEMMA FullTypeInvariant == Spec => []FullTypeOK
<1>1. FullTypeOK /\ [Next]_vars => FullTypeOK'
  BY StepsAre
<1> QED BY <1>1, InitHasType, PTL DEF Spec

(* Types, for any polls, quests, guilds, items and bounds; among them that *)
(* a key's timestamp is the time of what is stored under it, since a       *)
(* setter writes both under one lock (store.go:112-346).                   *)
THEOREM TypeCorrect == Spec => []TypeOK
  BY FullTypeInvariant, FullTypeGivesType, PTL

-----------------------------------------------------------------------------
(* Data and timestamps.  What was read is no newer than what is stored,    *)
(* what was claimed no newer either; a key whose getter the callback has   *)
(* passed was read no older than the last export claimed.                  *)
StampOrder ==
    /\ \A k \in Keys : /\ series.read[k].at <= snapshot[k].at
                       /\ snapshot[k].at > 0 => k \in awake
    /\ \A k \in Marked : /\ exported.stamps[k] <= snapshot[k].at
                         /\ series.stamps[k] <= snapshot[k].at
    /\ \A k \in Marked : \A n \in Text :
          n < pc /\ Readings[n] = Get(k) => exported.stamps[k] <= series.read[k].at
    /\ pc = End => \A k \in Marked : series.read[k].at <= series.stamps[k]

LEMMA NothingIs ==
    /\ \A k \in Keys : Nothing.read[k].at = 0
    /\ \A k \in Marked : Nothing.stamps[k] = 0
    /\ \A s \in Seasons : Nothing.completed[s] = 0 /\ Nothing.totals[s] = 0
    /\ Nothing.names = {}
  BY DEF Nothing, Absent

LEMMA TimesAreNat ==
    ASSUME FullTypeOK
    PROVE  /\ \A k \in Keys : /\ snapshot[k].at \in Nat
                              /\ series.read[k].at \in Nat
                              /\ exported.read[k].at \in Nat
           /\ \A k \in Marked : /\ series.stamps[k] \in Nat
                                /\ exported.stamps[k] \in Nat
           /\ tables \in Nat /\ pc \in Nat
<1>1. Moments \subseteq Nat
  BY MomentIs
<1>2. IsStock(snapshot) /\ IsStock(series.read) /\ IsStock(exported.read)
      /\ series.stamps \in [Marked -> Moments]
      /\ exported.stamps \in [Marked -> Moments]
  BY DEF FullTypeOK, StoreTypeOK, CallbackTypeOK, IsObservation
<1>3. tables \in Moments /\ pc \in 0..End
  BY DEF FullTypeOK, CallbackTypeOK
<1>4. pc \in Nat
  BY <1>3, LengthIs
<1> QED BY <1>1, <1>2, <1>3, <1>4 DEF IsStock

LEMMA InitHasStampOrder == Init => StampOrder
<1> SUFFICES ASSUME Init PROVE StampOrder
  OBVIOUS
<1>1. /\ pc = 0 /\ series = Nothing /\ exported = Nothing
      /\ \A k \in Keys : snapshot[k].at = 0
  BY DEF Init, Absent
<1>2. \A n \in Text : ~(n < 0)
  BY DEF Text
<1> QED BY <1>1, <1>2, NothingIs, LengthIs, KeysAre DEF StampOrder

LEMMA TextIs ==
    /\ Text \subseteq 1..Len(Readings)
    /\ Len(Readings) \in Text
    /\ \A k \in Keys : \A n \in 1..Len(Readings) :
          k \in awake /\ (Readings[n] = Get(k) \/ Readings[n] = Name(k)) => n \in Text
    /\ "story" \in awake => 25 + Looked \in Text
    /\ \A n \in Text : \A k \in Keys :
          Readings[n] = Get(k) \/ Readings[n] = Name(k) => k \in awake \union {"all"}
<1>1. /\ Len(Readings) \in 1..Len(Readings) /\ Readings[Len(Readings)] = Stamps
      /\ 25 + Looked \in 1..Len(Readings) /\ Readings[25 + Looked] = Totals
  <2>1. /\ Len(Readings) \in 1..Len(Readings) /\ Len(Readings) = 28 + Looked
        /\ 25 + Looked \in 1..Len(Readings)
    BY LengthIs
  <2> QED BY <2>1, ReadingsAre
<1>2. Stamps.key = "all" /\ Totals.key = "story"
  BY DEF Stamps, Totals
<1>3. \A k : Get(k).key = k /\ Name(k).key = k
  BY DEF Get, Name
<1>4. \A n : n \in Text <=> n \in 1..Len(Readings) /\ Readings[n].key \in awake \union {"all"}
  BY DEF Text
<1> QED BY <1>1, <1>2, <1>3, <1>4

LEMMA PassedBy ==
    ASSUME pc \in 1..Len(Readings), pc' = After(pc), awake' = awake
    PROVE  /\ Text' = Text
           /\ \A n \in Text : n < pc' => n < pc \/ n = pc
           /\ pc' = End => pc = Len(Readings)
<1>1. Text' = Text
  BY DEF Text
<1>2. pc \in 0..End - 1 /\ Len(Readings) < End /\ Len(Readings) \in Nat /\ pc \in Nat
  BY LengthIs
<1>3. \A n \in Text : n < pc' => n <= pc
  BY <1>2, AfterIs
<1>4. \A n \in Text : n \in Nat
  BY TextIs, <1>2
<1>5. \A n \in Text : n < pc' => n < pc \/ n = pc
  BY <1>2, <1>3, <1>4
<1>6. pc' = End => pc = Len(Readings)
  BY <1>2, <1>3, TextIs
<1> QED BY <1>1, <1>5, <1>6

LEMMA StampOrderStep ==
    ASSUME FullTypeOK, StampOrder, [Next]_vars
    PROVE  StampOrder'
<1>1. FullTypeOK'
  BY StepsAre
<1>2. CASE Around
  <2>1. /\ pc' = pc /\ series' = series /\ exported' = exported /\ awake' = awake
        /\ \A k \in Keys : /\ snapshot[k].at <= snapshot'[k].at
                           /\ snapshot'[k].at # snapshot[k].at => k \in awake
        /\ Text' = Text
    BY <1>2 DEF Around, exportVars, Text
  <2>2. \A k \in Keys : snapshot[k].at \in Nat /\ snapshot'[k].at \in Nat
    BY <1>1, MomentIs DEF FullTypeOK, StoreTypeOK, IsStock
  <2>3. \A k \in Keys : /\ series'.read[k].at <= snapshot'[k].at
                        /\ snapshot'[k].at > 0 => k \in awake'
    BY <2>1, <2>2, TimesAreNat DEF StampOrder
  <2>4. \A k \in Marked : /\ exported'.stamps[k] <= snapshot'[k].at
                          /\ series'.stamps[k] <= snapshot'[k].at
    BY <2>1, <2>2, TimesAreNat, KeysAre DEF StampOrder
  <2> QED BY <2>1, <2>3, <2>4 DEF StampOrder
<1>3. CASE Collect
  <2>1. /\ pc' = After(0) /\ series' = Nothing /\ exported' = exported
        /\ awake' = awake /\ snapshot' = snapshot
    BY <1>3, CollectIs DEF Still
  <2>2. Text' = Text
    BY <2>1 DEF Text
  <2>3. \A n \in Text : ~(n < pc')
    <3>1. 0 \in 0..End - 1
      BY LengthIs
    <3>2. \A n \in Text : n < After(0) => n <= 0
      BY <3>1, AfterIs
    <3>3. \A n \in Text : ~(n <= 0)
      BY TextIs, LengthIs
    <3> QED BY <2>1, <3>2, <3>3
  <2>4. \A k \in Keys : snapshot[k].at \in Nat
    BY TimesAreNat
  <2>5. \A k \in Marked : series'.read[k].at <= series'.stamps[k]
    BY <2>1, NothingIs, KeysAre
  <2>6. \A k \in Keys : series'.read[k].at <= snapshot[k].at
    BY <2>1, <2>4, NothingIs
  <2>7. \A k \in Marked : series'.stamps[k] <= snapshot[k].at
    BY <2>1, <2>4, NothingIs, KeysAre
  <2> QED BY <2>1, <2>2, <2>3, <2>5, <2>6, <2>7 DEF StampOrder
<1>4. CASE Reading
  <2>1. /\ exported' = exported /\ awake' = awake /\ snapshot' = snapshot
        /\ pc \in 1..Len(Readings) /\ pc' = After(pc)
    BY <1>4, ReadingStep DEF Still
  <2>2. /\ Text' = Text
        /\ \A n \in Text : n < pc' => n < pc \/ n = pc
        /\ pc' = End => pc = Len(Readings)
    BY <2>1, PassedBy
  <2>3. \A k \in Keys : \/ series'.read[k] = series.read[k]
                        \/ series'.read[k].at = snapshot[k].at
    <3>1. CASE ReadSnapshot
      <4>1. IsPut(series'.read, series.read, Of, Observed(Of)) /\ Of \in Keys
        BY <3>1, ReadSnapshotIs, WhatIsRead DEF ReadSnapshot
      <4>2. Observed(Of).at = snapshot[Of].at
        BY <4>1, ObservedIs
      <4> QED BY <4>1, <4>2 DEF IsPut
    <3>2. CASE ~ReadSnapshot
      <4>1. series'.read = series.read
        BY <1>4, <3>2, LookUpNameIs, LookUpSeasonIs, ReadTotalsIs, ReadStampsIs
           DEF Reading
      <4> QED BY <4>1
    <3> QED BY <3>1, <3>2
  <2>4. \A k \in Keys : Readings[pc] = Get(k) => series'.read[k].at = snapshot[k].at
    <3> SUFFICES ASSUME NEW k \in Keys, Readings[pc] = Get(k)
                 PROVE  series'.read[k].at = snapshot[k].at
      OBVIOUS
    <3>1. Readings[pc].op = "get" /\ Of = k
      BY DEF Get, Of
    <3>2. ReadSnapshot
      BY <1>4, <3>1 DEF Reading, LookUpName, LookUpSeason, ReadTotals,
                        ReadStamps, At
    <3>3. IsPut(series'.read, series.read, Of, Observed(Of))
      BY <3>2, ReadSnapshotIs
    <3>4. Observed(Of).at = snapshot[Of].at
      BY <3>1, ObservedIs
    <3> QED BY <3>1, <3>3, <3>4 DEF IsPut
  <2>5. \A k \in Marked : \/ series'.stamps[k] = series.stamps[k]
                          \/ series'.stamps[k] = snapshot[k].at
    <3>1. CASE ReadStamps
      BY <3>1, ReadStampsIs
    <3>2. CASE ~ReadStamps
      <4>1. series'.stamps = series.stamps
        BY <1>4, <3>2, ReadSnapshotIs, LookUpNameIs, LookUpSeasonIs, ReadTotalsIs
           DEF Reading
      <4> QED BY <4>1
    <3> QED BY <3>1, <3>2
  <2>6. pc = Len(Readings) =>
           /\ \A k \in Marked : series'.stamps[k] = snapshot[k].at
           /\ series'.read = series.read
    <3> SUFFICES ASSUME pc = Len(Readings)
                 PROVE  /\ \A k \in Marked : series'.stamps[k] = snapshot[k].at
                        /\ series'.read = series.read
      OBVIOUS
    <3>1. Readings[pc].op = "stamps"
      BY ReadingsAre DEF Stamps
    <3>2. ReadStamps
      BY <1>4, <3>1 DEF Reading, ReadSnapshot, LookUpName, LookUpSeason,
                        ReadTotals, At
    <3> QED BY <3>2, ReadStampsIs
  <2>7. /\ \A k \in Keys : snapshot[k].at \in Nat /\ series.read[k].at \in Nat
        /\ \A k \in Marked : exported.stamps[k] \in Nat /\ k \in Keys
    BY TimesAreNat, KeysAre
  <2>8. \A k \in Keys : series'.read[k].at <= snapshot'[k].at
    BY <2>1, <2>3, <2>7 DEF StampOrder
  <2>9. \A k \in Marked : series'.stamps[k] <= snapshot'[k].at
    BY <2>1, <2>5, <2>7 DEF StampOrder
  <2>10. ASSUME NEW k \in Marked, NEW n \in Text, n < pc', Readings[n] = Get(k)
         PROVE  exported'.stamps[k] <= series'.read[k].at
    <3>1. k \in Keys /\ exported'.stamps[k] = exported.stamps[k]
      BY <2>1, <2>7
    <3>2. CASE n = pc
      <4>1. series'.read[k].at = snapshot[k].at
        BY <2>4, <2>10, <3>1, <3>2
      <4> QED BY <3>1, <4>1 DEF StampOrder
    <3>3. CASE n < pc
      <4>1. exported.stamps[k] <= series.read[k].at
        BY <2>10, <3>3 DEF StampOrder
      <4>2. exported.stamps[k] <= snapshot[k].at
        BY DEF StampOrder
      <4> QED BY <2>3, <3>1, <4>1, <4>2
    <3> QED BY <2>2, <2>10, <3>2, <3>3
  <2>11. pc' = End => \A k \in Marked : series'.read[k].at <= series'.stamps[k]
    BY <2>2, <2>6, <2>7 DEF StampOrder
  <2>12. \A k \in Keys : snapshot'[k].at > 0 => k \in awake'
    BY <2>1 DEF StampOrder
  <2>13. \A k \in Marked : exported'.stamps[k] <= snapshot'[k].at
    BY <2>1 DEF StampOrder
  <2> QED BY <2>2, <2>8, <2>9, <2>10, <2>11, <2>12, <2>13 DEF StampOrder
<1>5. CASE Export
  <2>1. /\ pc' = 0 /\ series' = Nothing /\ exported' = series
        /\ awake' = awake /\ snapshot' = snapshot
    BY <1>5, ExportIs DEF Still
  <2>2. Text' = Text /\ \A n \in Text : ~(n < pc')
    BY <2>1, TextIs, LengthIs DEF Text
  <2>3. pc' # End
    BY <2>1, LengthIs
  <2>4. \A k \in Keys : snapshot[k].at \in Nat
    BY TimesAreNat
  <2>5. \A k \in Keys : series'.read[k].at <= snapshot[k].at
    BY <2>1, <2>4, NothingIs
  <2>6. \A k \in Marked : series'.stamps[k] <= snapshot[k].at
    BY <2>1, <2>4, NothingIs, KeysAre
  <2> QED BY <2>1, <2>2, <2>3, <2>5, <2>6 DEF StampOrder
<1> QED BY <1>2, <1>3, <1>4, <1>5, StepsAre

(* An export changes only when the callback returns.                       *)
LEMMA OnlyExportExports ==
    ASSUME FullTypeOK, [Next]_vars, exported' # exported
    PROVE  /\ pc = End /\ exported' = series
<1>1. ~Around
  BY DEF Around, exportVars
<1>2. ~Collect /\ ~Reading
  BY CollectIs, ReadingStep
<1> QED BY <1>1, <1>2, StepsAre, ExportIs

LEMMA BracketStep ==
    ASSUME FullTypeOK, StampOrder, [Next]_vars, exported' # exported,
           NEW k \in Marked
    PROVE  /\ exported'.read[k].at <= exported'.stamps[k]
           /\ exported.stamps[k] <= exported'.read[k].at
<1>1. pc = End /\ exported' = series
  BY OnlyExportExports
<1>2. exported'.read[k].at <= exported'.stamps[k]
  BY <1>1 DEF StampOrder
<1>3. k \in Keys
  BY KeysAre
<1>4. CASE k \in awake
  <2>1. PICK n \in 1..Len(Readings) : Readings[n] = Get(k)
    BY <1>3, EveryKeyIsRead
  <2>2. n \in Text /\ n < pc
    BY <1>1, <1>3, <1>4, <2>1, TextIs, LengthIs
  <2> QED BY <1>1, <1>2, <2>1, <2>2 DEF StampOrder
<1>5. CASE k \notin awake
  <2>1. snapshot[k].at \in Nat /\ series.read[k].at \in Nat
        /\ exported.stamps[k] \in Nat
    BY <1>3, TimesAreNat
  <2>2. snapshot[k].at = 0
    BY <1>3, <1>5, <2>1 DEF StampOrder
  <2>3. exported.stamps[k] <= 0
    BY <2>2 DEF StampOrder
  <2> QED BY <1>1, <1>2, <2>1, <2>3
<1> QED BY <1>4, <1>5

LEMMA StampInvariant == Spec => [](FullTypeOK /\ StampOrder)
<1>1. FullTypeOK /\ StampOrder /\ [Next]_vars => (FullTypeOK /\ StampOrder)'
  BY StepsAre, StampOrderStep
<1> QED BY <1>1, InitHasType, InitHasStampOrder, PTL DEF Spec

(* Data never comes without its timestamp, and the next export has what a  *)
(* timestamp claims: the callback reads the data first and the timestamps  *)
(* last (metrics.go:518, 843-846).                                         *)
THEOREM TimestampsBracketData == Spec => StampsBracketData
<1>1. FullTypeOK /\ StampOrder /\ [Next]_vars =>
        [exported' # exported =>
            \A k \in Marked : /\ exported'.read[k].at <= exported'.stamps[k]
                              /\ exported.stamps[k] <= exported'.read[k].at]_vars
  BY BracketStep
<1> QED BY <1>1, StampInvariant, PTL DEF Spec, StampsBracketData

-----------------------------------------------------------------------------
(* Names.  What had its name once is stored and has tables to be named by; *)
(* it is read with something to name, and keeps its name.                  *)
NameOrder ==
    /\ \A k \in exported.names \union series.names :
          /\ tables > 0 /\ snapshot[k].at > 0
          /\ \E n \in 1..Len(Readings) : Readings[n] = Name(k)
    /\ \A k \in exported.names : \A n \in Text :
          n < pc /\ Readings[n] = Get(k) => series.read[k].at > 0
    /\ \A k \in exported.names : \A n \in Text :
          n < pc /\ Readings[n] = Name(k) => k \in series.names

LEMMA InitHasNameOrder == Init => NameOrder
  BY NothingIs DEF Init, NameOrder

LEMMA NamesAreKeys ==
    ASSUME FullTypeOK
    PROVE  exported.names \subseteq Keys /\ series.names \subseteq Keys
  BY DEF FullTypeOK, CallbackTypeOK, IsObservation

LEMMA NameOrderStep ==
    ASSUME FullTypeOK, StampOrder, NameOrder, [Next]_vars
    PROVE  NameOrder'
<1>1. FullTypeOK'
  BY StepsAre
<1>2. CASE Around
  <2>1. /\ pc' = pc /\ series' = series /\ exported' = exported
        /\ tables <= tables' /\ Text' = Text
        /\ \A k \in Keys : snapshot[k].at <= snapshot'[k].at
    BY <1>2 DEF Around, exportVars, Text
  <2>2. /\ \A k \in Keys : snapshot[k].at \in Nat /\ snapshot'[k].at \in Nat
        /\ tables \in Nat /\ tables' \in Nat
    BY <1>1, MomentIs DEF FullTypeOK, StoreTypeOK, IsStock
  <2>3. \A k \in exported'.names \union series'.names :
           /\ tables' > 0 /\ snapshot'[k].at > 0
           /\ \E n \in 1..Len(Readings) : Readings[n] = Name(k)
    BY <2>1, <2>2, NamesAreKeys DEF NameOrder
  <2> QED BY <2>1, <2>3 DEF NameOrder
<1>3. CASE Collect
  <2>1. /\ pc' = After(0) /\ series' = Nothing /\ exported' = exported
        /\ awake' = awake /\ snapshot' = snapshot /\ tables' = tables
    BY <1>3, CollectIs DEF Still
  <2>2. Text' = Text
    BY <2>1 DEF Text
  <2>3. \A n \in Text : ~(n < pc')
    <3>1. 0 \in 0..End - 1
      BY LengthIs
    <3>2. \A n \in Text : n < After(0) => n <= 0
      BY <3>1, AfterIs
    <3>3. \A n \in Text : ~(n <= 0)
      BY TextIs, LengthIs
    <3> QED BY <2>1, <3>2, <3>3
  <2> QED BY <2>1, <2>2, <2>3, NothingIs DEF NameOrder
<1>4. CASE Reading
  <2>1. /\ exported' = exported /\ awake' = awake /\ snapshot' = snapshot
        /\ tables' = tables
        /\ pc \in 1..Len(Readings) /\ pc' = After(pc)
    BY <1>4, ReadingStep DEF Still
  <2>2. /\ Text' = Text
        /\ \A n \in Text : n < pc' => n < pc \/ n = pc
    BY <2>1, PassedBy
  <2>3. \A k \in Keys : \/ series'.read[k] = series.read[k]
                        \/ series'.read[k].at = snapshot[k].at
    <3>1. CASE ReadSnapshot
      <4>1. IsPut(series'.read, series.read, Of, Observed(Of)) /\ Of \in Keys
        BY <3>1, ReadSnapshotIs, WhatIsRead DEF ReadSnapshot
      <4>2. Observed(Of).at = snapshot[Of].at
        BY <4>1, ObservedIs
      <4> QED BY <4>1, <4>2 DEF IsPut
    <3>2. CASE ~ReadSnapshot
      <4>1. series'.read = series.read
        BY <1>4, <3>2, LookUpNameIs, LookUpSeasonIs, ReadTotalsIs, ReadStampsIs
           DEF Reading
      <4> QED BY <4>1
    <3> QED BY <3>1, <3>2
  <2>4. \A k \in Keys : Readings[pc] = Get(k) => series'.read[k].at = snapshot[k].at
    <3> SUFFICES ASSUME NEW k \in Keys, Readings[pc] = Get(k)
                 PROVE  series'.read[k].at = snapshot[k].at
      OBVIOUS
    <3>1. Readings[pc].op = "get" /\ Of = k
      BY DEF Get, Of
    <3>2. ReadSnapshot
      BY <1>4, <3>1 DEF Reading, LookUpName, LookUpSeason, ReadTotals,
                        ReadStamps, At
    <3>3. IsPut(series'.read, series.read, Of, Observed(Of))
      BY <3>2, ReadSnapshotIs
    <3>4. Observed(Of).at = snapshot[Of].at
      BY <3>1, ObservedIs
    <3> QED BY <3>1, <3>3, <3>4 DEF IsPut
  <2>5. \A k \in series'.names : k \in series.names \/ (LookUpName /\ k = Of /\ Known(k))
    <3>1. CASE LookUpName
      BY <3>1, LookUpNameIs
    <3>2. CASE ~LookUpName
      <4>1. series'.names = series.names
        BY <1>4, <3>2, ReadSnapshotIs, LookUpSeasonIs, ReadTotalsIs, ReadStampsIs
           DEF Reading
      <4> QED BY <4>1
    <3> QED BY <3>1, <3>2
  <2>6. series.names \subseteq series'.names
    <3>1. CASE LookUpName
      BY <3>1, LookUpNameIs
    <3>2. CASE ~LookUpName
      BY <1>4, <3>2, ReadSnapshotIs, LookUpSeasonIs, ReadTotalsIs, ReadStampsIs
         DEF Reading
    <3> QED BY <3>1, <3>2
  <2>7. ASSUME NEW k \in exported'.names \union series'.names
        PROVE  /\ tables' > 0 /\ snapshot'[k].at > 0
               /\ \E n \in 1..Len(Readings) : Readings[n] = Name(k)
    <3>1. CASE k \in exported.names \union series.names
      BY <2>1, <3>1 DEF NameOrder
    <3>2. CASE LookUpName /\ k = Of /\ Known(k)
      <4>1. k \in Keys /\ Readings[pc] = Name(k)
        BY <3>2, WhatIsRead DEF LookUpName
      <4>2. series.read[k].at \in Nat /\ snapshot[k].at \in Nat
            /\ series.read[k].at <= snapshot[k].at
        BY <4>1, TimesAreNat DEF StampOrder
      <4>3. snapshot[k].at > 0 /\ tables > 0
        BY <3>2, <4>2 DEF Known
      <4> QED BY <2>1, <4>1, <4>3
    <3> QED BY <2>1, <2>5, <2>7, <3>1, <3>2
  <2>8. ASSUME NEW k \in exported'.names, NEW n \in Text, n < pc',
               Readings[n] = Get(k)
        PROVE  series'.read[k].at > 0
    <3>1. k \in exported.names /\ k \in Keys /\ snapshot[k].at > 0
      BY <2>1, NamesAreKeys DEF NameOrder
    <3>2. CASE n = pc
      <4>1. series'.read[k].at = snapshot[k].at
        BY <2>4, <2>8, <3>1, <3>2
      <4> QED BY <3>1, <4>1
    <3>3. CASE n < pc
      <4>1. series.read[k].at > 0
        BY <2>8, <3>1, <3>3 DEF NameOrder
      <4> QED BY <2>3, <3>1, <4>1
    <3> QED BY <2>2, <2>8, <3>2, <3>3
  <2>9. ASSUME NEW k \in exported'.names, NEW n \in Text, n < pc',
               Readings[n] = Name(k)
        PROVE  k \in series'.names
    <3>1. k \in exported.names /\ k \in Keys /\ tables > 0
      BY <2>1, NamesAreKeys DEF NameOrder
    <3>2. CASE n = pc
      <4>1. Readings[pc].op = "name" /\ Of = k
        BY <2>9, <3>2 DEF Name, Of
      <4>2. LookUpName
        BY <1>4, <4>1 DEF Reading, ReadSnapshot, LookUpSeason, ReadTotals,
                          ReadStamps, At
      <4>3. pc - 1 \in 1..Len(Readings) /\ Readings[pc - 1] = Get(k)
        BY <4>1, <4>2, WhatIsRead DEF LookUpName
      <4>4. k \in awake
        <5>1. snapshot[k].at > 0
          BY <3>1 DEF NameOrder
        <5> QED BY <3>1, <5>1 DEF StampOrder
      <4>5. pc - 1 \in Text /\ pc - 1 < pc
        BY <2>1, <3>1, <4>3, <4>4, TextIs, LengthIs
      <4>6. series.read[k].at > 0
        BY <3>1, <4>3, <4>5 DEF NameOrder
      <4> QED BY <3>1, <4>1, <4>2, <4>6, LookUpNameIs DEF Known
    <3>3. CASE n < pc
      BY <2>6, <2>9, <3>1, <3>3 DEF NameOrder
    <3> QED BY <2>2, <2>9, <3>2, <3>3
  <2> QED BY <2>2, <2>7, <2>8, <2>9 DEF NameOrder
<1>5. CASE Export
  <2>1. /\ pc' = 0 /\ series' = Nothing /\ exported' = series
        /\ awake' = awake /\ snapshot' = snapshot /\ tables' = tables
    BY <1>5, ExportIs DEF Still
  <2>2. Text' = Text /\ \A n \in Text : ~(n < pc')
    BY <2>1, TextIs, LengthIs DEF Text
  <2> QED BY <2>1, <2>2, NothingIs DEF NameOrder
<1> QED BY <1>2, <1>3, <1>4, <1>5, StepsAre

LEMMA NamesStep ==
    ASSUME FullTypeOK, StampOrder, NameOrder, [Next]_vars, exported' # exported
    PROVE  exported.names \subseteq exported'.names
<1>1. pc = End /\ exported' = series
  BY OnlyExportExports
<1> SUFFICES ASSUME NEW k \in exported.names PROVE k \in series.names
  BY <1>1
<1>2. k \in Keys /\ snapshot[k].at > 0
  BY NamesAreKeys DEF NameOrder
<1>3. PICK n \in 1..Len(Readings) : Readings[n] = Name(k)
  BY DEF NameOrder
<1>4. k \in awake
  BY <1>2 DEF StampOrder
<1>5. n \in Text /\ n < pc
  BY <1>1, <1>2, <1>3, <1>4, TextIs, LengthIs
<1> QED BY <1>3, <1>5 DEF NameOrder

(* A series that was once exported with its name keeps it                  *)
(* (metrics.go:632-640, 767-773, 882-891): tables and snapshots are only   *)
(* ever replaced, and each look-up comes after the getter of its data.     *)
THEOREM SeriesKeepTheirNames == Spec => NamesStay
<1> DEFINE Inv == FullTypeOK /\ StampOrder /\ NameOrder
<1>1. Init => Inv
  BY InitHasType, InitHasStampOrder, InitHasNameOrder
<1>2. Inv /\ [Next]_vars => Inv'
  BY StepsAre, StampOrderStep, NameOrderStep
<1>3. Inv /\ [Next]_vars =>
        [exported' # exported => exported.names \subseteq exported'.names]_vars
  BY NamesStep
<1> QED BY <1>1, <1>2, <1>3, PTL DEF Spec, NamesStay

-----------------------------------------------------------------------------
(* The story.  A season's count is of quests that were looked up and are   *)
(* in the tables, and what the tables have they keep.                      *)
Passed ==
    {q \in Quests : \E n \in 1..Len(Readings) : n < pc /\ Readings[n] = Season(q)}
Countable(s) == {q \in Passed : q \in Present(tables) /\ SeasonOf[q] = s}

StoryOrder ==
    /\ StoryWithinTotals
    /\ \A s \in Seasons :
          /\ series.completed[s] <= Cardinality(Countable(s))
          /\ tables = 0 => series.completed[s] = 0
          /\ series.completed[s] > 0 => "story" \in awake
          /\ \A n \in Text : n < pc /\ Readings[n] = Totals =>
                series.completed[s] <= series.totals[s]

LEMMA StoryTypes ==
    ASSUME FullTypeOK
    PROVE  \A s \in Seasons : /\ series.completed[s] \in Nat
                              /\ series.totals[s] \in Nat
                              /\ exported.completed[s] \in Nat
                              /\ exported.totals[s] \in Nat
  BY DEF FullTypeOK, CallbackTypeOK, IsObservation

(* More tables, or a later reading, count no less.                         *)
LEMMA QuestsGrow ==
    ASSUME NEW S, NEW T, S \subseteq T, T \subseteq Quests
    PROVE  /\ Cardinality(S) \in Nat /\ Cardinality(T) \in Nat
           /\ Cardinality(S) <= Cardinality(T)
<1>1. IsFiniteSet(T)
  BY CollectionAssumption, FS_Subset
<1>2. IsFiniteSet(S) /\ Cardinality(S) <= Cardinality(T)
  BY <1>1, FS_Subset
<1> QED BY <1>1, <1>2, FS_CardinalityType

LEMMA CountableIsNat == \A s : Cardinality(Countable(s)) \in Nat
  BY QuestsGrow DEF Countable, Passed

LEMMA PresentGrows ==
    ASSUME NEW t \in Nat, NEW u \in Nat, t <= u
    PROVE  Present(t) \subseteq Present(u) /\ Present(u) \subseteq Quests
<1> SUFFICES ASSUME NEW q \in Quests, Introduced[q] <= t
             PROVE  Introduced[q] <= u
  BY DEF Present
<1>1. Introduced[q] \in Nat
  BY CollectionAssumption
<1> QED BY <1>1

LEMMA InitHasStoryOrder == Init => StoryOrder
<1> SUFFICES ASSUME Init PROVE StoryOrder
  OBVIOUS
<1>1. series = Nothing /\ exported = Nothing /\ pc = 0
  BY DEF Init
<1>2. \A s \in Seasons : /\ series.completed[s] = 0 /\ series.totals[s] = 0
                         /\ exported.completed[s] = 0 /\ exported.totals[s] = 0
  BY <1>1, NothingIs
<1> QED BY <1>2, CountableIsNat DEF StoryOrder, StoryWithinTotals

LEMMA StoryOrderStep ==
    ASSUME FullTypeOK, StampOrder, StoryOrder, [Next]_vars
    PROVE  StoryOrder'
<1>1. FullTypeOK'
  BY StepsAre
<1>2. CASE Around
  <2>1. /\ pc' = pc /\ series' = series /\ exported' = exported /\ awake' = awake
        /\ tables <= tables' /\ Text' = Text /\ Passed' = Passed
    BY <1>2 DEF Around, exportVars, Text, Passed
  <2>2. tables \in Nat /\ tables' \in Nat
    BY <1>1, MomentIs DEF FullTypeOK
  <2>3. \A s \in Seasons : /\ Cardinality(Countable(s)) <= Cardinality(Countable(s)')
                           /\ Cardinality(Countable(s)') \in Nat
                           /\ Cardinality(Countable(s)) \in Nat
    <3> SUFFICES ASSUME NEW s \in Seasons
                 PROVE  /\ Cardinality(Countable(s)) <= Cardinality(Countable(s)')
                        /\ Cardinality(Countable(s)') \in Nat
                        /\ Cardinality(Countable(s)) \in Nat
      OBVIOUS
    <3>1. Present(tables) \subseteq Present(tables')
      BY <2>1, <2>2, PresentGrows
    <3>2. Countable(s)' = {q \in Passed : q \in Present(tables') /\ SeasonOf[q] = s}
      BY <2>1 DEF Countable, Present
    <3>3. Countable(s) \subseteq Countable(s)' /\ Countable(s)' \subseteq Quests
      BY <3>1, <3>2 DEF Countable, Passed
    <3> QED BY <3>3, QuestsGrow
  <2>4. tables' = 0 => tables = 0
    BY <2>1, <2>2
  <2>5. ASSUME NEW s \in Seasons
        PROVE  /\ series'.completed[s] <= Cardinality(Countable(s)')
               /\ tables' = 0 => series'.completed[s] = 0
               /\ series'.completed[s] > 0 => "story" \in awake'
               /\ \A n \in Text' : n < pc' /\ Readings[n] = Totals =>
                     series'.completed[s] <= series'.totals[s]
    <3>1. series'.completed[s] <= Cardinality(Countable(s)')
      <4>1. series.completed[s] <= Cardinality(Countable(s))
        BY DEF StoryOrder
      <4>2. series.completed[s] \in Nat
        BY StoryTypes
      <4> QED BY <2>1, <2>3, <4>1, <4>2
    <3>2. /\ tables' = 0 => series'.completed[s] = 0
          /\ series'.completed[s] > 0 => "story" \in awake'
      BY <2>1, <2>4 DEF StoryOrder
    <3>3. \A n \in Text' : n < pc' /\ Readings[n] = Totals =>
             series'.completed[s] <= series'.totals[s]
      BY <2>1 DEF StoryOrder
    <3> QED BY <3>1, <3>2, <3>3
  <2>6. StoryWithinTotals'
    BY <2>1 DEF StoryOrder, StoryWithinTotals
  <2> QED BY <2>5, <2>6 DEF StoryOrder
<1>3. CASE Collect
  <2>1. /\ pc' = After(0) /\ series' = Nothing /\ exported' = exported
    BY <1>3, CollectIs
  <2>2. \A s \in Seasons : series'.completed[s] = 0 /\ series'.totals[s] = 0
    BY <2>1, NothingIs
  <2>3. \A s \in Seasons : Cardinality(Countable(s)') \in Nat
    BY QuestsGrow DEF Countable, Passed
  <2>4. StoryWithinTotals'
    BY <2>1 DEF StoryOrder, StoryWithinTotals
  <2> QED BY <2>2, <2>3, <2>4 DEF StoryOrder
<1>4. CASE Export
  <2>1. /\ pc = End /\ series' = Nothing /\ exported' = series
    BY <1>4, ExportIs
  <2>2. \A s \in Seasons : series'.completed[s] = 0 /\ series'.totals[s] = 0
    BY <2>1, NothingIs
  <2>3. \A s \in Seasons : Cardinality(Countable(s)') \in Nat
    BY QuestsGrow DEF Countable, Passed
  <2>4. StoryWithinTotals'
    <3> SUFFICES ASSUME NEW s \in Seasons
                 PROVE  series.completed[s] <= series.totals[s]
      BY <2>1 DEF StoryWithinTotals
    <3>1. series.completed[s] \in Nat /\ series.totals[s] \in Nat
      BY StoryTypes
    <3>2. CASE "story" \in awake
      <4>1. 25 + Looked \in Text /\ Readings[25 + Looked] = Totals
        BY <3>2, TextIs, ReadingsAre
      <4>2. 25 + Looked < pc
        BY <2>1, LengthIs
      <4> QED BY <4>1, <4>2 DEF StoryOrder
    <3>3. CASE "story" \notin awake
      BY <3>1, <3>3 DEF StoryOrder
    <3> QED BY <3>2, <3>3
  <2> QED BY <2>2, <2>3, <2>4 DEF StoryOrder
<1>5. CASE Reading
  <2>1. /\ exported' = exported /\ awake' = awake /\ snapshot' = snapshot
        /\ tables' = tables /\ pc \in 1..Len(Readings) /\ pc' = After(pc)
    BY <1>5, ReadingStep DEF Still
  <2>2. /\ Text' = Text
        /\ \A n \in Text : n < pc' => n < pc \/ n = pc
    BY <2>1, PassedBy
  <2>3. pc \in Nat /\ pc' \in Nat /\ pc < pc'
    <3>1. pc \in 0..End - 1 /\ End \in Nat
      BY <2>1, LengthIs
    <3> QED BY <2>1, <3>1, AfterIs
  <2>4. /\ Passed \subseteq Passed'
        /\ \A s : Countable(s) \subseteq Countable(s)' /\ Countable(s)' \subseteq Quests
    <3>1. Passed \subseteq Passed'
      <4>1. \A n \in 1..Len(Readings) : n < pc => n < pc'
        BY <2>3, LengthIs
      <4> QED BY <4>1 DEF Passed
    <3>2. \A s : Countable(s)' = {q \in Passed' : q \in Present(tables) /\ SeasonOf[q] = s}
      BY <2>1 DEF Countable, Present
    <3> QED BY <3>1, <3>2 DEF Countable, Passed
  <2>5. \A s \in Seasons : /\ Cardinality(Countable(s)) \in Nat
                           /\ Cardinality(Countable(s)') \in Nat
                           /\ Cardinality(Countable(s)) <= Cardinality(Countable(s)')
    BY <2>4, QuestsGrow
  <2>6. StoryWithinTotals'
    BY <2>1 DEF StoryOrder, StoryWithinTotals
  <2>7. CASE ReadTotals
    <3>1. /\ series'.completed = series.completed
          /\ tables # 0 => \A s \in Seasons : series'.totals[s] = SeasonTotal(tables, s)
      BY <2>7, ReadTotalsIs
    <3>2. ASSUME NEW s \in Seasons
          PROVE  series.completed[s] <= series'.totals[s]
      <4>1. /\ series.completed[s] \in Nat /\ series'.totals[s] \in Nat
            /\ series.completed[s] <= Cardinality(Countable(s))
        BY <1>1, StoryTypes DEF StoryOrder, FullTypeOK, CallbackTypeOK, IsObservation
      <4>2. CASE tables = 0
        BY <4>1, <4>2 DEF StoryOrder
      <4>3. CASE tables # 0
        <5> DEFINE T == {q \in Present(tables) : SeasonOf[q] = s}
        <5>1. Countable(s) \subseteq T /\ T \subseteq Quests
          BY DEF Countable, Present
        <5> HIDE DEF T
        <5>2. Cardinality(Countable(s)) <= Cardinality(T)
              /\ Cardinality(T) \in Nat /\ Cardinality(Countable(s)) \in Nat
          BY <5>1, QuestsGrow
        <5>3. series'.totals[s] = Cardinality(T)
          BY <3>1, <4>3 DEF SeasonTotal, T
        <5> QED BY <4>1, <5>2, <5>3
      <4> QED BY <4>2, <4>3
    <3>3. \A s \in Seasons : series'.completed[s] <= Cardinality(Countable(s)')
      BY <2>5, <3>1, StoryTypes DEF StoryOrder
    <3>4. \A s \in Seasons : /\ tables' = 0 => series'.completed[s] = 0
                             /\ series'.completed[s] > 0 => "story" \in awake'
      BY <2>1, <3>1 DEF StoryOrder
    <3> QED BY <2>6, <3>1, <3>2, <3>3, <3>4 DEF StoryOrder
  <2>8. CASE LookUpSeason
    <3>1. /\ Of \in Quests /\ SeasonOf[Of] \in Seasons
          /\ series'.completed =
                IF Counted(Of) THEN [series.completed EXCEPT ![SeasonOf[Of]] = @ + 1]
                               ELSE series.completed
          /\ series'.totals = series.totals
      BY <2>8, LookUpSeasonIs
    <3>2. PICK m \in 1..Looked : pc = 24 + m /\ Of = Quest(m)
      BY <2>8, WhatIsRead DEF LookUpSeason
    <3>3. \A n \in Text' : n < pc' => Readings[n] # Totals
      <4> SUFFICES ASSUME NEW n \in Text, n < pc', Readings[n] = Totals
                   PROVE  FALSE
        BY <2>2
      <4>1. n \in 1..Len(Readings) /\ Readings[n].op = "totals"
        BY TextIs DEF Totals
      <4>2. n = 25 + Looked
        BY <4>1, OpsOfReadings
      <4>3. n < pc \/ n = pc
        BY <2>2
      <4> QED BY <3>2, <4>2, <4>3, LengthIs
    <3>4. CASE ~Counted(Of)
      <4>1. series'.completed = series.completed
        BY <3>1, <3>4
      <4>2. \A s \in Seasons : series'.completed[s] <= Cardinality(Countable(s)')
        BY <2>5, <4>1, StoryTypes DEF StoryOrder
      <4>3. \A s \in Seasons : /\ tables' = 0 => series'.completed[s] = 0
                               /\ series'.completed[s] > 0 => "story" \in awake'
        BY <2>1, <4>1 DEF StoryOrder
      <4> QED BY <2>6, <3>3, <4>2, <4>3 DEF StoryOrder
    <3>5. CASE Counted(Of)
      <4>0. PICK q \in Quests, x \in Seasons : q = Of /\ x = SeasonOf[q]
        BY <3>1
      <4>1. q \notin Passed
        <5> SUFFICES ASSUME NEW n \in 1..Len(Readings), n < pc, Readings[n] = Season(q)
                     PROVE  FALSE
          BY DEF Passed
        <5>1. Readings[n].op = "season"
          BY DEF Season
        <5>2. PICK j \in 1..Looked : n = 24 + j /\ Readings[n] = Season(Quest(j))
          BY <5>1, OpsOfReadings DEF IsSeason
        <5>3. Quest(j) = Quest(m)
          BY <3>2, <4>0, <5>2 DEF Season
        <5>4. j = m
          BY <5>3, QuestLookupsAre
        <5> QED BY <3>2, <5>2, <5>4, LengthIs
      <4>2. q \in Passed'
        <5>1. Readings[pc] = Season(q)
          BY <2>8, <4>0, WhatIsRead DEF LookUpSeason
        <5> QED BY <2>1, <2>3, <5>1 DEF Passed
      <4>3. q \notin Countable(x) /\ q \in Countable(x)'
        <5>1. q \in Present(tables)
          BY <3>5, <4>0 DEF Counted
        <5>2. Countable(x)' = {y \in Passed' : y \in Present(tables) /\ SeasonOf[y] = x}
          BY <2>1 DEF Countable, Present
        <5> QED BY <4>0, <4>1, <4>2, <5>1, <5>2 DEF Countable
      <4>4. Cardinality(Countable(x)) + 1 <= Cardinality(Countable(x)')
        <5> DEFINE S == Countable(x)
        <5>1. S \union {q} \subseteq Countable(x)' /\ Countable(x)' \subseteq Quests
              /\ q \notin S
          BY <2>4, <4>3
        <5>2. IsFiniteSet(S)
          BY <5>1, CollectionAssumption, FS_Subset
        <5> HIDE DEF S
        <5>3. Cardinality(S \union {q}) = Cardinality(S) + 1
          BY <5>1, <5>2, FS_AddElement
        <5>4. Cardinality(S \union {q}) <= Cardinality(Countable(x)')
          BY <5>1, QuestsGrow
        <5> QED BY <5>3, <5>4 DEF S
      <4>5. x \in Seasons /\ series'.completed = [series.completed EXCEPT ![x] = @ + 1]
        BY <3>1, <3>5, <4>0
      <4>6. ASSUME NEW s \in Seasons
            PROVE  series'.completed[s] <= Cardinality(Countable(s)')
        <5>1. /\ series.completed[s] \in Nat
              /\ series.completed[s] <= Cardinality(Countable(s))
          BY StoryTypes DEF StoryOrder
        <5>2. CASE s = x
          <6>1. series'.completed[s] = series.completed[s] + 1
            BY <4>5, <5>2 DEF FullTypeOK, CallbackTypeOK, IsObservation
          <6> QED BY <2>5, <4>4, <5>1, <5>2, <6>1
        <5>3. CASE s # x
          <6>1. series'.completed[s] = series.completed[s]
            BY <4>5, <5>3
          <6> QED BY <2>5, <5>1, <6>1
        <5> QED BY <5>2, <5>3
      <4>7. tables' # 0
        BY <2>1, <3>5 DEF Counted
      <4>8. "story" \in awake'
        <5>1. series.read["story"].at > 0 /\ series.read["story"].at \in Nat
              /\ snapshot["story"].at \in Nat
              /\ series.read["story"].at <= snapshot["story"].at
          BY <3>5, KeysAre, TimesAreNat DEF Counted, StampOrder
        <5>2. snapshot["story"].at > 0
          BY <5>1
        <5> QED BY <2>1, <5>2, KeysAre DEF StampOrder
      <4> QED BY <2>6, <3>3, <4>6, <4>7, <4>8 DEF StoryOrder
    <3> QED BY <3>4, <3>5
  <2>9. CASE ReadSnapshot \/ LookUpName \/ ReadStamps
    <3>1. series'.completed = series.completed /\ series'.totals = series.totals
      BY <2>9, ReadSnapshotIs, LookUpNameIs, ReadStampsIs
    <3>2. \A n \in Text : n < pc' /\ Readings[n] = Totals => n < pc
      <4>1. Readings[pc] # Totals
        BY <2>9 DEF ReadSnapshot, LookUpName, ReadStamps, At, Totals
      <4> QED BY <2>2, <4>1
    <3>3. \A s \in Seasons : series'.completed[s] <= Cardinality(Countable(s)')
      BY <2>5, <3>1, StoryTypes DEF StoryOrder
    <3>4. \A s \in Seasons : /\ tables' = 0 => series'.completed[s] = 0
                             /\ series'.completed[s] > 0 => "story" \in awake'
      BY <2>1, <3>1 DEF StoryOrder
    <3>5. \A s \in Seasons : \A n \in Text' : n < pc' /\ Readings[n] = Totals =>
             series'.completed[s] <= series'.totals[s]
      BY <2>2, <3>1, <3>2 DEF StoryOrder
    <3> QED BY <2>6, <3>3, <3>4, <3>5 DEF StoryOrder
  <2> QED BY <1>5, <2>7, <2>8, <2>9 DEF Reading
<1> QED BY <1>2, <1>3, <1>4, <1>5, StepsAre

(* No export has more completed quests of a season than quests, although   *)
(* the tables may be replaced between any two look-ups                     *)
(* (metrics.go:804-821): for any quests, seasons and builds.               *)
THEOREM StoryStaysWithinTotals == Spec => []StoryWithinTotals
<1> DEFINE Inv == FullTypeOK /\ StampOrder /\ StoryOrder
<1>1. Init => Inv
  BY InitHasType, InitHasStampOrder, InitHasStoryOrder
<1>2. Inv /\ [Next]_vars => Inv'
  BY StepsAre, StampOrderStep, StoryOrderStep
<1>3. Inv => StoryWithinTotals
  BY DEF StoryOrder
<1> QED BY <1>1, <1>2, <1>3, PTL DEF Spec

-----------------------------------------------------------------------------
(* The breakdown, from the poll that computes it to the export.            *)
Sound(e) == e.at > 0 => AddsUp(e.data)

BreakdownsSound ==
    /\ Sound(snapshot["value"])
    /\ Sound(series.read["value"])
    /\ Sound(exported.read["value"])

LEMMA NothingIsSound == Sound(Nothing.read["value"])
<1>1. Nothing.read["value"].at = 0
  BY NothingIs, KeysAre
<1> QED BY <1>1 DEF Sound

LEMMA InitIsSound == Init => BreakdownsSound
<1> SUFFICES ASSUME Init PROVE BreakdownsSound
  OBVIOUS
<1>1. series = Nothing /\ exported = Nothing /\ snapshot["value"].at = 0
  BY KeysAre DEF Init, Absent
<1> QED BY <1>1, NothingIsSound DEF BreakdownsSound, Sound

(* Only the value poll stores under its key, and only what it computed.    *)
LEMMA StoredIsSound ==
    ASSUME FullTypeOK, ValueInv, Sound(snapshot["value"]), [Next]_vars
    PROVE  Sound(snapshot'["value"])
<1>1. ASSUME snapshot' = snapshot PROVE Sound(snapshot'["value"])
  BY <1>1
<1>2. ASSUME NEW k \in Keys, k # "value", NEW d, Store(k, d)
      PROVE  Sound(snapshot'["value"])
  <2>1. snapshot'["value"] = snapshot["value"]
    BY <1>2, KeysAre DEF Store, FullTypeOK, StoreTypeOK, IsStock
  <2> QED BY <2>1
<1>3. ASSUME NEW k \in Keys, Poll(k) PROVE Sound(snapshot'["value"])
  <2>1. CASE PollPlain(k)
    <3>1. k # "value"
      BY <2>1 DEF PollPlain, Plain
    <3> QED BY <1>2, <2>1, <3>1 DEF PollPlain
  <2>2. CASE PollAccount
    BY <1>2, <2>2, KeysAre DEF PollAccount
  <2>3. CASE PollStory
    BY <1>2, <2>3, KeysAre DEF PollStory
  <2>4. CASE PollCommerce
    BY <1>2, <2>4, KeysAre DEF PollCommerce
  <2>5. CASE PollGuild
    BY <1>2, <2>5, KeysAre DEF PollGuild
  <2>6. CASE PollValue
    <3>1. CASE call = Len(Calls) + 1
      <4>1. call = 8
        BY <3>1, CallIs
      <4>2. SetAccountValue
        BY <2>6, <4>1, CallIs DEF PollValue, StartValuePoll, ValueCall, ValueCallFails
      <4>3. valued' = Compute(answer, purse)
        BY <4>2 DEF SetAccountValue
      <4>4. AddsUp(Compute(answer, purse))
        BY BreakdownsAddUp DEF ValueInv, ValueTypeOK
      <4>5. snapshot' = [snapshot EXCEPT !["value"] = [at |-> now, data |-> valued']]
        BY <2>6, <3>1 DEF PollValue
      <4>6. snapshot'["value"].data = valued'
        BY <4>5, KeysAre DEF FullTypeOK, StoreTypeOK, IsStock
      <4> QED BY <4>3, <4>4, <4>6 DEF Sound
    <3>2. CASE call # Len(Calls) + 1
      BY <1>1, <2>6, <3>2 DEF PollValue
    <3> QED BY <3>1, <3>2
  <2> QED BY <1>3, <2>1, <2>2, <2>3, <2>4, <2>5, <2>6 DEF Poll
<1>4. CASE Collect \/ Reading \/ Export
  BY <1>1, <1>4, CollectIs, ReadingStep, ExportIs DEF Still
<1>5. CASE \/ Advance \/ PlayerMoves \/ Publish \/ Unregister \/ Ended
           \/ UNCHANGED vars
  BY <1>1, <1>5 DEF Advance, PlayerMoves, Publish, Unregister, Ended, vars,
                    storeVars
<1>6. ASSUME NEW q \in Quests, Complete(q) PROVE Sound(snapshot'["value"])
  BY <1>1, <1>6 DEF Complete, storeVars
<1>7. ASSUME NEW g \in Guilds, Enrol(g) PROVE Sound(snapshot'["value"])
  BY <1>1, <1>7 DEF Enrol, storeVars
<1> QED
  BY <1>3, <1>4, <1>5, <1>6, <1>7 DEF Next

LEMMA SoundStep ==
    ASSUME FullTypeOK, ValueInv, BreakdownsSound, [Next]_vars
    PROVE  BreakdownsSound'
<1>1. Sound(snapshot'["value"])
  BY StoredIsSound DEF BreakdownsSound
<1>2. Sound(series'.read["value"]) /\ Sound(exported'.read["value"])
  <2>1. CASE Around
    BY <2>1 DEF Around, exportVars, BreakdownsSound
  <2>2. CASE Collect
    BY <2>2, CollectIs, NothingIsSound DEF BreakdownsSound
  <2>3. CASE Export
    BY <2>3, ExportIs, NothingIsSound DEF BreakdownsSound
  <2>4. CASE ReadSnapshot
    <3>1. exported' = exported /\ Of \in Keys
      BY <2>4, ReadingStep, WhatIsRead DEF Reading, ReadSnapshot
    <3>2. IsPut(series'.read, series.read, Of, Observed(Of))
      BY <2>4, ReadSnapshotIs
    <3>3. series'.read["value"] = IF Of = "value" THEN Observed(Of)
                                                  ELSE series.read["value"]
      BY <3>1, <3>2, KeysAre DEF IsPut
    <3>4. Observed("value") = snapshot["value"]
      BY DEF Observed
    <3> QED BY <3>1, <3>3, <3>4 DEF BreakdownsSound
  <2>5. CASE LookUpName \/ LookUpSeason \/ ReadTotals \/ ReadStamps
    <3>1. exported' = exported
      BY <2>5, ReadingStep DEF Reading
    <3>2. series'.read = series.read
      BY <2>5, LookUpNameIs, LookUpSeasonIs, ReadTotalsIs, ReadStampsIs
    <3> QED BY <3>1, <3>2 DEF BreakdownsSound
  <2> QED BY <2>1, <2>2, <2>3, <2>4, <2>5, StepsAre DEF Reading
<1> QED BY <1>1, <1>2 DEF BreakdownsSound, Sound

(* Whatever polls and collections do between its calls, the breakdown of   *)
(* an export is one that was computed whole: each basis adds up to its     *)
(* total, and the material categories to the materials (value.go:79-103).  *)
THEOREM ExportedBreakdownAddsUp == Spec => []BreakdownAddsUp
<1> DEFINE Inv == FullTypeOK /\ ValueInv /\ BreakdownsSound
<1>1. Init => Inv
  BY InitHasType, ValueInitHolds, InitIsSound DEF Init
<1>2. Inv /\ [Next]_vars => Inv'
  BY StepsAre, StepsOfTheValue, ValueStep, SoundStep
<1>3. Inv => BreakdownAddsUp
  BY DEF BreakdownsSound, Sound, BreakdownAddsUp
<1> QED BY <1>1, <1>2, <1>3, PTL DEF Spec
=============================================================================
