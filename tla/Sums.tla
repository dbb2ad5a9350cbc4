-------------------------------- MODULE Sums --------------------------------
(* What a sum over a finite set is: the facts the proofs need of             *)
(* MapThenSumSet, with which the models write a SUM of the SQL.              *)
EXTENDS FiniteSetsExt, FiniteSetTheorems, TLAPS

\* SELECT SUM(f) over the rows S.
SumOf(f, S) == MapThenSumSet(LAMBDA x : f[x], S)

-----------------------------------------------------------------------------
(* The fold behind it.  Induction is by a smallest counterexample, since     *)
(* the provers do not instantiate a theorem about any predicate.             *)

LEMMA Smallest ==
  ASSUME NEW S, IsFiniteSet(S), NEW B \in SUBSET SUBSET S, B # {}
  PROVE  \E T \in B : \A U \in B : U \subseteq T => U = T
<1>1. IsWellFoundedOn(StrictSubsetOrdering(S), SUBSET S)
  BY FS_StrictSubsetOrderingWellFounded, FS_FiniteSubsetsOfFinite
<1>2. PICK T \in B : \A U \in B : <<U, T>> \notin StrictSubsetOrdering(S)
  BY <1>1, WFMin
<1> QED  BY <1>2 DEF StrictSubsetOrdering

Pick(s) == CHOOSE x \in s : TRUE
Rest(s) == s \ {Pick(s)}

\* g sums f over each set of D.
Sums(g, f, D) == g = [s \in D |-> IF s = {} THEN 0 ELSE f[Pick(s)] + g[Rest(s)]]

Fold(f, S) == CHOOSE g : Sums(g, f, SUBSET S)

LEMMA SumIsFold ==
  ASSUME NEW f, NEW S
  PROVE  SumOf(f, S) = Fold(f, S)[S]
BY DEF SumOf, MapThenSumSet, MapThenFoldSet, Fold, Sums, Pick, Rest

LEMMA RestIsLess == \A s : s # {} => Pick(s) \in s /\ Rest(s) \subseteq s /\ Rest(s) # s
BY DEF Pick, Rest

LEMMA FoldStep ==
  ASSUME NEW g, NEW f, NEW D, Sums(g, f, D), NEW s \in D
  PROVE  g[s] = IF s = {} THEN 0 ELSE f[Pick(s)] + g[Rest(s)]
BY DEF Sums

\* Two folds agree where both are defined.
LEMMA FoldsAgree ==
  ASSUME NEW f, NEW A, NEW B, NEW g, NEW h, Sums(g, f, SUBSET A), Sums(h, f, SUBSET B),
         NEW S, S \subseteq A, S \subseteq B, IsFiniteSet(S)
  PROVE  g[S] = h[S]
<1> DEFINE Differ == {T \in SUBSET S : g[T] # h[T]}
<1>0. Differ \in SUBSET SUBSET S
  OBVIOUS
<1>1. SUFFICES ASSUME Differ # {}  PROVE FALSE
  OBVIOUS
<1>2. PICK T \in Differ : \A U \in Differ : U \subseteq T => U = T
  <2> HIDE DEF Differ
  <2> QED  BY <1>0, <1>1, Smallest
<1>3. T \in SUBSET A /\ T \in SUBSET B /\ g[T] # h[T]
  BY <1>2
<1>4. /\ g[T] = IF T = {} THEN 0 ELSE f[Pick(T)] + g[Rest(T)]
      /\ h[T] = IF T = {} THEN 0 ELSE f[Pick(T)] + h[Rest(T)]
  <2>1. g[T] = IF T = {} THEN 0 ELSE f[Pick(T)] + g[Rest(T)]
    BY <1>3, FoldStep
  <2>2. h[T] = IF T = {} THEN 0 ELSE f[Pick(T)] + h[Rest(T)]
    BY <1>3, FoldStep
  <2> QED  BY <2>1, <2>2
<1>5. T # {}
  BY <1>3, <1>4
<1>6. Rest(T) \in SUBSET S /\ g[Rest(T)] = h[Rest(T)]
  BY <1>2, <1>5, RestIsLess
<1> QED  BY <1>3, <1>4, <1>5, <1>6

\* The fold of a set and that of a subset agree on the subset.
LEMMA FoldOfSubset ==
  ASSUME NEW f, NEW A, NEW B, B \subseteq A, IsFiniteSet(B),
         Sums(Fold(f, A), f, SUBSET A), Sums(Fold(f, B), f, SUBSET B)
  PROVE  Fold(f, A)[B] = Fold(f, B)[B]
<1>1. B \subseteq B
  OBVIOUS
<1> QED  BY <1>1, FoldsAgree

LEMMA FoldExists ==
  ASSUME NEW f, NEW S, IsFiniteSet(S)
  PROVE  Sums(Fold(f, S), f, SUBSET S)
<1> DEFINE Without == {T \in SUBSET S : ~ \E g : Sums(g, f, SUBSET T)}
<1>0. Without \in SUBSET SUBSET S
  OBVIOUS
<1>1. SUFFICES ASSUME Without # {}  PROVE FALSE
  BY DEF Fold
<1>2. PICK T \in Without : \A U \in Without : U \subseteq T => U = T
  <2> HIDE DEF Without
  <2> QED  BY <1>0, <1>1, Smallest
<1>3. \A U \in SUBSET T : U # T => Sums(Fold(f, U), f, SUBSET U)
  BY <1>2 DEF Fold
<1> DEFINE g == [s \in SUBSET T |-> IF s = {} THEN 0
                                    ELSE f[Pick(s)] + Fold(f, Rest(s))[Rest(s)]]
<1>4. ASSUME NEW u \in SUBSET T, u # T  PROVE g[u] = Fold(f, u)[u]
  <2>1. Sums(Fold(f, u), f, SUBSET u)
    BY <1>3, <1>4
  <2>2. CASE u = {}
    BY <2>1, <2>2, FoldStep
  <2>3. CASE u # {}
    <3>1. Rest(u) \in SUBSET u /\ Rest(u) \in SUBSET T /\ Rest(u) # T /\ IsFiniteSet(Rest(u))
      BY <1>2, <1>4, <2>3, RestIsLess, FS_Subset
    <3>2. Fold(f, u)[Rest(u)] = Fold(f, Rest(u))[Rest(u)]
      <4>1. Sums(Fold(f, Rest(u)), f, SUBSET Rest(u))
        BY <1>3, <3>1
      <4> HIDE DEF Without, g
      <4>2. Rest(u) \subseteq u
        BY <3>1
      <4> QED  BY <2>1, <3>1, <4>1, <4>2, FoldOfSubset
    <3>3. Fold(f, u)[u] = f[Pick(u)] + Fold(f, u)[Rest(u)]
      BY <2>1, <2>3, FoldStep
    <3> QED  BY <2>3, <3>2, <3>3
  <2> QED  BY <2>2, <2>3
<1>5. \A s \in SUBSET T : s # {} => Rest(s) \in SUBSET T /\ Rest(s) # T
  BY RestIsLess
<1>6. Sums(g, f, SUBSET T)
  <2>1. \A s \in SUBSET T : g[s] = IF s = {} THEN 0 ELSE f[Pick(s)] + g[Rest(s)]
    BY <1>4, <1>5
  <2> QED  BY <2>1 DEF Sums
<1> QED  BY <1>2, <1>6

-----------------------------------------------------------------------------
(* Sums, one element at a time.                                              *)

LEMMA SumEmpty == \A f : SumOf(f, {}) = 0
<1>1. IsFiniteSet({})
  BY FS_EmptySet
<1>2. \A f : Sums(Fold(f, {}), f, SUBSET {})
  BY <1>1, FoldExists
<1> QED  BY <1>2, SumIsFold, FoldStep

LEMMA SumPick ==
  ASSUME NEW f, NEW S, IsFiniteSet(S), S # {}
  PROVE  SumOf(f, S) = f[Pick(S)] + SumOf(f, Rest(S))
<1>1. Rest(S) \in SUBSET S /\ IsFiniteSet(Rest(S))
  BY RestIsLess, FS_Subset
<1>2. Sums(Fold(f, S), f, SUBSET S) /\ Sums(Fold(f, Rest(S)), f, SUBSET Rest(S))
  BY <1>1, FoldExists
<1>3. Fold(f, S)[S] = f[Pick(S)] + Fold(f, S)[Rest(S)]
  BY <1>2, FoldStep
<1>4. Fold(f, S)[Rest(S)] = Fold(f, Rest(S))[Rest(S)]
  <2>1. Rest(S) \subseteq S
    BY <1>1
  <2> QED  BY <1>1, <1>2, <2>1, FoldsAgree
<1> QED  BY <1>3, <1>4, SumIsFold

\* A sum of integers is one, of natural numbers too.
LEMMA SumType ==
  ASSUME NEW f, NEW S, IsFiniteSet(S), \A x \in S : f[x] \in Int
  PROVE  SumOf(f, S) \in Int /\ ((\A x \in S : f[x] \in Nat) => SumOf(f, S) \in Nat)
<1> DEFINE Bad == {T \in SUBSET S : SumOf(f, T) \notin Int
                     \/ ((\A x \in S : f[x] \in Nat) /\ SumOf(f, T) \notin Nat)}
<1>0. Bad \in SUBSET SUBSET S
  OBVIOUS
<1>1. SUFFICES ASSUME Bad # {}  PROVE FALSE
  OBVIOUS
<1>2. PICK T \in Bad : \A U \in Bad : U \subseteq T => U = T
  <2> HIDE DEF Bad
  <2> QED  BY <1>0, <1>1, Smallest
<1>3. T # {}
  BY <1>2, SumEmpty
<1>4. Rest(T) \in SUBSET S /\ Rest(T) \notin Bad /\ Pick(T) \in S /\ IsFiniteSet(T)
  BY <1>2, <1>3, RestIsLess, FS_Subset
<1>5. SumOf(f, T) = f[Pick(T)] + SumOf(f, Rest(T))
  BY <1>3, <1>4, SumPick
<1> QED  BY <1>2, <1>4, <1>5

\* Any element may be taken out.
LEMMA SumRemove ==
  ASSUME NEW f, NEW S, IsFiniteSet(S), \A x \in S : f[x] \in Int, NEW y \in S
  PROVE  SumOf(f, S) = f[y] + SumOf(f, S \ {y})
<1> DEFINE Bad == {T \in SUBSET S : \E x \in T : SumOf(f, T) # f[x] + SumOf(f, T \ {x})}
<1>0. Bad \in SUBSET SUBSET S
  OBVIOUS
<1>1. SUFFICES ASSUME Bad # {}  PROVE FALSE
  OBVIOUS
<1>2. PICK T \in Bad : \A U \in Bad : U \subseteq T => U = T
  <2> HIDE DEF Bad
  <2> QED  BY <1>0, <1>1, Smallest
<1>3. PICK x \in T : SumOf(f, T) # f[x] + SumOf(f, T \ {x})
  BY <1>2
<1> DEFINE p == Pick(T)
<1>4. /\ T # {} /\ p \in T /\ p \in S /\ x \in S /\ IsFiniteSet(T) /\ Rest(T) = T \ {p}
      /\ T \ {p} \in SUBSET S /\ T \ {x} \in SUBSET S /\ (T \ {p}) \ {x} \in SUBSET S
      /\ (T \ {p}) \ {x} = (T \ {x}) \ {p}
  BY <1>2, <1>3, RestIsLess, FS_Subset DEF Rest
<1>5. SumOf(f, T) = f[p] + SumOf(f, T \ {p})
  BY <1>4, SumPick
<1> HIDE DEF p
<1>6. x # p
  BY <1>3, <1>5
<1>7. SumOf(f, T \ {p}) = f[x] + SumOf(f, (T \ {p}) \ {x})
  BY <1>2, <1>3, <1>4, <1>6
<1>8. SumOf(f, T \ {x}) = f[p] + SumOf(f, (T \ {x}) \ {p})
  BY <1>2, <1>3, <1>4, <1>6
<1>9. f[p] \in Int /\ f[x] \in Int /\ SumOf(f, (T \ {p}) \ {x}) \in Int
  <2>1. IsFiniteSet((T \ {p}) \ {x})
    BY <1>4, FS_Subset
  <2> QED  BY <1>4, <2>1, SumType
<1>10. SumOf(f, T \ {x}) = f[p] + SumOf(f, (T \ {p}) \ {x})
  BY <1>4, <1>8
<1> HIDE DEF Bad
<1> QED  BY <1>3, <1>5, <1>7, <1>9, <1>10

\* An element that is not in yet may be put in.
LEMMA SumAdd ==
  ASSUME NEW f, NEW S, IsFiniteSet(S), NEW y, y \notin S, \A x \in S \cup {y} : f[x] \in Int
  PROVE  SumOf(f, S \cup {y}) = f[y] + SumOf(f, S)
<1>1. IsFiniteSet(S \cup {y}) /\ (S \cup {y}) \ {y} = S
  BY FS_AddElement
<1>2. SumOf(f, S \cup {y}) = f[y] + SumOf(f, (S \cup {y}) \ {y})
  BY <1>1, SumRemove
<1> QED  BY <1>1, <1>2

\* What is nowhere more does not sum to more.
LEMMA SumLess ==
  ASSUME NEW f, NEW g, NEW S, IsFiniteSet(S),
         \A x \in S : f[x] \in Int /\ g[x] \in Int /\ f[x] <= g[x]
  PROVE  SumOf(f, S) <= SumOf(g, S)
<1> DEFINE Bad == {T \in SUBSET S : ~ (SumOf(f, T) <= SumOf(g, T))}
<1>0. Bad \in SUBSET SUBSET S
  OBVIOUS
<1>1. SUFFICES ASSUME Bad # {}  PROVE FALSE
  OBVIOUS
<1>2. PICK T \in Bad : \A U \in Bad : U \subseteq T => U = T
  <2> HIDE DEF Bad
  <2> QED  BY <1>0, <1>1, Smallest
<1>3. T # {}
  <2>1. 0 <= 0
    OBVIOUS
  <2> QED  BY <1>2, <2>1, SumEmpty
<1>4. /\ Rest(T) \in SUBSET S /\ Rest(T) \notin Bad /\ Pick(T) \in S
      /\ IsFiniteSet(T) /\ IsFiniteSet(Rest(T))
  BY <1>2, <1>3, RestIsLess, FS_Subset
<1>5. /\ SumOf(f, T) = f[Pick(T)] + SumOf(f, Rest(T))
      /\ SumOf(g, T) = g[Pick(T)] + SumOf(g, Rest(T))
  BY <1>3, <1>4, SumPick
<1>6. SumOf(f, Rest(T)) \in Int /\ SumOf(g, Rest(T)) \in Int
  BY <1>4, SumType
<1> QED  BY <1>2, <1>4, <1>5, <1>6

LEMMA SumEqual ==
  ASSUME NEW f, NEW g, NEW S, IsFiniteSet(S), \A x \in S : f[x] \in Int /\ f[x] = g[x]
  PROVE  SumOf(f, S) = SumOf(g, S)
<1>1. SumOf(f, S) <= SumOf(g, S) /\ SumOf(g, S) <= SumOf(f, S)
  BY SumLess
<1>2. SumOf(f, S) \in Int /\ SumOf(g, S) \in Int
  BY SumType
<1> QED  BY <1>1, <1>2

\* One element changes.
LEMMA SumChange ==
  ASSUME NEW f, NEW g, NEW S, IsFiniteSet(S), NEW y \in S,
         \A x \in S : f[x] \in Int /\ g[x] \in Int, \A x \in S \ {y} : g[x] = f[x]
  PROVE  SumOf(g, S) = SumOf(f, S) - f[y] + g[y]
<1>1. IsFiniteSet(S \ {y})
  BY FS_RemoveElement
<1>2. SumOf(f, S \ {y}) = SumOf(g, S \ {y})
  BY <1>1, SumEqual
<1>3. SumOf(f, S) = f[y] + SumOf(f, S \ {y}) /\ SumOf(g, S) = g[y] + SumOf(g, S \ {y})
  BY SumRemove
<1>4. SumOf(f, S \ {y}) \in Int
  BY <1>1, SumType
<1> QED  BY <1>2, <1>3, <1>4

\* Of natural numbers, a subset does not sum to more.
LEMMA SumSubset ==
  ASSUME NEW f, NEW S, IsFiniteSet(S), \A x \in S : f[x] \in Nat, NEW T \in SUBSET S
  PROVE  SumOf(f, T) <= SumOf(f, S)
<1> DEFINE Bad == {U \in SUBSET S : ~ (SumOf(f, U \cap T) <= SumOf(f, U))}
<1>0. Bad \in SUBSET SUBSET S
  OBVIOUS
<1>1. SUFFICES ASSUME Bad # {}  PROVE FALSE
  <2>1. S \cap T = T /\ S \in SUBSET S
    OBVIOUS
  <2> QED  BY <2>1
<1>2. PICK U \in Bad : \A V \in Bad : V \subseteq U => V = U
  <2> HIDE DEF Bad
  <2> QED  BY <1>0, <1>1, Smallest
<1> DEFINE p == Pick(U)
<1>3. U # {}
  <2>1. {} \cap T = {} /\ 0 <= 0
    OBVIOUS
  <2> QED  BY <1>2, <2>1, SumEmpty
<1>4. /\ p \in U /\ p \in S /\ Rest(U) = U \ {p} /\ Rest(U) \in SUBSET S /\ Rest(U) \notin Bad
      /\ IsFiniteSet(U) /\ IsFiniteSet(Rest(U)) /\ IsFiniteSet(U \cap T) /\ IsFiniteSet(Rest(U) \cap T)
  BY <1>2, <1>3, RestIsLess, FS_Subset DEF Rest
<1>5. SumOf(f, U) = f[p] + SumOf(f, Rest(U))
  BY <1>3, <1>4, SumPick
<1>6. /\ SumOf(f, Rest(U) \cap T) <= SumOf(f, Rest(U)) /\ f[p] \in Nat
      /\ SumOf(f, Rest(U)) \in Nat /\ SumOf(f, Rest(U) \cap T) \in Nat
  <2>1. SumOf(f, Rest(U)) \in Nat /\ SumOf(f, Rest(U) \cap T) \in Nat
    BY <1>4, SumType
  <2> QED  BY <1>4, <2>1
<1> HIDE DEF p
<1>7. SumOf(f, U \cap T) \in {SumOf(f, Rest(U) \cap T), f[p] + SumOf(f, Rest(U) \cap T)}
  <2>1. CASE p \in T
    <3>1. (U \cap T) \ {p} = Rest(U) \cap T /\ p \in U \cap T /\ \A x \in U \cap T : f[x] \in Int
      BY <1>4, <2>1
    <3> QED  BY <1>4, <3>1, SumRemove
  <2>2. CASE p \notin T
    <3>1. U \cap T = Rest(U) \cap T
      BY <1>4, <2>2
    <3> QED  BY <3>1
  <2> QED  BY <2>1, <2>2
<1> QED  BY <1>2, <1>5, <1>6, <1>7

=============================================================================
