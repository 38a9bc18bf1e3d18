----------------------------- MODULE Induction -----------------------------
(***************************************************************************)
(* Induction without a predicate for a parameter: a set of numbers, or of  *)
(* finite sets, that is not empty has a least member. A statement about    *)
(* all of them is proved by looking at the least that refutes it.          *)
(***************************************************************************)
EXTENDS Integers, FiniteSetTheorems, WellFoundedInduction, TLAPS

(* Finite sets are well founded by inclusion. *)
LEMMA LeastSet ==
    ASSUME NEW S, NEW T \in SUBSET FiniteSubsetsOf(S), T # {}
    PROVE  \E x \in T : \A y \in T : y \subseteq x => y = x
  <1>1. IsWellFoundedOn(StrictSubsetOrdering(S), FiniteSubsetsOf(S))
    BY FS_StrictSubsetOrderingWellFounded
  <1>2. PICK x \in T : \A y \in T : ~(<<y, x>> \in StrictSubsetOrdering(S))
    BY <1>1, WFMin
  <1>3. T \subseteq SUBSET S
    BY DEF FiniteSubsetsOf
  <1>. QED  BY <1>2, <1>3 DEF StrictSubsetOrdering, FiniteSubsetsOf

(* So are numbers, by the sets of those below them. *)
LEMMA LeastNumber ==
    ASSUME NEW T \in SUBSET Nat, T # {}
    PROVE  \E n \in T : \A m \in T : n <= m
  <1>. DEFINE U == {0..(n - 1) : n \in T}
  <1>1. ASSUME NEW n \in Nat
        PROVE  0..(n - 1) \in FiniteSubsetsOf(Nat)
    <2>1. IsFiniteSet(0..(n - 1))
      BY FS_Interval
    <2>2. 0..(n - 1) \subseteq Nat
      OBVIOUS
    <2>. QED  BY <2>1, <2>2 DEF FiniteSubsetsOf
  <1>2. U \in SUBSET FiniteSubsetsOf(Nat) /\ U # {}
    BY <1>1
  <1>3. \A m \in T : 0..(m - 1) \in U
    OBVIOUS
  <1>4. \A u \in U : \E n \in T : u = 0..(n - 1)
    OBVIOUS
  <1>. HIDE DEF U
  <1>5. PICK u \in U : \A v \in U : v \subseteq u => v = u
    BY <1>2, LeastSet
  <1>6. PICK n \in T : u = 0..(n - 1)
    BY <1>4
  <1>7. ASSUME NEW m \in T, m < n PROVE FALSE
    <2>1. 0..(m - 1) \subseteq 0..(n - 1)
      BY <1>7
    <2>2. m \in 0..(n - 1) /\ m \notin 0..(m - 1)
      BY <1>7
    <2>. QED  BY <1>3, <1>5, <1>6, <2>1, <2>2
  <1>. QED  BY <1>7

(* A set of subsets of a finite set has a least element by inclusion. *)
LEMMA LeastSubset ==
    ASSUME NEW S, IsFiniteSet(S), NEW T \in SUBSET (SUBSET S), T # {}
    PROVE  \E x \in T : \A y \in T : y \subseteq x => y = x
  <1>1. FiniteSubsetsOf(S) = SUBSET S
    BY FS_FiniteSubsetsOfFinite
  <1>. QED  BY <1>1, LeastSet

-----------------------------------------------------------------------------
(* Sums over finite sets, as MapThenSumSet takes them.                     *)

Pick(T) == CHOOSE x \in T : TRUE

IsSum(g, w, S) ==
    g = [T \in SUBSET S |->
            IF T = {} THEN 0 ELSE w[Pick(T)] + g[T \ {Pick(T)}]]

SumOf(w, S) == (CHOOSE g : IsSum(g, w, S))[S]

(* An element is picked from every set that has one. *)
LEMMA Picked ==
    ASSUME NEW T, T # {}
    PROVE  Pick(T) \in T
  BY DEF Pick

(* There is at most one such function, *)
LEMMA SumUnique ==
    ASSUME NEW S, IsFiniteSet(S), NEW w, NEW g, IsSum(g, w, S),
           NEW h, IsSum(h, w, S)
    PROVE  g = h
  <1>. DEFINE Bad == {T \in SUBSET S : g[T] # h[T]}
  <1>1. CASE Bad = {}
    <2>1. \A T \in SUBSET S : g[T] = h[T]
      BY <1>1
    <2>2. g = [T \in SUBSET S |-> g[T]] /\ h = [T \in SUBSET S |-> h[T]]
      BY DEF IsSum
    <2>. QED  BY <2>1, <2>2
  <1>2. CASE Bad # {}
    <2>0. Bad \in SUBSET (SUBSET S)
      OBVIOUS
    <2>. HIDE DEF Bad
    <2>1. PICK T \in Bad : \A U \in Bad : U \subseteq T => U = T
      BY <1>2, <2>0, LeastSubset
    <2>. USE DEF Bad
    <2>2. T # {}
      BY <2>1 DEF IsSum
    <2>3. Pick(T) \in T
      BY <2>2, Picked
    <2>4. T \ {Pick(T)} \in SUBSET S /\ T \ {Pick(T)} \notin Bad
      BY <2>1, <2>3
    <2>5. g[T \ {Pick(T)}] = h[T \ {Pick(T)}]
      BY <2>4
    <2>6. /\ g[T] = w[Pick(T)] + g[T \ {Pick(T)}]
          /\ h[T] = w[Pick(T)] + h[T \ {Pick(T)}]
      BY <2>2 DEF IsSum
    <2>. QED  BY <2>5, <2>6
  <1>. QED  BY <1>1, <1>2

(* its restriction is that of a smaller set, *)
LEMMA SumRestricts ==
    ASSUME NEW S, NEW w, NEW g, IsSum(g, w, S), NEW R \in SUBSET S
    PROVE  IsSum([T \in SUBSET R |-> g[T]], w, R)
  <1>. DEFINE h == [T \in SUBSET R |-> g[T]]
  <1>1. ASSUME NEW T \in SUBSET R
        PROVE  h[T] = IF T = {} THEN 0 ELSE w[Pick(T)] + h[T \ {Pick(T)}]
    <2>1. T \in SUBSET S /\ T \ {Pick(T)} \in SUBSET R
      OBVIOUS
    <2>2. g[T] = IF T = {} THEN 0 ELSE w[Pick(T)] + g[T \ {Pick(T)}]
      BY <2>1 DEF IsSum
    <2>. QED  BY <2>1, <2>2
  <1>. QED  BY <1>1 DEF IsSum

(* A sum over S has those over the subsets of S. *)
LEMMA SumIs ==
    ASSUME NEW S, IsFiniteSet(S), NEW w, NEW g, IsSum(g, w, S),
           NEW R \in SUBSET S
    PROVE  SumOf(w, R) = g[R]
  <1>. DEFINE h == [T \in SUBSET R |-> g[T]]
  <1>1. IsSum(h, w, R) /\ IsFiniteSet(R)
    BY SumRestricts, FS_Subset
  <1>. HIDE DEF h
  <1>2. IsSum(CHOOSE k : IsSum(k, w, R), w, R)
    BY <1>1
  <1>3. (CHOOSE k : IsSum(k, w, R)) = h
    BY <1>1, <1>2, SumUnique
  <1>. QED  BY <1>3 DEF h, SumOf

(* and there is one. *)
LEMMA SumExists ==
    ASSUME NEW S, IsFiniteSet(S), NEW w \in [S -> Nat]
    PROVE  \E g \in [SUBSET S -> Nat] : IsSum(g, w, S)
  <1>. DEFINE Has(R) == \E g \in [SUBSET R -> Nat] : IsSum(g, w, R)
              Bad == {R \in SUBSET S : ~Has(R)}
  <1>. SUFFICES Bad = {}
    OBVIOUS
  <1>. SUFFICES ASSUME Bad # {} PROVE FALSE
    OBVIOUS
  <1>0. Bad \in SUBSET (SUBSET S)
    OBVIOUS
  <1>. HIDE DEF Bad
  <1>1. PICK R \in Bad : \A U \in Bad : U \subseteq R => U = R
    BY <1>0, LeastSubset
  <1>. USE DEF Bad
  <1>2. ASSUME NEW T \in SUBSET R, T # R
        PROVE  /\ SumOf(w, T) \in Nat
               /\ SumOf(w, T) = IF T = {} THEN 0
                                ELSE w[Pick(T)] + SumOf(w, T \ {Pick(T)})
    <2>1. Has(T) /\ IsFiniteSet(T)
      BY <1>1, <1>2, FS_Subset
    <2>2. PICK g \in [SUBSET T -> Nat] : IsSum(g, w, T)
      BY <2>1
    <2>3. \A U \in SUBSET T : SumOf(w, U) = g[U]
      BY <2>1, <2>2, SumIs
    <2>4. g[T] = IF T = {} THEN 0 ELSE w[Pick(T)] + g[T \ {Pick(T)}]
      BY <2>2 DEF IsSum
    <2>. QED  BY <2>3, <2>4
  <1>. DEFINE g == [T \in SUBSET R |->
                      IF T = {} THEN 0
                      ELSE w[Pick(T)] + SumOf(w, T \ {Pick(T)})]
  <1>3. ASSUME NEW T \in SUBSET R, T # {}
        PROVE  /\ T \ {Pick(T)} \in SUBSET R /\ T \ {Pick(T)} # R
               /\ w[Pick(T)] \in Nat
    BY <1>3, Picked
  <1>4. ASSUME NEW T \in SUBSET R
        PROVE  g[T] \in Nat
    <2>1. CASE T = {}
      BY <2>1
    <2>2. CASE T # {}
      <3>. DEFINE U == T \ {Pick(T)}
      <3>1. U \in SUBSET R /\ U # R /\ w[Pick(T)] \in Nat
        BY <1>3, <2>2
      <3>. HIDE DEF U
      <3>2. SumOf(w, U) \in Nat
        BY <1>2, <3>1
      <3>3. g[T] = w[Pick(T)] + SumOf(w, U)
        BY <2>2 DEF U
      <3>. QED  BY <3>1, <3>2, <3>3
    <2>. QED  BY <2>1, <2>2
  <1>5. \A T \in SUBSET R : T # R => g[T] = SumOf(w, T)
    BY <1>2
  <1>6. IsSum(g, w, R)
    <2>1. \A T \in SUBSET R : T # {} =>
             g[T \ {Pick(T)}] = SumOf(w, T \ {Pick(T)})
      BY <1>3, <1>5
    <2>. QED  BY <2>1 DEF IsSum
  <1>7. g \in [SUBSET R -> Nat]
    BY <1>4
  <1>. QED  BY <1>1, <1>6, <1>7

(* A sum does not depend on the order it is taken in. *)
LEMMA SumTakes ==
    ASSUME NEW S, IsFiniteSet(S), NEW w \in [S -> Nat], NEW T \in SUBSET S
    PROVE  /\ SumOf(w, T) \in Nat
           /\ T = {} => SumOf(w, T) = 0
           /\ \A x \in T : SumOf(w, T) = w[x] + SumOf(w, T \ {x})
  <1>. DEFINE Sum(U) == SumOf(w, U)
  <1>1. ASSUME NEW U \in SUBSET S
        PROVE  /\ Sum(U) \in Nat
               /\ Sum(U) = IF U = {} THEN 0
                           ELSE w[Pick(U)] + Sum(U \ {Pick(U)})
    <2>1. PICK g \in [SUBSET S -> Nat] : IsSum(g, w, S)
      BY SumExists
    <2>2. \A V \in SUBSET S : Sum(V) = g[V]
      BY <2>1, SumIs
    <2>3. g[U] = IF U = {} THEN 0 ELSE w[Pick(U)] + g[U \ {Pick(U)}]
      BY <2>1 DEF IsSum
    <2>. QED  BY <2>2, <2>3
  <1>. HIDE DEF Sum
  <1>. DEFINE Bad == {U \in SUBSET S :
                        \E x \in U : Sum(U) # w[x] + Sum(U \ {x})}
  <1>2. ASSUME Bad # {} PROVE FALSE
    <2>0. Bad \in SUBSET (SUBSET S)
      OBVIOUS
    <2>. HIDE DEF Bad
    <2>1. PICK U \in Bad : \A V \in Bad : V \subseteq U => V = U
      BY <1>2, <2>0, LeastSubset
    <2>. USE DEF Bad
    <2>2. PICK x \in U : Sum(U) # w[x] + Sum(U \ {x})
      BY <2>1
    <2>. DEFINE y == Pick(U)
    <2>3. y \in U /\ Sum(U) = w[y] + Sum(U \ {y})
      BY <1>1, <2>1, <2>2, Picked
    <2>. HIDE DEF y
    <2>4. x # y
      BY <2>2, <2>3
    <2>5. U \ {y} \notin Bad /\ U \ {x} \notin Bad
          /\ U \ {y} \in SUBSET S /\ U \ {x} \in SUBSET S
      BY <2>1, <2>2, <2>3
    <2>6. Sum(U \ {y}) = w[x] + Sum((U \ {y}) \ {x})
      BY <2>2, <2>4, <2>5
    <2>7. Sum(U \ {x}) = w[y] + Sum((U \ {x}) \ {y})
      BY <2>3, <2>4, <2>5
    <2>8. (U \ {x}) \ {y} = (U \ {y}) \ {x}
      OBVIOUS
    <2>9. w[x] \in Nat /\ w[y] \in Nat /\ Sum((U \ {x}) \ {y}) \in Nat
      BY <1>1, <2>2, <2>3, <2>5
    <2>10. Sum(U) = w[y] + (w[x] + Sum((U \ {x}) \ {y}))
      BY <2>3, <2>6, <2>8
    <2>11. w[x] + Sum(U \ {x}) = w[x] + (w[y] + Sum((U \ {x}) \ {y}))
      BY <2>7
    <2>. QED  BY <2>2, <2>9, <2>10, <2>11
  <1>. QED  BY <1>1, <1>2 DEF Sum

(* More summands, no smaller a sum. *)
LEMMA SumGrows ==
    ASSUME NEW S, IsFiniteSet(S), NEW w \in [S -> Nat], NEW T \in SUBSET S,
           NEW R \in SUBSET T
    PROVE  SumOf(w, R) <= SumOf(w, T)
  <1>. DEFINE Sum(U) == SumOf(w, U)
              Bad == {U \in SUBSET S : \E V \in SUBSET U : ~(Sum(V) <= Sum(U))}
  <1>1. ASSUME NEW U \in SUBSET S
        PROVE  /\ Sum(U) \in Nat
               /\ \A x \in U : Sum(U) = w[x] + Sum(U \ {x})
    BY SumTakes
  <1>. HIDE DEF Sum
  <1>2. ASSUME Bad # {} PROVE FALSE
    <2>0. Bad \in SUBSET (SUBSET S)
      OBVIOUS
    <2>. HIDE DEF Bad
    <2>1. PICK U \in Bad : \A V \in Bad : V \subseteq U => V = U
      BY <1>2, <2>0, LeastSubset
    <2>. USE DEF Bad
    <2>2. PICK V \in SUBSET U : ~(Sum(V) <= Sum(U))
      BY <2>1
    <2>3. V # U
      BY <1>1, <2>1, <2>2
    <2>4. PICK x \in U : x \notin V
      BY <2>3
    <2>5. U \ {x} \in SUBSET S /\ U \ {x} \notin Bad /\ V \subseteq U \ {x}
      BY <2>1, <2>2, <2>4
    <2>6. Sum(V) <= Sum(U \ {x})
      BY <2>5
    <2>7. Sum(U) = w[x] + Sum(U \ {x}) /\ w[x] \in Nat
      BY <1>1, <2>4
    <2>8. Sum(V) \in Nat /\ Sum(U \ {x}) \in Nat
      BY <1>1, <2>1, <2>5
    <2>. QED  BY <2>2, <2>6, <2>7, <2>8
  <1>. QED  BY <1>2 DEF Sum

(* A sum depends on its summands only. *)
LEMMA SumAgrees ==
    ASSUME NEW S, IsFiniteSet(S), NEW w \in [S -> Nat], NEW v \in [S -> Nat],
           NEW T \in SUBSET S, \A x \in T : w[x] = v[x]
    PROVE  SumOf(w, T) = SumOf(v, T)
  <1>. DEFINE Bad == {U \in SUBSET S : U \subseteq T /\ SumOf(w, U) # SumOf(v, U)}
  <1>1. ASSUME Bad # {} PROVE FALSE
    <2>0. Bad \in SUBSET (SUBSET S)
      OBVIOUS
    <2>. HIDE DEF Bad
    <2>1. PICK U \in Bad : \A V \in Bad : V \subseteq U => V = U
      BY <1>1, <2>0, LeastSubset
    <2>. USE DEF Bad
    <2>2. U # {}
      BY <2>1, SumTakes
    <2>3. PICK x \in U : TRUE
      BY <2>2
    <2>4. U \ {x} \in SUBSET S /\ U \ {x} \notin Bad /\ U \ {x} \subseteq T
      BY <2>1, <2>3
    <2>5. SumOf(w, U \ {x}) = SumOf(v, U \ {x}) /\ w[x] = v[x]
      BY <2>1, <2>3, <2>4
    <2>6. SumOf(w, U) = w[x] + SumOf(w, U \ {x})
      BY <2>1, <2>3, SumTakes
    <2>7. SumOf(v, U) = v[x] + SumOf(v, U \ {x})
      BY <2>1, <2>3, SumTakes
    <2>. QED  BY <2>1, <2>5, <2>6, <2>7
  <1>. QED  BY <1>1

=============================================================================
