------------------------- MODULE SharedLedgerProofs -------------------------
(***************************************************************************)
(* For any people, amounts, weights and requests: what an amount is        *)
(* divided into adds up to it, and the shared ledger keeps its types, its  *)
(* sums, its balances and its visible history.  It begins with the lemmas  *)
(* about sums: in whatever order the elements of a finite set are taken, a *)
(* sum is an element and the sum of the others.                            *)
(***************************************************************************)
EXTENDS SharedLedger, FiniteSetTheorems, WellFoundedInduction, TLAPS

-----------------------------------------------------------------------------
(* Induction on the subsets of a finite set. *)

LEMMA SubsetInduction ==
  ASSUME NEW S, IsFiniteSet(S), NEW Good,
         \A T \in SUBSET S : (\A R \in SUBSET T : R # T => R \in Good) => T \in Good
  PROVE  \A T \in SUBSET S : T \in Good
  <1> DEFINE Bad == {T \in SUBSET S : T \notin Good}
             Below == StrictSubsetOrdering(S)
  <1>1. SUFFICES ASSUME Bad # {} PROVE FALSE
    OBVIOUS
  <1>2. IsWellFoundedOn(Below, SUBSET S)
    BY FS_StrictSubsetOrderingWellFounded, FS_FiniteSubsetsOfFinite
  <1>3. Bad \subseteq SUBSET S
    OBVIOUS
  <1> HIDE DEF Bad, Below
  <1>4. PICK T \in Bad : \A R \in Bad : ~(<<R, T>> \in Below)
    BY <1>1, <1>2, <1>3, WFMin
  <1>5. T \in SUBSET S /\ T \notin Good
    BY DEF Bad
  <1>6. \A R \in SUBSET T : R # T => R \in Good
    <2>1. SUFFICES ASSUME NEW R \in SUBSET T, R # T, R \notin Good PROVE FALSE
      OBVIOUS
    <2>2. R \in Bad
      BY <1>5, <2>1 DEF Bad
    <2>3. <<R, T>> \in Below
      BY <1>5, <2>1 DEF Below, StrictSubsetOrdering
    <2>4. QED
      BY <1>4, <2>2, <2>3
  <1>7. QED
    BY <1>5, <1>6

-----------------------------------------------------------------------------
(* The fold that a sum is: a function of the subsets. *)

Pick(s) == CHOOSE x \in s : TRUE
Body(w, F, s) == IF s = {} THEN 0 ELSE w[Pick(s)] + F[s \ {Pick(s)}]
IsFold(w, S, F) == F = [s \in SUBSET S |-> Body(w, F, s)]
SumOn(w, S) == (CHOOSE F : IsFold(w, S, F))[S]

LEMMA SumOverIsSumOn ==
  ASSUME NEW w
  PROVE  SumOver(w) = SumOn(w, DOMAIN w)
  BY DEF SumOver, MapThenSumSet, MapThenFoldSet, SumOn, IsFold, Body, Pick

LEMMA PickIn ==
  ASSUME NEW s, s # {}
  PROVE  Pick(s) \in s
  BY DEF Pick

LEMMA FoldRestricted ==
  ASSUME NEW w, NEW S, NEW F, IsFold(w, S, F), NEW T \in SUBSET S
  PROVE  IsFold(w, T, [s \in SUBSET T |-> F[s]])
  <1> DEFINE G == [s \in SUBSET T |-> F[s]]
  <1>1. \A s \in SUBSET T : F[s] = Body(w, F, s)
    BY DEF IsFold
  <1>2. \A s \in SUBSET T : Body(w, G, s) = Body(w, F, s)
    BY DEF Body
  <1>3. G = [s \in SUBSET T |-> Body(w, G, s)]
    BY <1>1, <1>2
  <1>4. QED
    BY <1>3 DEF IsFold

LEMMA FoldUnique ==
  ASSUME NEW w, NEW S, IsFiniteSet(S), NEW F, NEW G, IsFold(w, S, F), IsFold(w, S, G)
  PROVE  F = G
  <1> DEFINE Good == {s \in SUBSET S : F[s] = G[s]}
  <1>1. \A s \in SUBSET S : F[s] = Body(w, F, s) /\ G[s] = Body(w, G, s)
    BY DEF IsFold
  <1>2. ASSUME NEW T \in SUBSET S, \A R \in SUBSET T : R # T => R \in Good
        PROVE  T \in Good
    <2>1. CASE T = {}
      BY <1>1, <2>1 DEF Body
    <2>2. CASE T # {}
      <3>1. Pick(T) \in T
        BY <2>2, PickIn
      <3>2. T \ {Pick(T)} \in Good
        BY <1>2, <3>1
      <3>3. QED
        BY <1>1, <2>2, <3>2 DEF Body
    <2>3. QED
      BY <2>1, <2>2
  <1> HIDE DEF Good
  <1>3. \A s \in SUBSET S : s \in Good
    BY <1>2, SubsetInduction
  <1>4. \A s \in SUBSET S : F[s] = G[s]
    BY <1>3 DEF Good
  <1>5. F = [s \in SUBSET S |-> F[s]] /\ G = [s \in SUBSET S |-> G[s]]
    BY DEF IsFold
  <1>6. QED
    BY <1>4, <1>5

\* A fold of a set gives the sums of its subsets.
LEMMA FoldGivesSums ==
  ASSUME NEW w, NEW S, IsFiniteSet(S), NEW F, IsFold(w, S, F), NEW T \in SUBSET S
  PROVE  F[T] = SumOn(w, T)
  <1> DEFINE G == [s \in SUBSET T |-> F[s]]
             H == CHOOSE H : IsFold(w, T, H)
  <1>1. IsFold(w, T, G)
    BY FoldRestricted
  <1>2. IsFold(w, T, H)
    BY <1>1
  <1>3. IsFiniteSet(T)
    BY FS_Subset
  <1>4. G = H
    BY <1>1, <1>2, <1>3, FoldUnique
  <1>5. QED
    BY <1>4 DEF SumOn

LEMMA FoldExists ==
  ASSUME NEW w, NEW S, IsFiniteSet(S)
  PROVE  \E F : IsFold(w, S, F)
  <1> DEFINE Good == {T \in SUBSET S : \E F : IsFold(w, T, F)}
  <1>1. ASSUME NEW T \in SUBSET S, \A R \in SUBSET T : R # T => R \in Good
        PROVE  T \in Good
    <2> DEFINE V(s) == IF s = T THEN Body(w, [r \in SUBSET T |-> SumOn(w, r)], T)
                       ELSE SumOn(w, s)
               F == [s \in SUBSET T |-> V(s)]
    <2>1. ASSUME NEW s \in SUBSET T PROVE V(s) = Body(w, F, s)
      <3>1. CASE s = {}
        <4>1. CASE s = T
          BY <3>1, <4>1 DEF Body
        <4>2. CASE s # T
          <5>1. s \in Good /\ IsFiniteSet(s)
            BY <1>1, <4>2, FS_Subset
          <5>2. PICK H : IsFold(w, s, H)
            BY <5>1
          <5>3. H[s] = SumOn(w, s)
            BY <5>1, <5>2, FoldGivesSums
          <5>4. H[s] = Body(w, H, s)
            BY <5>2 DEF IsFold
          <5>5. QED
            BY <3>1, <4>2, <5>3, <5>4 DEF Body
        <4>3. QED
          BY <4>1, <4>2
      <3>2. CASE s # {}
        <4>1. Pick(s) \in s
          BY <3>2, PickIn
        <4>2. s \ {Pick(s)} \in SUBSET T /\ s \ {Pick(s)} # T
          BY <4>1
        <4>3. F[s \ {Pick(s)}] = SumOn(w, s \ {Pick(s)})
          BY <4>2
        <4>4. CASE s = T
          <5> DEFINE Z == [r \in SUBSET T |-> SumOn(w, r)]
          <5>1. Z[s \ {Pick(s)}] = SumOn(w, s \ {Pick(s)})
            BY <4>2
          <5>2. Body(w, Z, s) = w[Pick(s)] + Z[s \ {Pick(s)}]
            BY <3>2 DEF Body
          <5>3. Body(w, F, s) = w[Pick(s)] + F[s \ {Pick(s)}]
            BY <3>2 DEF Body
          <5>4. V(s) = Body(w, Z, s)
            BY <4>4
          <5> HIDE DEF F, V, Z
          <5>5. QED
            BY <4>3, <5>1, <5>2, <5>3, <5>4
        <4>5. CASE s # T
          <5>1. s \in Good /\ IsFiniteSet(s)
            BY <1>1, <4>5, FS_Subset
          <5>2. PICK H : IsFold(w, s, H)
            BY <5>1
          <5>3. s \in SUBSET s /\ s \ {Pick(s)} \in SUBSET s
            OBVIOUS
          <5>4. H[s] = SumOn(w, s) /\ H[s \ {Pick(s)}] = SumOn(w, s \ {Pick(s)})
            <6>1. IsFiniteSet(s)
              BY <5>1
            <6> HIDE DEF Good, F, V
            <6>2. \A r \in SUBSET s : H[r] = SumOn(w, r)
              BY <5>2, <6>1, FoldGivesSums
            <6>3. QED
              BY <5>3, <6>2
          <5>5. H[s] = Body(w, H, s)
            BY <5>2 DEF IsFold
          <5>6. Body(w, H, s) = w[Pick(s)] + H[s \ {Pick(s)}]
            BY <3>2 DEF Body
          <5>7. Body(w, F, s) = w[Pick(s)] + F[s \ {Pick(s)}]
            BY <3>2 DEF Body
          <5>8. V(s) = SumOn(w, s)
            BY <4>5
          <5> HIDE DEF F, V
          <5>9. QED
            BY <4>3, <5>4, <5>5, <5>6, <5>7, <5>8
        <4>6. QED
          BY <4>4, <4>5
      <3>3. QED
        BY <3>1, <3>2
    <2>2. F = [s \in SUBSET T |-> Body(w, F, s)]
      BY <2>1
    <2>3. IsFold(w, T, F)
      BY <2>2 DEF IsFold
    <2>4. QED
      BY <2>3
  <1>2. \A T \in SUBSET S : T \in Good
    <2> HIDE DEF Good
    <2>1. QED
      BY <1>1, SubsetInduction
  <1>3. QED
    BY <1>2

\* The equation of sums.
LEMMA SumOnStep ==
  ASSUME NEW w, NEW S, IsFiniteSet(S)
  PROVE  SumOn(w, S) = IF S = {} THEN 0
                       ELSE w[Pick(S)] + SumOn(w, S \ {Pick(S)})
  <1>1. PICK F : IsFold(w, S, F)
    BY FoldExists
  <1>2. F[S] = SumOn(w, S) /\ F[S \ {Pick(S)}] = SumOn(w, S \ {Pick(S)})
    <2>1. S \in SUBSET S /\ S \ {Pick(S)} \in SUBSET S
      OBVIOUS
    <2>2. QED
      BY <1>1, <2>1, FoldGivesSums
  <1>3. F[S] = Body(w, F, S)
    BY <1>1 DEF IsFold
  <1>4. QED
    BY <1>2, <1>3 DEF Body

-----------------------------------------------------------------------------
(* Facts about sums. *)

LEMMA SumEmpty == \A w : SumOn(w, {}) = 0
  BY SumOnStep, FS_EmptySet

LEMMA SumType ==
  ASSUME NEW w, NEW S, IsFiniteSet(S), \A k \in S : w[k] \in Int
  PROVE  SumOn(w, S) \in Int
  <1> DEFINE Good == {T \in SUBSET S : SumOn(w, T) \in Int}
  <1>1. ASSUME NEW T \in SUBSET S, \A R \in SUBSET T : R # T => R \in Good
        PROVE  T \in Good
    <2>1. IsFiniteSet(T)
      BY FS_Subset
    <2>2. CASE T = {}
      BY <2>2, SumEmpty
    <2>3. CASE T # {}
      <3>1. Pick(T) \in T
        BY <2>3, PickIn
      <3>2. T \ {Pick(T)} \in Good /\ w[Pick(T)] \in Int
        BY <1>1, <3>1
      <3>3. SumOn(w, T) = w[Pick(T)] + SumOn(w, T \ {Pick(T)})
        BY <2>1, <2>3, SumOnStep
      <3>4. QED
        BY <3>2, <3>3
    <2>4. QED
      BY <2>2, <2>3
  <1>2. \A T \in SUBSET S : T \in Good
    <2> HIDE DEF Good
    <2>1. QED
      BY <1>1, SubsetInduction
  <1>3. QED
    BY <1>2

\* A sum is any element and the sum of the others.
LEMMA SumTake ==
  ASSUME NEW w, NEW S, IsFiniteSet(S), \A k \in S : w[k] \in Int, NEW y \in S
  PROVE  SumOn(w, S) = w[y] + SumOn(w, S \ {y})
  <1> DEFINE Good == {T \in SUBSET S : \A z \in T : SumOn(w, T) = w[z] + SumOn(w, T \ {z})}
  <1>1. ASSUME NEW T \in SUBSET S, \A R \in SUBSET T : R # T => R \in Good
        PROVE  T \in Good
    <2>1. SUFFICES ASSUME NEW z \in T PROVE SumOn(w, T) = w[z] + SumOn(w, T \ {z})
      OBVIOUS
    <2>2. PICK x : x = Pick(T)
      OBVIOUS
    <2>3. IsFiniteSet(T) /\ T # {} /\ x \in T
      BY <2>1, <2>2, FS_Subset, PickIn
    <2>4. SumOn(w, T) = w[x] + SumOn(w, T \ {x})
      BY <2>2, <2>3, SumOnStep
    <2>5. CASE x = z
      BY <2>4, <2>5
    <2>6. CASE x # z
      <3>1. T \ {x} \in Good /\ T \ {z} \in Good
        BY <1>1, <2>1, <2>3
      <3>2. SumOn(w, T \ {x}) = w[z] + SumOn(w, (T \ {x}) \ {z})
        BY <2>1, <2>6, <3>1
      <3>3. SumOn(w, T \ {z}) = w[x] + SumOn(w, (T \ {z}) \ {x})
        BY <2>3, <2>6, <3>1
      <3>4. (T \ {x}) \ {z} = (T \ {z}) \ {x}
        OBVIOUS
      <3>5. w[x] \in Int /\ w[z] \in Int /\ SumOn(w, (T \ {x}) \ {z}) \in Int
        <4>1. IsFiniteSet((T \ {x}) \ {z})
          BY <2>3, FS_Subset
        <4>2. SumOn(w, (T \ {x}) \ {z}) \in Int
          BY <4>1, SumType
        <4>3. QED
          BY <2>1, <2>3, <4>2
      <3>6. PICK r \in Int : r = SumOn(w, (T \ {x}) \ {z})
        BY <3>5
      <3>7. SumOn(w, T \ {x}) = w[z] + r /\ SumOn(w, T \ {z}) = w[x] + r
        BY <3>2, <3>3, <3>4, <3>6
      <3>8. SumOn(w, T) = w[x] + (w[z] + r)
        BY <2>4, <3>7
      <3>9. w[x] + (w[z] + r) = w[z] + (w[x] + r)
        BY <3>5
      <3>10. QED
        BY <3>7, <3>8, <3>9
    <2>7. QED
      BY <2>5, <2>6
  <1>2. \A T \in SUBSET S : T \in Good
    <2> HIDE DEF Good
    <2>1. QED
      BY <1>1, SubsetInduction
  <1>3. S \in Good
    BY <1>2
  <1>4. QED
    BY <1>3

LEMMA SumSame ==
  ASSUME NEW v, NEW w, NEW S, IsFiniteSet(S), \A k \in S : v[k] = w[k]
  PROVE  SumOn(v, S) = SumOn(w, S)
  <1> DEFINE Good == {T \in SUBSET S : SumOn(v, T) = SumOn(w, T)}
  <1>1. ASSUME NEW T \in SUBSET S, \A R \in SUBSET T : R # T => R \in Good
        PROVE  T \in Good
    <2>1. IsFiniteSet(T)
      BY FS_Subset
    <2>2. CASE T = {}
      BY <2>2, SumEmpty
    <2>3. CASE T # {}
      <3>1. Pick(T) \in T
        BY <2>3, PickIn
      <3>2. T \ {Pick(T)} \in Good /\ v[Pick(T)] = w[Pick(T)]
        BY <1>1, <3>1
      <3>3. /\ SumOn(w, T) = w[Pick(T)] + SumOn(w, T \ {Pick(T)})
            /\ SumOn(v, T) = v[Pick(T)] + SumOn(v, T \ {Pick(T)})
        BY <2>1, <2>3, SumOnStep
      <3>4. QED
        BY <3>2, <3>3
    <2>4. QED
      BY <2>2, <2>3
  <1>2. \A T \in SUBSET S : T \in Good
    <2> HIDE DEF Good
    <2>1. QED
      BY <1>1, SubsetInduction
  <1>3. QED
    BY <1>2

LEMMA SumPlus ==
  ASSUME NEW u, NEW v, NEW w, NEW S, IsFiniteSet(S),
         \A k \in S : v[k] \in Int /\ w[k] \in Int /\ u[k] = v[k] + w[k]
  PROVE  SumOn(u, S) = SumOn(v, S) + SumOn(w, S)
  <1> DEFINE Good == {T \in SUBSET S : SumOn(u, T) = SumOn(v, T) + SumOn(w, T)}
  <1>1. ASSUME NEW T \in SUBSET S, \A R \in SUBSET T : R # T => R \in Good
        PROVE  T \in Good
    <2>1. IsFiniteSet(T)
      BY FS_Subset
    <2>2. CASE T = {}
      BY <2>2, SumEmpty
    <2>3. CASE T # {}
      <3>1. PICK x : x = Pick(T)
        OBVIOUS
      <3>2. x \in T /\ IsFiniteSet(T \ {x})
        BY <2>1, <2>3, <3>1, PickIn, FS_Subset
      <3>3. T \ {x} \in Good
        BY <1>1, <3>2
      <3>4. /\ SumOn(u, T) = u[x] + SumOn(u, T \ {x})
            /\ SumOn(v, T) = v[x] + SumOn(v, T \ {x})
            /\ SumOn(w, T) = w[x] + SumOn(w, T \ {x})
        BY <2>1, <2>3, <3>1, SumOnStep
      <3>5. SumOn(v, T \ {x}) \in Int
        BY <3>2, SumType
      <3>6. SumOn(w, T \ {x}) \in Int
        BY <3>2, SumType
      <3>7. v[x] \in Int /\ w[x] \in Int /\ u[x] = v[x] + w[x]
        BY <3>2
      <3>8. QED
        BY <3>3, <3>4, <3>5, <3>6, <3>7
    <2>4. QED
      BY <2>2, <2>3
  <1>2. \A T \in SUBSET S : T \in Good
    <2> HIDE DEF Good
    <2>1. QED
      BY <1>1, SubsetInduction
  <1>3. QED
    BY <1>2

LEMMA SumZero ==
  ASSUME NEW w, NEW S, IsFiniteSet(S), \A k \in S : w[k] = 0
  PROVE  SumOn(w, S) = 0
  <1>1. \A k \in S : w[k] \in Int /\ w[k] = w[k] + w[k]
    OBVIOUS
  <1>2. PICK n \in Int : n = SumOn(w, S)
    BY <1>1, SumType
  <1>3. SumOn(w, S) = SumOn(w, S) + SumOn(w, S)
    BY <1>1, SumPlus
  <1>4. n = n + n
    BY <1>2, <1>3
  <1>5. n = 0
    BY <1>4
  <1>6. QED
    BY <1>2, <1>5

\* Where one of the addends changes, by as much.
LEMMA SumUpdate ==
  ASSUME NEW v, NEW w, NEW S, IsFiniteSet(S), NEW y \in S,
         \A k \in S : v[k] \in Int /\ w[k] \in Int, \A k \in S \ {y} : v[k] = w[k]
  PROVE  SumOn(v, S) = SumOn(w, S) - w[y] + v[y]
  <1>1. IsFiniteSet(S \ {y})
    BY FS_Subset
  <1>2. SumOn(v, S \ {y}) = SumOn(w, S \ {y}) /\ SumOn(w, S \ {y}) \in Int
    BY <1>1, SumSame, SumType
  <1>3. /\ SumOn(v, S) = v[y] + SumOn(v, S \ {y})
        /\ SumOn(w, S) = w[y] + SumOn(w, S \ {y})
    BY SumTake
  <1>4. QED
    BY <1>2, <1>3

LEMMA SumCount ==
  ASSUME NEW w, NEW S, IsFiniteSet(S), NEW U \in SUBSET S,
         \A k \in S : w[k] = IF k \in U THEN 1 ELSE 0
  PROVE  SumOn(w, S) = Cardinality(U)
  <1> DEFINE Good == {T \in SUBSET S : SumOn(w, T) = Cardinality(U \cap T)}
  <1>1. ASSUME NEW T \in SUBSET S, \A R \in SUBSET T : R # T => R \in Good
        PROVE  T \in Good
    <2>1. IsFiniteSet(T)
      BY FS_Subset
    <2>2. CASE T = {}
      BY <2>2, SumEmpty, FS_EmptySet
    <2>3. CASE T # {}
      <3>1. PICK x : x = Pick(T)
        OBVIOUS
      <3>2. x \in T /\ IsFiniteSet(U \cap (T \ {x}))
        BY <2>1, <2>3, <3>1, PickIn, FS_Subset
      <3>3. SumOn(w, T \ {x}) = Cardinality(U \cap (T \ {x}))
        BY <1>1, <3>2
      <3>4. SumOn(w, T) = w[x] + SumOn(w, T \ {x})
        BY <2>1, <2>3, <3>1, SumOnStep
      <3>5. Cardinality(U \cap (T \ {x})) \in Nat
        BY <3>2, FS_CardinalityType
      <3>6. CASE x \in U
        <4>1. U \cap T = (U \cap (T \ {x})) \cup {x}
          BY <3>2, <3>6
        <4>2. Cardinality(U \cap T) = Cardinality(U \cap (T \ {x})) + 1
          BY <3>2, <4>1, FS_AddElement
        <4>3. w[x] = 1
          BY <3>2, <3>6
        <4>4. QED
          BY <3>3, <3>4, <3>5, <4>2, <4>3
      <3>7. CASE x \notin U
        <4>1. U \cap T = U \cap (T \ {x}) /\ w[x] = 0
          BY <3>2, <3>7
        <4>2. Cardinality(U \cap T) = Cardinality(U \cap (T \ {x}))
          BY <4>1, Zenon
        <4>3. SumOn(w, T) = SumOn(w, T \ {x})
          BY <3>3, <3>4, <3>5, <4>1
        <4>4. QED
          BY <3>3, <4>2, <4>3
      <3>8. QED
        BY <3>6, <3>7
    <2>4. QED
      BY <2>2, <2>3
  <1>2. \A T \in SUBSET S : T \in Good
    <2> HIDE DEF Good
    <2>1. QED
      BY <1>1, SubsetInduction
  <1>3. SumOn(w, S) = Cardinality(U \cap S) /\ U \cap S = U
    BY <1>2
  <1>4. QED
    BY <1>3

\* The same addends under other names.
Renames(g, v, w, S) ==
  /\ IsFiniteSet(S)
  /\ \A k \in S : w[g[k]] = v[k] /\ v[k] \in Int
  /\ \A j, k \in S : g[j] = g[k] => j = k

LEMMA SumImage ==
  ASSUME NEW v, NEW w, NEW S, NEW g, Renames(g, v, w, S)
  PROVE  SumOn(w, {g[k] : k \in S}) = SumOn(v, S) /\ IsFiniteSet({g[k] : k \in S})
  <1> USE DEF Renames
  <1> DEFINE Good == {T \in SUBSET S : /\ IsFiniteSet({g[k] : k \in T})
                                      /\ SumOn(w, {g[k] : k \in T}) = SumOn(v, T)}
  <1>1. ASSUME NEW T \in SUBSET S, \A R \in SUBSET T : R # T => R \in Good
        PROVE  T \in Good
    <2>1. IsFiniteSet(T)
      BY FS_Subset
    <2>2. CASE T = {}
      <3>1. {g[k] : k \in T} = {}
        BY <2>2
      <3>2. QED
        BY <2>2, <3>1, SumEmpty, FS_EmptySet
    <2>3. CASE T # {}
      <3>1. PICK x : x = Pick(T)
        OBVIOUS
      <3>2. x \in T
        BY <2>3, <3>1, PickIn
      <3>3. T \ {x} \in Good
        BY <1>1, <3>2
      <3>4. SumOn(v, T) = v[x] + SumOn(v, T \ {x})
        BY <2>1, <2>3, <3>1, SumOnStep
      <3>5. {g[k] : k \in T} \ {g[x]} = {g[k] : k \in T \ {x}}
        BY <3>2
      <3>6. IsFiniteSet({g[k] : k \in T})
        <4>1. {g[k] : k \in T} = {g[k] : k \in T \ {x}} \cup {g[x]}
          BY <3>2
        <4>2. IsFiniteSet({g[k] : k \in T \ {x}})
          BY <3>3
        <4>3. IsFiniteSet({g[k] : k \in T \ {x}} \cup {g[x]})
          BY <4>2, FS_AddElement
        <4>4. QED
          BY <4>1, <4>3
      <3>7. SumOn(w, {g[k] : k \in T}) = w[g[x]] + SumOn(w, {g[k] : k \in T} \ {g[x]})
        <4>1. \A y \in {g[k] : k \in T} : w[y] \in Int
          OBVIOUS
        <4>2. g[x] \in {g[k] : k \in T}
          BY <3>2
        <4>3. QED
          BY <3>6, <4>1, <4>2, SumTake
      <3>8. QED
        BY <3>2, <3>3, <3>4, <3>5, <3>6, <3>7
    <2>4. QED
      BY <2>2, <2>3
  <1>2. \A T \in SUBSET S : T \in Good
    <2> HIDE DEF Good
    <2>1. QED
      BY <1>1, SubsetInduction
  <1>3. QED
    BY <1>2

\* What has no negative addend is nowhere more than the sum.
LEMMA SumAtLeast ==
  ASSUME NEW w, NEW S, IsFiniteSet(S), \A k \in S : w[k] \in Int /\ w[k] >= 0
  PROVE  SumOn(w, S) >= 0 /\ \A k \in S : w[k] <= SumOn(w, S)
  <1> DEFINE Good == {T \in SUBSET S : SumOn(w, T) >= 0}
  <1>1. ASSUME NEW T \in SUBSET S, \A R \in SUBSET T : R # T => R \in Good
        PROVE  T \in Good
    <2>1. IsFiniteSet(T)
      BY FS_Subset
    <2>2. CASE T = {}
      BY <2>2, SumEmpty
    <2>3. CASE T # {}
      <3>1. PICK x : x = Pick(T)
        OBVIOUS
      <3>2. x \in T /\ IsFiniteSet(T \ {x})
        BY <2>1, <2>3, <3>1, PickIn, FS_Subset
      <3>3. SumOn(w, T \ {x}) >= 0
        BY <1>1, <3>2
      <3>4. SumOn(w, T \ {x}) \in Int
        BY <3>2, SumType
      <3>5. SumOn(w, T) = w[x] + SumOn(w, T \ {x})
        BY <2>1, <2>3, <3>1, SumOnStep
      <3>6. QED
        BY <3>2, <3>3, <3>4, <3>5
    <2>4. QED
      BY <2>2, <2>3
  <1>2. \A T \in SUBSET S : T \in Good
    <2> HIDE DEF Good
    <2>1. QED
      BY <1>1, SubsetInduction
  <1>3. ASSUME NEW k \in S PROVE w[k] <= SumOn(w, S)
    <2>1. SumOn(w, S \ {k}) >= 0
      BY <1>2
    <2>2. IsFiniteSet(S \ {k})
      BY FS_Subset
    <2>3. SumOn(w, S \ {k}) \in Int
      BY <2>2, SumType
    <2>4. SumOn(w, S) = w[k] + SumOn(w, S \ {k})
      BY SumTake
    <2>5. QED
      BY <2>1, <2>3, <2>4
  <1>4. QED
    BY <1>2, <1>3

\* What adds up to zero and is all of one sign is zero.
LEMMA SumOneSign ==
  ASSUME NEW w, NEW S, IsFiniteSet(S), \A k \in S : w[k] \in Int, SumOn(w, S) = 0,
         (\A k \in S : w[k] >= 0) \/ (\A k \in S : w[k] <= 0)
  PROVE  \A k \in S : w[k] = 0
  <1>1. CASE \A k \in S : w[k] >= 0
    <2>1. \A k \in S : w[k] <= 0
      BY <1>1, SumAtLeast
    <2>2. QED
      BY <1>1, <2>1
  <1>2. CASE \A k \in S : w[k] <= 0
    <2> DEFINE v == [k \in S |-> -w[k]]
               z == [k \in S |-> 0]
    <2>1. \A k \in S : /\ v[k] \in Int /\ w[k] \in Int /\ z[k] = v[k] + w[k]
                       /\ v[k] >= 0 /\ v[k] = -w[k]
      BY <1>2
    <2>2. \A k \in S : z[k] = 0
      OBVIOUS
    <2> HIDE DEF v, z
    <2>3. SumOn(z, S) = SumOn(v, S) + SumOn(w, S)
      BY <2>1, SumPlus
    <2>4. SumOn(z, S) = 0
      BY <2>2, SumZero
    <2>5. SumOn(v, S) \in Int
      BY <2>1, SumType
    <2>6. SumOn(v, S) = 0
      BY <2>3, <2>4, <2>5
    <2>7. \A k \in S : v[k] <= 0
      BY <2>1, <2>6, SumAtLeast
    <2>8. QED
      BY <2>1, <2>7
  <1>3. QED
    BY <1>1, <1>2

\* Addends with the other sign.
LEMMA SumNegated ==
  ASSUME NEW v, NEW w, NEW S, IsFiniteSet(S), \A k \in S : w[k] \in Int /\ v[k] = -w[k]
  PROVE  SumOn(v, S) = -SumOn(w, S)
  <1>1. PICK z : z = [k \in S |-> 0]
    OBVIOUS
  <1>2. \A k \in S : z[k] = 0
    BY <1>1
  <1>3. SumOn(z, S) = 0
    BY <1>2, SumZero
  <1>4. \A k \in S : v[k] \in Int /\ w[k] \in Int /\ z[k] = v[k] + w[k]
    BY <1>2
  <1>5. SumOn(z, S) = SumOn(v, S) + SumOn(w, S)
    BY <1>4, SumPlus
  <1>6. SumOn(v, S) \in Int /\ SumOn(w, S) \in Int
    BY <1>4, SumType
  <1>7. QED
    BY <1>3, <1>5, <1>6

\* A sum in two parts.
LEMMA SumUnion ==
  ASSUME NEW w, NEW S, NEW T, IsFiniteSet(S), IsFiniteSet(T), S \cap T = {},
         \A k \in S \cup T : w[k] \in Int
  PROVE  SumOn(w, S \cup T) = SumOn(w, S) + SumOn(w, T)
  <1> DEFINE Good == {R \in SUBSET T : SumOn(w, S \cup R) = SumOn(w, S) + SumOn(w, R)}
  <1>1. SumOn(w, S) \in Int
    BY SumType
  <1>2. ASSUME NEW R \in SUBSET T, \A Q \in SUBSET R : Q # R => Q \in Good
        PROVE  R \in Good
    <2>1. IsFiniteSet(R) /\ IsFiniteSet(S \cup R)
      BY FS_Subset, FS_Union
    <2>2. CASE R = {}
      <3>1. PICK a, b, c : a = SumOn(w, S \cup R) /\ b = SumOn(w, S) /\ c = SumOn(w, R)
        OBVIOUS
      <3>2. S \cup R = S
        BY <2>2
      <3>3. a = b /\ b \in Int /\ c = 0
        BY <1>1, <2>2, <3>1, <3>2, SumEmpty
      <3>4. a = b + c
        BY <3>3
      <3>5. QED
        BY <3>1, <3>4
    <2>3. CASE R # {}
      <3>1. PICK x \in R : TRUE
        BY <2>3
      <3>2. R \ {x} \in Good
        BY <1>2
      <3>3. (S \cup R) \ {x} = S \cup (R \ {x})
        BY <3>1
      <3>4. \A k \in S \cup R : w[k] \in Int
        OBVIOUS
      <3>5. SumOn(w, S \cup R) = w[x] + SumOn(w, S \cup (R \ {x}))
        <4>1. SumOn(w, S \cup R) = w[x] + SumOn(w, (S \cup R) \ {x})
          BY <2>1, <3>4, SumTake
        <4>2. QED
          BY <3>3, <4>1
      <3>6. SumOn(w, R) = w[x] + SumOn(w, R \ {x})
        BY <2>1, <3>4, SumTake
      <3>7. SumOn(w, R \ {x}) \in Int
        <4>1. IsFiniteSet(R \ {x})
          BY <2>1, FS_Subset
        <4>2. \A k \in R \ {x} : w[k] \in Int
          BY <3>4
        <4>3. QED
          BY <4>1, <4>2, SumType
      <3>8. w[x] \in Int
        BY <3>4
      <3>9. QED
        BY <1>1, <3>2, <3>5, <3>6, <3>7, <3>8
    <2>4. QED
      BY <2>2, <2>3
  <1>3. \A R \in SUBSET T : R \in Good
    <2> HIDE DEF Good
    <2>1. QED
      BY <1>2, SubsetInduction
  <1>4. QED
    BY <1>3

\* The sum of the sums of the addends that share a label.
Labelled(f, w, S, K) ==
  /\ IsFiniteSet(S) /\ IsFiniteSet(K)
  /\ \A s \in S : w[s] \in Int /\ f[s] \in K

LEMMA SumByLabel ==
  ASSUME NEW f, NEW w, NEW S, NEW K, Labelled(f, w, S, K)
  PROVE  SumOn([k \in K |-> SumOn(w, {s \in S : f[s] = k})], K) = SumOn(w, S)
  <1> USE DEF Labelled
  <1> DEFINE Sums(T) == [k \in K |-> SumOn(w, {s \in T : f[s] = k})]
             Good == {T \in SUBSET S : SumOn(Sums(T), K) = SumOn(w, T)}
  <1>1. ASSUME NEW T \in SUBSET S PROVE IsFiniteSet(T) /\ Sums(T) \in [K -> Int]
    <2>1. IsFiniteSet(T)
      BY FS_Subset
    <2>2. ASSUME NEW k \in K PROVE SumOn(w, {s \in T : f[s] = k}) \in Int
      <3>1. PICK U : U = {s \in T : f[s] = k}
        OBVIOUS
      <3>2. U \subseteq T /\ \A s \in U : w[s] \in Int
        BY <3>1
      <3>3. IsFiniteSet(U)
        BY <2>1, <3>2, FS_Subset
      <3>4. SumOn(w, U) \in Int
        BY <3>2, <3>3, SumType
      <3>5. QED
        BY <3>1, <3>4
    <2>3. QED
      BY <2>1, <2>2
  <1>2. ASSUME NEW T \in SUBSET S, \A R \in SUBSET T : R # T => R \in Good
        PROVE  T \in Good
    <2>1. CASE T = {}
      <3>1. PICK v : v = Sums(T)
        OBVIOUS
      <3>2. \A k \in K : {s \in T : f[s] = k} = {}
        BY <2>1
      <3>3. \A k \in K : v[k] = 0
        BY <3>1, <3>2, SumEmpty
      <3>4. SumOn(v, K) = 0 /\ SumOn(w, T) = 0
        BY <2>1, <3>3, SumZero, SumEmpty
      <3>5. QED
        BY <3>1, <3>4
    <2>2. CASE T # {}
      <3>1. PICK x \in T : TRUE
        BY <2>2
      <3>2. PICK R : R = T \ {x}
        OBVIOUS
      <3>3. R \in SUBSET S /\ R \in SUBSET T /\ R # T
        BY <3>1, <3>2
      <3>4. R \in Good
        BY <1>2, <3>3
      <3>5. PICK u, v, l : u = Sums(T) /\ v = Sums(R) /\ l = f[x]
        OBVIOUS
      <3>6. u \in [K -> Int] /\ v \in [K -> Int] /\ l \in K
        BY <1>1, <3>3, <3>5
      <3>7. ASSUME NEW k \in K, k # l PROVE u[k] = v[k]
        <4>1. {s \in T : f[s] = k} = {s \in R : f[s] = k}
          BY <3>1, <3>2, <3>5, <3>7
        <4>2. QED
          BY <3>5, <4>1
      <3>8. u[l] = w[x] + v[l]
        <4>1. PICK U : U = {s \in T : f[s] = l}
          OBVIOUS
        <4>2. x \in U /\ U \in SUBSET T /\ U \ {x} = {s \in R : f[s] = l}
          BY <3>1, <3>2, <3>5, <4>1
        <4>3. IsFiniteSet(U) /\ \A s \in U : w[s] \in Int
          BY <1>1, <4>2, FS_Subset
        <4>4. SumOn(w, U) = w[x] + SumOn(w, U \ {x})
          BY <4>2, <4>3, SumTake
        <4>5. u[l] = SumOn(w, U) /\ v[l] = SumOn(w, U \ {x})
          BY <3>5, <3>6, <4>1, <4>2
        <4>6. QED
          BY <4>4, <4>5
      <3>9. SumOn(u, K) = SumOn(v, K) - v[l] + u[l]
        BY <3>6, <3>7, SumUpdate
      <3>10. SumOn(w, T) = w[x] + SumOn(w, R)
        <4>1. IsFiniteSet(T) /\ \A s \in T : w[s] \in Int
          BY <1>1
        <4>2. QED
          BY <3>1, <3>2, <4>1, SumTake
      <3>11. SumOn(v, K) = SumOn(w, R)
        BY <3>4, <3>5
      <3>12. SumOn(v, K) \in Int /\ w[x] \in Int
        BY <3>1, <3>6, SumType
      <3>13. SumOn(u, K) = SumOn(w, T)
        BY <3>6, <3>8, <3>9, <3>10, <3>11, <3>12
      <3>14. QED
        BY <3>5, <3>13
    <2>3. QED
      BY <2>1, <2>2
  <1> HIDE DEF Good
  <1>3. \A T \in SUBSET S : T \in Good
    <2>1. \A T \in SUBSET S : (\A R \in SUBSET T : R # T => R \in Good) => T \in Good
      BY <1>2
    <2>2. QED
      BY <2>1, SubsetInduction
  <1>4. S \in Good
    BY <1>3
  <1>5. QED
    BY <1>4 DEF Good

-----------------------------------------------------------------------------
(* Dividing an amount. *)

\* The cents left over are as many as are handed out: the parts add up.
LEMMA ByWeightsAddUp ==
  ASSUME NEW total \in Int, NEW w, IsFiniteSet(DOMAIN w),
         NEW n \in Int, n > 0, n = SumOver(w), \A k \in DOMAIN w : w[k] \in Int,
         NEW f \in ByWeights(total, w)
  PROVE  /\ DOMAIN f = DOMAIN w /\ \A k \in DOMAIN w : f[k] \in Int
         /\ f = [k \in DOMAIN w |-> f[k]]
         /\ SumOver(f) = total
         /\ \A k \in DOMAIN w : \/ f[k] = (total * w[k]) \div n
                                \/ f[k] = (total * w[k]) \div n + 1
  <1> DEFINE S == DOMAIN w
             v == [k \in S |-> Floor(total, w, k)]
  <1>1. PICK up \in Lucky(total, w) :
          f = [k \in S |-> Floor(total, w, k) + IF k \in up THEN 1 ELSE 0]
    BY DEF ByWeights
  <1>2. up \in SUBSET S /\ Cardinality(up) = Leftover(total, w)
    BY <1>1 DEF Lucky, kSubset
  <1>3. \A k \in S : Floor(total, w, k) = (total * w[k]) \div n
    BY DEF Floor
  <1>4. ASSUME NEW k \in S PROVE Floor(total, w, k) \in Int
    <2>1. PICK m \in Int : m = total * w[k]
      OBVIOUS
    <2>2. m \div n \in Int
      OBVIOUS
    <2>3. QED
      BY <1>3, <2>1, <2>2
  <1>5. \A k \in S : /\ v[k] = Floor(total, w, k) /\ v[k] \in Int
                     /\ f[k] = v[k] + IF k \in up THEN 1 ELSE 0
    BY <1>1, <1>4
  <1>6. DOMAIN f = S /\ f = [k \in S |-> f[k]]
    BY <1>1
  <1>7. PICK b : b = [k \in S |-> IF k \in up THEN 1 ELSE 0]
    OBVIOUS
  <1>8. \A k \in S : b[k] = (IF k \in up THEN 1 ELSE 0) /\ b[k] \in Int /\ f[k] = v[k] + b[k]
    BY <1>5, <1>7
  <1>9. Leftover(total, w) = total - SumOver(v) /\ DOMAIN v = S
    BY DEF Leftover
  <1> HIDE DEF v
  <1>10. SumOn(b, S) = Cardinality(up)
    BY <1>2, <1>8, SumCount
  <1>11. SumOn(f, S) = SumOn(v, S) + SumOn(b, S)
    BY <1>5, <1>8, SumPlus
  <1>12. SumOn(v, S) \in Int
    BY <1>5, SumType
  <1>13. SumOver(f) = SumOn(f, S) /\ SumOver(v) = SumOn(v, S)
    BY <1>6, <1>9, SumOverIsSumOn
  <1>14. SumOver(f) = total
    BY <1>2, <1>9, <1>10, <1>11, <1>12, <1>13
  <1>15. QED
    BY <1>3, <1>5, <1>6, <1>14

\* What split_evenly and its siblings return: parts for everybody on the
\* expense that add up to the amount, and are equal to the cent when they
\* should be.
THEOREM DivisionsAddUp ==
  ASSUME NEW type \in SplitTypes, NEW total \in Int, NEW people, IsFiniteSet(people),
         NEW values, \A k \in DOMAIN values : values[k] \in Int,
         NEW f \in Divisions(type, total, people, values)
  PROVE  /\ f \in [people -> Int] /\ DOMAIN f = people
         /\ SumOver(f) = total
         /\ type = "equal" => \A j, k \in people : f[j] - f[k] <= 1
  <1> DEFINE w == Weights(people, values)
             one == [k \in people |-> 1]
  <1>1. w \in [people -> Int] /\ DOMAIN w = people
    BY DEF Weights
  <1>2. one \in [people -> Int] /\ DOMAIN one = people /\ \A k \in people : one[k] = 1
    OBVIOUS
  <1>3. PICK n, m : n = SumOver(w) /\ m = SumOver(one)
    OBVIOUS
  <1>4. n \in Int /\ m = Cardinality(people) /\ m \in Nat
    <2>1. n = SumOn(w, people) /\ m = SumOn(one, people)
      BY <1>1, <1>2, <1>3, SumOverIsSumOn
    <2>2. \A k \in people : w[k] \in Int
      BY <1>1
    <2>3. SumOn(w, people) \in Int
      BY <2>2, SumType
    <2>4. \A k \in people : one[k] = IF k \in people THEN 1 ELSE 0
      OBVIOUS
    <2>5. SumOn(one, people) = Cardinality(people)
      BY <2>4, SumCount
    <2>6. QED
      BY <2>1, <2>3, <2>5, FS_CardinalityType
  <1>5. CASE type = "equal"
    <2>1. f \in ByWeights(total, one)
      BY <1>5 DEF Divisions
    <2>2. CASE people = {}
      <3>1. PICK up \in Lucky(total, one) :
              f = [k \in people |-> Floor(total, one, k) + IF k \in up THEN 1 ELSE 0]
        BY <1>2, <2>1 DEF ByWeights
      <3>2. up = {} /\ Cardinality(up) = Leftover(total, one)
        BY <1>2, <2>2, <3>1 DEF Lucky, kSubset
      <3>3. PICK v : v = [k \in people |-> Floor(total, one, k)]
        OBVIOUS
      <3>4. Leftover(total, one) = total - SumOver(v) /\ DOMAIN v = people
        BY <3>3 DEF Leftover
      <3>5. SumOver(v) = 0 /\ SumOver(f) = 0
        BY <2>2, <3>1, <3>4, SumOverIsSumOn, SumEmpty
      <3>6. total = 0
        BY <3>2, <3>4, <3>5, FS_EmptySet
      <3>7. QED
        BY <2>2, <3>1, <3>5, <3>6
    <2>3. CASE people # {}
      <3>1. m > 0
        BY <1>4, <2>3, FS_EmptySet
      <3>2. /\ DOMAIN f = people /\ \A k \in people : f[k] \in Int
            /\ f = [k \in people |-> f[k]] /\ SumOver(f) = total
            /\ \A k \in people : \/ f[k] = (total * one[k]) \div m
                                 \/ f[k] = (total * one[k]) \div m + 1
        <4> HIDE DEF one
        <4>1. m \in Int /\ m > 0 /\ m = SumOver(one)
          BY <1>3, <1>4, <3>1
        <4>2. IsFiniteSet(DOMAIN one) /\ \A k \in DOMAIN one : one[k] \in Int
          BY <1>2
        <4>3. QED
          BY <1>2, <2>1, <4>1, <4>2, ByWeightsAddUp
      <3>3. PICK c : c = (total * 1) \div m
        OBVIOUS
      <3>4. \A k \in people : f[k] \in Int /\ (f[k] = c \/ f[k] = c + 1)
        BY <1>2, <3>2, <3>3
      <3>5. c \in Int
        BY <1>4, <3>1, <3>3
      <3>6. \A j, k \in people : f[j] - f[k] <= 1
        BY <3>4, <3>5
      <3>7. QED
        BY <3>2, <3>6
    <2>4. QED
      BY <2>2, <2>3
  <1>6. CASE type \in {"shares", "percentage"}
    <2>1. n > 0 /\ f \in ByWeights(total, w)
      BY <1>3, <1>6 DEF Divisions
    <2>2. /\ DOMAIN f = people /\ \A k \in people : f[k] \in Int
          /\ f = [k \in people |-> f[k]] /\ SumOver(f) = total
      <3> HIDE DEF w
      <3>1. QED
        BY <1>1, <1>3, <1>4, <2>1, ByWeightsAddUp
    <2>3. QED
      BY <1>6, <2>2
  <1>7. CASE type = "exact"
    <2>1. f = w /\ n = total
      BY <1>3, <1>7 DEF Divisions
    <2>2. QED
      BY <1>1, <1>3, <1>7, <2>1
  <1>8. QED
    BY <1>5, <1>6, <1>7 DEF SplitTypes

-----------------------------------------------------------------------------
(* What rounding cuts off, and who gets it. *)

\* A number is its quotient times the divisor, and the rest.
LEMMA DivParts ==
  ASSUME NEW a \in Int, NEW n \in Int, n > 0
  PROVE  a = n * (a \div n) + (a % n)
  OBVIOUS

LEMMA DivType ==
  ASSUME NEW a \in Int, NEW n \in Int, n > 0
  PROVE  a \div n \in Int /\ a % n \in Nat /\ a % n < n
  OBVIOUS

\* Only one quotient and one rest do.
LEMMA DivUnique ==
  ASSUME NEW n \in Int, n > 0, NEW p \in Int, NEW q \in Int,
         NEW r \in Nat, NEW s \in Nat, r < n, s < n, n * p + r = n * q + s
  PROVE  p = q /\ r = s
  <1>1. n * (p - q) = s - r
    OBVIOUS
  <1>2. ~(p - q >= 1)
    <2>1. SUFFICES ASSUME p - q >= 1 PROVE FALSE
      OBVIOUS
    <2>2. n * (p - q) >= n
      BY <2>1
    <2>3. QED
      BY <1>1, <2>2
  <1>3. ~(p - q <= -1)
    <2>1. SUFFICES ASSUME p - q <= -1 PROVE FALSE
      OBVIOUS
    <2>2. n * (p - q) <= -n
      BY <2>1
    <2>3. QED
      BY <1>1, <2>2
  <1>4. QED
    BY <1>2, <1>3

LEMMA SumScaled ==
  ASSUME NEW c \in Int, NEW v, NEW w, NEW S, IsFiniteSet(S),
         \A k \in S : w[k] \in Int /\ v[k] = c * w[k]
  PROVE  SumOn(v, S) = c * SumOn(w, S)
  <1> DEFINE Good == {T \in SUBSET S : SumOn(v, T) = c * SumOn(w, T)}
  <1>1. ASSUME NEW T \in SUBSET S, \A R \in SUBSET T : R # T => R \in Good
        PROVE  T \in Good
    <2>1. IsFiniteSet(T)
      BY FS_Subset
    <2>2. CASE T = {}
      BY <2>2, SumEmpty
    <2>3. CASE T # {}
      <3>1. PICK x : x = Pick(T)
        OBVIOUS
      <3>2. x \in T /\ IsFiniteSet(T \ {x})
        BY <2>1, <2>3, <3>1, PickIn, FS_Subset
      <3>3. SumOn(v, T \ {x}) = c * SumOn(w, T \ {x})
        BY <1>1, <3>2
      <3>4. /\ SumOn(v, T) = v[x] + SumOn(v, T \ {x})
            /\ SumOn(w, T) = w[x] + SumOn(w, T \ {x})
        BY <2>1, <2>3, <3>1, SumOnStep
      <3>5. SumOn(w, T \ {x}) \in Int
        BY <3>2, SumType
      <3>6. w[x] \in Int /\ v[x] = c * w[x]
        BY <3>2
      <3>7. PICK a \in Int, b \in Int : a = w[x] /\ b = SumOn(w, T \ {x})
        BY <3>5, <3>6
      <3>8. c * a + c * b = c * (a + b)
        OBVIOUS
      <3>9. QED
        BY <3>3, <3>4, <3>6, <3>7, <3>8
    <2>4. QED
      BY <2>2, <2>3
  <1>2. \A T \in SUBSET S : T \in Good
    <2> HIDE DEF Good
    <2>1. QED
      BY <1>1, SubsetInduction
  <1>3. QED
    BY <1>2

\* Of the elements of a finite set, one has the largest number.
LEMMA SomeLargest ==
  ASSUME NEW r, NEW S, IsFiniteSet(S), \A k \in S : r[k] \in Int, S # {}
  PROVE  \E m \in S : \A k \in S : r[m] >= r[k]
  <1> DEFINE Good == {T \in SUBSET S : T # {} => \E m \in T : \A k \in T : r[m] >= r[k]}
  <1>1. ASSUME NEW T \in SUBSET S, \A R \in SUBSET T : R # T => R \in Good
        PROVE  T \in Good
    <2>1. SUFFICES ASSUME T # {} PROVE \E m \in T : \A k \in T : r[m] >= r[k]
      OBVIOUS
    <2>2. PICK x \in T : TRUE
      BY <2>1
    <2>3. CASE T \ {x} = {}
      BY <2>2, <2>3
    <2>4. CASE T \ {x} # {}
      <3>1. T \ {x} \in Good
        BY <1>1, <2>2
      <3>2. PICK m \in T \ {x} : \A k \in T \ {x} : r[m] >= r[k]
        BY <2>4, <3>1
      <3>3. CASE r[m] >= r[x]
        BY <3>2, <3>3
      <3>4. CASE ~(r[m] >= r[x])
        <4>1. \A k \in T : r[x] >= r[k]
          BY <2>2, <3>2, <3>4
        <4>2. QED
          BY <4>1
      <3>5. QED
        BY <3>3, <3>4
    <2>5. QED
      BY <2>3, <2>4
  <1>2. S \in Good
    <2> HIDE DEF Good
    <2>1. QED
      BY <1>1, SubsetInduction
  <1>3. QED
    BY <1>2

\* As many as asked for, none of them below any that is left out.
LEMMA TheLargest ==
  ASSUME NEW r, NEW S, IsFiniteSet(S), \A k \in S : r[k] \in Int,
         NEW n \in Nat, n <= Cardinality(S)
  PROVE  \E up \in SUBSET S : /\ Cardinality(up) = n
                              /\ \A i \in up, j \in S \ up : r[i] >= r[j]
  <1> DEFINE Top(m, T) == \E up \in SUBSET T : /\ Cardinality(up) = m
                                               /\ \A i \in up, j \in T \ up : r[i] >= r[j]
             Good == {T \in SUBSET S : \A m \in Nat : m <= Cardinality(T) => Top(m, T)}
  <1>1. ASSUME NEW T \in SUBSET S, \A R \in SUBSET T : R # T => R \in Good
        PROVE  T \in Good
    <2>1. IsFiniteSet(T)
      BY FS_Subset
    <2>2. SUFFICES ASSUME NEW m \in Nat, m <= Cardinality(T) PROVE Top(m, T)
      OBVIOUS
    <2>3. CASE m = 0
      BY <2>3, FS_EmptySet
    <2>4. CASE m # 0
      <3>1. T # {}
        BY <2>2, <2>4, FS_EmptySet
      <3>2. PICK x \in T : \A k \in T : r[x] >= r[k]
        BY <2>1, <3>1, SomeLargest
      <3>3. PICK R : R = T \ {x}
        OBVIOUS
      <3>4. Cardinality(R) = Cardinality(T) - 1 /\ Cardinality(T) \in Nat
        BY <2>1, <3>2, <3>3, FS_RemoveElement, FS_CardinalityType
      <3>5. m - 1 \in Nat /\ m - 1 <= Cardinality(R) /\ R \in Good
        <4>1. m - 1 \in Nat /\ m - 1 <= Cardinality(R)
          BY <2>2, <2>4, <3>4
        <4>2. R \in SUBSET T /\ R # T
          BY <3>2, <3>3
        <4>3. QED
          BY <1>1, <4>1, <4>2
      <3>6. PICK up \in SUBSET R : /\ Cardinality(up) = m - 1
                                   /\ \A i \in up, j \in R \ up : r[i] >= r[j]
        BY <3>5
      <3>7. IsFiniteSet(up) /\ x \notin up
        <4>1. up \in SUBSET T /\ x \notin up
          BY <3>3, <3>6
        <4>2. QED
          BY <2>1, <4>1, FS_Subset
      <3>8. Cardinality(up \cup {x}) = m
        <4>1. Cardinality(up \cup {x}) = Cardinality(up) + 1
          BY <3>7, FS_AddElement
        <4>2. QED
          BY <2>2, <3>6, <4>1
      <3>9. \A i \in up \cup {x}, j \in T \ (up \cup {x}) : r[i] >= r[j]
        BY <3>2, <3>3, <3>6
      <3>10. up \cup {x} \in SUBSET T
        BY <3>2, <3>3
      <3>11. QED
        BY <3>8, <3>9, <3>10
    <2>5. QED
      BY <2>3, <2>4
  <1>2. S \in Good
    <2> HIDE DEF Good
    <2>1. QED
      BY <1>1, SubsetInduction
  <1>3. QED
    BY <1>2

-----------------------------------------------------------------------------
(* The cents that are left over when every share is rounded down. *)

\* What total is divided by: whole numbers that add up to n.
Weighted(total, w, n) ==
  /\ total \in Int /\ IsFiniteSet(DOMAIN w) /\ \A k \in DOMAIN w : w[k] \in Int
  /\ n \in Int /\ n > 0 /\ n = SumOver(w)

LEMMA FloorParts ==
  ASSUME NEW total, NEW w, NEW n, Weighted(total, w, n), NEW k \in DOMAIN w
  PROVE  total * w[k] = n * Floor(total, w, k) + Remainder(total, w, k)
  <1>1. PICK a \in Int : a = total * w[k]
    BY DEF Weighted
  <1>2. n \in Int /\ n > 0 /\ Floor(total, w, k) = a \div n /\ Remainder(total, w, k) = a % n
    BY <1>1 DEF Weighted, Floor, Remainder
  <1>3. a = n * (a \div n) + (a % n)
    BY <1>2, DivParts
  <1>4. QED
    BY <1>1, <1>2, <1>3

LEMMA FloorTypes ==
  ASSUME NEW total, NEW w, NEW n, Weighted(total, w, n), NEW k \in DOMAIN w
  PROVE  /\ Floor(total, w, k) \in Int /\ Remainder(total, w, k) \in Nat
         /\ Remainder(total, w, k) < n
  <1>1. PICK a \in Int : a = total * w[k]
    BY DEF Weighted
  <1>2. n \in Int /\ n > 0 /\ Floor(total, w, k) = a \div n /\ Remainder(total, w, k) = a % n
    BY <1>1 DEF Weighted, Floor, Remainder
  <1>3. QED
    BY <1>2, DivType

\* The cents left over are what rounding cuts off, put together.
LEMMA LeftoverIsCutOff ==
  ASSUME NEW total, NEW w, NEW n, Weighted(total, w, n),
         NEW r, r = [k \in DOMAIN w |-> Remainder(total, w, k)]
  PROVE  n * Leftover(total, w) = SumOn(r, DOMAIN w)
  <1>1. PICK S, v, a, b : /\ S = DOMAIN w /\ v = [k \in S |-> Floor(total, w, k)]
                          /\ a = [k \in S |-> total * w[k]]
                          /\ b = [k \in S |-> n * Floor(total, w, k)]
    OBVIOUS
  <1>2. IsFiniteSet(S) /\ total \in Int /\ n \in Int /\ n = SumOver(w)
    BY <1>1 DEF Weighted
  <1>3. \A k \in S : w[k] \in Int /\ a[k] = total * w[k] /\ v[k] = Floor(total, w, k)
    BY <1>1 DEF Weighted
  <1>4. \A k \in S : v[k] \in Int /\ b[k] = n * v[k] /\ r[k] \in Int
    BY <1>1, FloorTypes
  <1>5. \A k \in S : b[k] \in Int /\ a[k] = b[k] + r[k]
    <2>1. SUFFICES ASSUME NEW k \in S PROVE b[k] \in Int /\ a[k] = b[k] + r[k]
      OBVIOUS
    <2>2. v[k] \in Int /\ b[k] = n * v[k]
      BY <1>4
    <2>3. n * v[k] \in Int
      BY <1>2, <2>2
    <2>4. total * w[k] = n * Floor(total, w, k) + Remainder(total, w, k)
      BY <1>1, FloorParts
    <2>5. QED
      BY <1>1, <1>3, <2>2, <2>3, <2>4
  <1>6. SumOn(a, S) = total * SumOn(w, S)
    BY <1>2, <1>3, SumScaled
  <1>7. SumOn(b, S) = n * SumOn(v, S)
    <2>1. \A k \in S : v[k] \in Int /\ b[k] = n * v[k]
      BY <1>4
    <2>2. QED
      BY <1>2, <2>1, SumScaled
  <1>8. SumOn(a, S) = SumOn(b, S) + SumOn(r, S)
    <2>1. \A k \in S : b[k] \in Int /\ r[k] \in Int /\ a[k] = b[k] + r[k]
      BY <1>4, <1>5
    <2>2. QED
      BY <1>2, <2>1, SumPlus
  <1>9. SumOn(w, S) = n
    BY <1>1, <1>2, SumOverIsSumOn
  <1>10. Leftover(total, w) = total - SumOn(v, S)
    BY <1>1, SumOverIsSumOn DEF Leftover
  <1>11. SumOn(v, S) \in Int
    BY <1>2, <1>4, SumType
  <1>12. SumOn(r, S) \in Int
    BY <1>2, <1>4, SumType
  <1>13. PICK x \in Int, y \in Int : x = SumOn(v, S) /\ y = SumOn(r, S)
    BY <1>11, <1>12
  <1>14. total * n = n * x + y
    BY <1>6, <1>7, <1>8, <1>9, <1>13
  <1>15. n * (total - x) = n * total - n * x
    BY <1>2
  <1>16. n * (total - x) = y
    BY <1>2, <1>14, <1>15
  <1>17. QED
    BY <1>1, <1>10, <1>13, <1>16

\* They are no more than those whose share does not come out in whole cents.
LEMMA LeftoverIsSmall ==
  ASSUME NEW total, NEW w, NEW n, Weighted(total, w, n),
         NEW U, U = {k \in DOMAIN w : Remainder(total, w, k) # 0}
  PROVE  Leftover(total, w) \in Nat /\ Leftover(total, w) <= Cardinality(U)
  <1>1. PICK S, r, v : /\ S = DOMAIN w /\ r = [k \in S |-> Remainder(total, w, k)]
                       /\ v = [k \in S |-> Floor(total, w, k)]
    OBVIOUS
  <1>2. IsFiniteSet(S) /\ total \in Int /\ n \in Int /\ n > 0 /\ U \in SUBSET S
    BY <1>1 DEF Weighted
  <1>3. \A k \in S : /\ v[k] \in Int /\ r[k] \in Int /\ 0 <= r[k] /\ r[k] < n
                     /\ (k \in U <=> r[k] # 0)
    BY <1>1, FloorTypes
  <1>4. PICK one, b, d : /\ one = [k \in S |-> IF k \in U THEN 1 ELSE 0]
                         /\ b = [k \in S |-> IF k \in U THEN n ELSE 0]
                         /\ d = [k \in S |-> (IF k \in U THEN n ELSE 0) - r[k]]
    OBVIOUS
  <1>5. \A k \in S : one[k] = (IF k \in U THEN 1 ELSE 0) /\ one[k] \in Int /\ b[k] = n * one[k]
    BY <1>2, <1>4
  <1>6. \A k \in S : d[k] \in Int /\ d[k] >= 0 /\ b[k] = d[k] + r[k]
    BY <1>2, <1>3, <1>4
  <1>7. SumOn(one, S) = Cardinality(U)
    BY <1>2, <1>5, SumCount
  <1>8. SumOn(b, S) = n * SumOn(one, S)
    BY <1>2, <1>5, SumScaled
  <1>9. SumOn(b, S) = SumOn(d, S) + SumOn(r, S)
    BY <1>2, <1>3, <1>6, SumPlus
  <1>10. SumOn(d, S) \in Int /\ SumOn(d, S) >= 0
    BY <1>2, <1>6, SumType, SumAtLeast
  <1>11. SumOn(r, S) \in Int /\ SumOn(r, S) >= 0
    BY <1>2, <1>3, SumType, SumAtLeast
  <1>12. n * Leftover(total, w) = SumOn(r, S)
    BY <1>1, LeftoverIsCutOff
  <1>13. Leftover(total, w) \in Int
    <2>1. Leftover(total, w) = total - SumOn(v, S)
      BY <1>1, SumOverIsSumOn DEF Leftover
    <2>2. SumOn(v, S) \in Int
      BY <1>2, <1>3, SumType
    <2>3. QED
      BY <1>2, <2>1, <2>2
  <1>14. Cardinality(U) \in Nat
    <2>1. IsFiniteSet(U)
      BY <1>2, FS_Subset
    <2>2. QED
      BY <2>1, FS_CardinalityType
  <1>15. PICK x \in Int, y \in Nat : x = Leftover(total, w) /\ y = Cardinality(U)
    BY <1>13, <1>14
  <1>16. n * x >= 0 /\ n * y >= n * x
    BY <1>7, <1>8, <1>9, <1>10, <1>11, <1>12, <1>15
  <1>17. x >= 0
    <2>1. SUFFICES ASSUME x <= -1 PROVE FALSE
      OBVIOUS
    <2>2. n * x <= -n
      BY <1>2, <2>1
    <2>3. QED
      BY <1>2, <1>16, <2>2
  <1>18. y >= x
    <2>1. SUFFICES ASSUME y <= x - 1 PROVE FALSE
      OBVIOUS
    <2>2. n * y <= n * (x - 1)
      BY <1>2, <2>1
    <2>3. n * (x - 1) = n * x - n
      BY <1>2
    <2>4. n * x \in Int /\ n * y \in Int
      BY <1>2
    <2>5. QED
      BY <1>2, <1>16, <2>2, <2>3, <2>4
  <1>19. QED
    BY <1>15, <1>17, <1>18

LEMMA LuckyParts ==
  ASSUME NEW total, NEW w, NEW n, Weighted(total, w, n), NEW f \in ByWeights(total, w)
  PROVE  \E up \in SUBSET DOMAIN w :
           /\ \A k \in DOMAIN w : f[k] = Floor(total, w, k) + IF k \in up THEN 1 ELSE 0
           /\ \A k \in up : Remainder(total, w, k) # 0
           /\ \A i \in up, j \in DOMAIN w \ up :
                Remainder(total, w, i) >= Remainder(total, w, j)
  <1>1. PICK up \in Lucky(total, w) :
          f = [k \in DOMAIN w |-> Floor(total, w, k) + IF k \in up THEN 1 ELSE 0]
    BY DEF ByWeights
  <1>2. /\ up \in SUBSET DOMAIN w /\ Cardinality(up) = Leftover(total, w)
        /\ \A i \in up, j \in DOMAIN w \ up :
             Remainder(total, w, i) >= Remainder(total, w, j)
    BY <1>1 DEF Lucky, kSubset
  <1>3. \A k \in DOMAIN w : Remainder(total, w, k) \in Nat
    BY FloorTypes
  <1>4. ASSUME NEW k \in up, Remainder(total, w, k) = 0 PROVE FALSE
    <2>1. PICK U : U = {j \in DOMAIN w : Remainder(total, w, j) # 0}
      OBVIOUS
    <2>2. U \subseteq up \ {k}
      <3>1. SUFFICES ASSUME NEW j \in U, j \notin up \ {k} PROVE FALSE
        OBVIOUS
      <3>2. j \in DOMAIN w /\ Remainder(total, w, j) # 0 /\ j # k
        BY <1>4, <2>1, <3>1
      <3>3. Remainder(total, w, k) >= Remainder(total, w, j)
        BY <1>2, <3>1, <3>2
      <3>4. QED
        BY <1>3, <1>4, <3>2, <3>3
    <2>3. IsFiniteSet(up) /\ IsFiniteSet(up \ {k})
      <3>1. IsFiniteSet(DOMAIN w)
        BY DEF Weighted
      <3>2. QED
        BY <1>2, <3>1, FS_Subset
    <2>4. Cardinality(U) <= Cardinality(up \ {k})
      BY <2>2, <2>3, FS_Subset
    <2>5. Cardinality(up \ {k}) = Cardinality(up) - 1
      BY <2>3, FS_RemoveElement
    <2>6. Leftover(total, w) \in Nat /\ Leftover(total, w) <= Cardinality(U)
      BY <2>1, LeftoverIsSmall
    <2>7. Cardinality(U) \in Nat /\ Cardinality(up) \in Nat
      BY <2>2, <2>3, FS_Subset, FS_CardinalityType
    <2>8. QED
      BY <1>2, <2>4, <2>5, <2>6, <2>7
  <1>5. QED
    BY <1>1, <1>2, <1>4

\* A part is less than a cent off its exact share, so that whoever has no
\* weight has no part; and who has more weight has no smaller part.
LEMMA PartsNear ==
  ASSUME NEW total, NEW w, NEW n, Weighted(total, w, n), NEW f \in ByWeights(total, w),
         NEW k \in DOMAIN w
  PROVE  /\ n * f[k] - total * w[k] < n
         /\ total * w[k] - n * f[k] < n
  <1>1. PICK up \in SUBSET DOMAIN w :
           /\ \A i \in DOMAIN w : f[i] = Floor(total, w, i) + IF i \in up THEN 1 ELSE 0
           /\ \A i \in up : Remainder(total, w, i) # 0
    BY LuckyParts
  <1>2. PICK v, r : v = Floor(total, w, k) /\ r = Remainder(total, w, k)
    OBVIOUS
  <1>3. v \in Int /\ r \in Nat /\ r < n
    BY <1>2, FloorTypes
  <1>4. total * w[k] = n * v + r
    BY <1>2, FloorParts
  <1>5. n \in Int /\ n > 0
    BY DEF Weighted
  <1>6. CASE k \in up
    <2>1. f[k] = v + 1 /\ r # 0
      BY <1>1, <1>2, <1>6
    <2>2. n * (v + 1) = n * v + n /\ n * v \in Int
      BY <1>3, <1>5
    <2>3. QED
      BY <1>3, <1>4, <1>5, <2>1, <2>2
  <1>7. CASE k \notin up
    <2>1. f[k] = v + 0
      BY <1>1, <1>2, <1>7
    <2>2. f[k] = v /\ n * v \in Int
      BY <1>3, <1>5, <2>1
    <2>3. QED
      BY <1>3, <1>4, <1>5, <2>2
  <1>8. QED
    BY <1>6, <1>7

LEMMA PartsInOrder ==
  ASSUME NEW total, NEW w, NEW n, Weighted(total, w, n), NEW f \in ByWeights(total, w),
         total >= 0, NEW j \in DOMAIN w, NEW k \in DOMAIN w, w[j] > w[k]
  PROVE  f[j] >= f[k]
  <1>1. PICK up \in SUBSET DOMAIN w :
           /\ \A i \in DOMAIN w : f[i] = Floor(total, w, i) + IF i \in up THEN 1 ELSE 0
           /\ \A i \in up : Remainder(total, w, i) # 0
           /\ \A i \in up, l \in DOMAIN w \ up :
                Remainder(total, w, i) >= Remainder(total, w, l)
    BY LuckyParts
  <1>2. PICK x, p, y, q : /\ x = Floor(total, w, j) /\ p = Remainder(total, w, j)
                          /\ y = Floor(total, w, k) /\ q = Remainder(total, w, k)
    OBVIOUS
  <1>3. x \in Int /\ p \in Nat /\ p < n /\ y \in Int /\ q \in Nat /\ q < n
    BY <1>2, FloorTypes
  <1>4. n * x + p >= n * y + q /\ (total > 0 => n * x + p > n * y + q)
    <2>1. total * w[j] = n * x + p
      BY <1>2, FloorParts
    <2>2. total * w[k] = n * y + q
      BY <1>2, FloorParts
    <2>3. PICK t \in Int, a \in Int, b \in Int : t = total /\ a = w[j] /\ b = w[k]
      BY DEF Weighted
    <2>4. a - b >= 1 /\ t >= 0
      BY <2>3
    <2>5. t * (a - b) >= 0 /\ (t > 0 => t * (a - b) > 0)
      BY <2>4
    <2>6. t * a - t * b = t * (a - b) /\ t * a \in Int /\ t * b \in Int
      OBVIOUS
    <2>7. n * x + p \in Int /\ n * y + q \in Int
      BY <1>3 DEF Weighted
    <2>8. QED
      BY <2>1, <2>2, <2>3, <2>5, <2>6, <2>7
  <1>5. n \in Int /\ n > 0 /\ total \in Int
    BY DEF Weighted
  <1>6. x >= y
    <2>1. SUFFICES ASSUME x <= y - 1 PROVE FALSE
      BY <1>3
    <2>2. n * x <= n * (y - 1)
      BY <1>3, <1>5, <2>1
    <2>3. n * (y - 1) = n * y - n /\ n * y \in Int /\ n * x \in Int
      BY <1>3, <1>5
    <2>4. QED
      BY <1>3, <1>4, <1>5, <2>2, <2>3
  <1>7. CASE x = y /\ k \in up /\ j \notin up
    <2>1. q # 0 /\ q >= p
      BY <1>1, <1>2, <1>7
    <2>2. p >= q /\ (total > 0 => p > q)
      <3>1. n * x = n * y /\ n * x \in Int
        BY <1>3, <1>5, <1>7
      <3>2. QED
        BY <1>3, <1>4, <3>1
    <2>3. total = 0
      BY <1>3, <1>5, <2>1, <2>2
    <2>4. q = 0
      <3>1. total * w[k] = 0
        BY <2>3 DEF Weighted
      <3>2. q = (total * w[k]) % n
        BY <1>2 DEF Remainder, Weighted
      <3>3. QED
        BY <1>5, <3>1, <3>2
    <2>5. QED
      BY <2>1, <2>4
  <1>8. CASE ~(x = y /\ k \in up /\ j \notin up)
    <2>1. /\ f[j] = x + IF j \in up THEN 1 ELSE 0
          /\ f[k] = y + IF k \in up THEN 1 ELSE 0
      BY <1>1, <1>2
    <2>2. QED
      BY <1>3, <1>6, <1>8, <2>1
  <1>9. QED
    BY <1>7, <1>8

\* The largest remainders can be handed what is left over: there are enough.
LEMMA PartsExist ==
  ASSUME NEW total, NEW w, NEW n, Weighted(total, w, n)
  PROVE  ByWeights(total, w) # {}
  <1>1. PICK S, r, U : /\ S = DOMAIN w /\ r = [k \in S |-> Remainder(total, w, k)]
                       /\ U = {k \in S : Remainder(total, w, k) # 0}
    OBVIOUS
  <1>2. IsFiniteSet(S) /\ U \in SUBSET S
    BY <1>1 DEF Weighted
  <1>3. Leftover(total, w) \in Nat /\ Leftover(total, w) <= Cardinality(U)
    BY <1>1, LeftoverIsSmall
  <1>4. Cardinality(U) <= Cardinality(S) /\ Cardinality(U) \in Nat /\ Cardinality(S) \in Nat
    <2>1. IsFiniteSet(U) /\ Cardinality(U) <= Cardinality(S)
      BY <1>2, FS_Subset
    <2>2. QED
      BY <1>2, <2>1, FS_CardinalityType
  <1>5. \A k \in S : r[k] \in Int /\ r[k] = Remainder(total, w, k)
    BY <1>1, FloorTypes
  <1>6. Leftover(total, w) <= Cardinality(S)
    BY <1>3, <1>4
  <1>7. PICK up \in SUBSET S : /\ Cardinality(up) = Leftover(total, w)
                               /\ \A i \in up, j \in S \ up : r[i] >= r[j]
    BY <1>2, <1>3, <1>5, <1>6, TheLargest
  <1>8. up \in Lucky(total, w)
    BY <1>1, <1>5, <1>7 DEF Lucky, kSubset
  <1>9. QED
    BY <1>8 DEF ByWeights

\* Everybody's weight is 1 in an equal split.
LEMMA EqualWeights ==
  ASSUME NEW total \in Int, NEW people, IsFiniteSet(people), people # {}
  PROVE  Weighted(total, [k \in people |-> 1], Cardinality(people))
  <1>1. PICK one : one = [k \in people |-> 1]
    OBVIOUS
  <1>2. DOMAIN one = people /\ \A k \in people : one[k] = IF k \in people THEN 1 ELSE 0
    BY <1>1
  <1>3. SumOver(one) = Cardinality(people)
    BY <1>2, SumCount, SumOverIsSumOn
  <1>4. Cardinality(people) \in Nat /\ Cardinality(people) # 0
    BY FS_CardinalityType, FS_EmptySet
  <1>5. QED
    BY <1>1, <1>2, <1>3, <1>4 DEF Weighted

LEMMA GivenWeights ==
  ASSUME NEW total \in Int, NEW people, IsFiniteSet(people),
         NEW values, \A k \in DOMAIN values : values[k] \in Int,
         SumOver(Weights(people, values)) > 0
  PROVE  Weighted(total, Weights(people, values), SumOver(Weights(people, values)))
  <1>1. PICK w : w = Weights(people, values)
    OBVIOUS
  <1>2. DOMAIN w = people /\ \A k \in people : w[k] \in Int
    BY <1>1 DEF Weights
  <1>3. SumOver(w) = SumOn(w, people)
    BY <1>2, SumOverIsSumOn
  <1>4. SumOn(w, people) \in Int
    BY <1>2, SumType
  <1>5. QED
    BY <1>1, <1>2, <1>3, <1>4 DEF Weighted

\* Nothing but its own checks makes a split fail: once it has found somebody
\* to divide the amount among, and values that add up as they should, there
\* are as many remainders as there are cents left over.
THEOREM DivisionsExist ==
  ASSUME NEW type \in SplitTypes, NEW total \in Int, NEW people, IsFiniteSet(people),
         NEW values, \A k \in DOMAIN values : values[k] \in Int,
         type = "equal" => people # {},
         type = "shares" => SumOver(Weights(people, values)) > 0,
         type = "percentage" => SumOver(Weights(people, values)) = 100,
         type = "exact" => SumOver(Weights(people, values)) = total
  PROVE  Divisions(type, total, people, values) # {}
  <1>1. PICK w, one : w = Weights(people, values) /\ one = [k \in people |-> 1]
    OBVIOUS
  <1>2. CASE type = "equal"
    <2>1. ByWeights(total, one) # {}
      BY <1>1, <1>2, EqualWeights, PartsExist
    <2>2. QED
      BY <1>1, <1>2, <2>1 DEF Divisions
  <1>3. CASE type \in {"shares", "percentage"}
    <2>1. SumOver(w) > 0
      BY <1>1, <1>3
    <2>2. ByWeights(total, w) # {}
      BY <1>1, <2>1, GivenWeights, PartsExist
    <2>3. QED
      BY <1>1, <1>3, <2>1, <2>2 DEF Divisions
  <1>4. CASE type = "exact"
    BY <1>4 DEF Divisions
  <1>5. QED
    BY <1>2, <1>3, <1>4 DEF SplitTypes

\* A share or a percentage decides what is paid: nobody is charged a cent more
\* or less than an exact division, up to rounding; who has no share owes
\* nothing ("an individual share of 0 is fine", split_by_shares); and who has
\* a larger one does not owe less.
THEOREM PartsFollowWeights ==
  ASSUME NEW type \in {"shares", "percentage"}, NEW total \in Int,
         NEW people, IsFiniteSet(people),
         NEW values, \A k \in DOMAIN values : values[k] \in Int,
         NEW f \in Divisions(type, total, people, values),
         NEW w, w = Weights(people, values), NEW n, n = SumOver(w)
  PROVE  /\ \A k \in people : /\ n * f[k] - total * w[k] < n
                              /\ total * w[k] - n * f[k] < n
                              /\ w[k] = 0 => f[k] = 0
         /\ total >= 0 => \A j, k \in people : w[j] > w[k] => f[j] >= f[k]
  <1>1. n > 0 /\ f \in ByWeights(total, w)
    BY DEF Divisions
  <1>2. Weighted(total, w, n) /\ DOMAIN w = people
    BY <1>1, GivenWeights DEF Weights
  <1>3. \A k \in people : n * f[k] - total * w[k] < n /\ total * w[k] - n * f[k] < n
    BY <1>1, <1>2, PartsNear
  <1>4. ASSUME NEW k \in people, w[k] = 0 PROVE f[k] = 0
    <2>1. f[k] \in Int
      BY DivisionsAddUp DEF SplitTypes
    <2>2. n \in Int /\ n > 0
      BY <1>2 DEF Weighted
    <2>3. total * w[k] = 0
      BY <1>4
    <2>4. n * f[k] - 0 < n /\ 0 - n * f[k] < n
      BY <1>3, <2>3
    <2>5. PICK x \in Int : x = f[k]
      BY <2>1
    <2>6. n * x \in Int /\ n * x < n /\ n * x > -n
      BY <2>2, <2>4, <2>5
    <2>7. ~(x >= 1)
      <3>1. SUFFICES ASSUME x >= 1 PROVE FALSE
        OBVIOUS
      <3>2. n * x >= n
        BY <2>2, <3>1
      <3>3. QED
        BY <2>2, <2>6, <3>2
    <2>8. ~(x <= -1)
      <3>1. SUFFICES ASSUME x <= -1 PROVE FALSE
        OBVIOUS
      <3>2. n * x <= -n
        BY <2>2, <3>1
      <3>3. QED
        BY <2>2, <2>6, <3>2
    <2>9. QED
      BY <2>5, <2>7, <2>8
  <1>5. total >= 0 => \A j, k \in people : w[j] > w[k] => f[j] >= f[k]
    BY <1>1, <1>2, PartsInOrder
  <1>6. QED
    BY <1>3, <1>4, <1>5

\* Weights that are all c times as much divide an amount the same way.
LEMMA SameProportions ==
  ASSUME NEW total, NEW w, NEW n, Weighted(total, w, n), NEW c \in Nat \ {0},
         NEW v, v = [k \in DOMAIN w |-> c * w[k]]
  PROVE  ByWeights(total, v) = ByWeights(total, w)
  <1>1. PICK S : S = DOMAIN w
    OBVIOUS
  <1>2. /\ IsFiniteSet(S) /\ total \in Int /\ n \in Int /\ n > 0 /\ n = SumOver(w)
        /\ \A k \in S : w[k] \in Int
    BY <1>1 DEF Weighted
  <1>3. DOMAIN v = S /\ \A k \in S : w[k] \in Int /\ v[k] = c * w[k]
    BY <1>1, <1>2
  <1>4. SumOver(v) = c * n
    <2>1. SumOver(v) = SumOn(v, S) /\ n = SumOn(w, S)
      BY <1>1, <1>2, <1>3, SumOverIsSumOn
    <2>2. SumOn(v, S) = c * SumOn(w, S)
      BY <1>2, <1>3, SumScaled
    <2>3. QED
      BY <2>1, <2>2
  <1>5. c * n \in Int /\ c * n > 0
    BY <1>2
  <1>6. Weighted(total, v, c * n)
    BY <1>2, <1>3, <1>4, <1>5 DEF Weighted
  <1>7. ASSUME NEW k \in S
        PROVE  /\ Floor(total, v, k) = Floor(total, w, k)
               /\ Remainder(total, v, k) = c * Remainder(total, w, k)
    <2>1. PICK x, p, y, q : /\ x = Floor(total, v, k) /\ p = Remainder(total, v, k)
                            /\ y = Floor(total, w, k) /\ q = Remainder(total, w, k)
      OBVIOUS
    <2>2. x \in Int /\ p \in Nat /\ p < c * n
      BY <1>3, <1>6, <2>1, FloorTypes
    <2>3. y \in Int /\ q \in Nat /\ q < n
      BY <1>1, <2>1, FloorTypes
    <2>4. total * v[k] = (c * n) * x + p
      BY <1>3, <1>6, <2>1, FloorParts
    <2>5. total * w[k] = n * y + q
      BY <1>1, <2>1, FloorParts
    <2>6. total * v[k] = c * (total * w[k])
      <3>1. PICK a \in Int : a = w[k]
        BY <1>2
      <3>2. total * (c * a) = c * (total * a)
        BY <1>2
      <3>3. QED
        BY <1>3, <3>1, <3>2
    <2>7. c * (n * y + q) = (c * n) * y + c * q
      BY <1>2, <2>3
    <2>8. c * q \in Nat /\ c * q < c * n
      <3>1. n - q >= 1 /\ c >= 1
        BY <1>2, <2>3
      <3>2. c * (n - q) > 0
        BY <1>2, <2>3, <3>1
      <3>3. c * (n - q) = c * n - c * q /\ c * q \in Int
        BY <1>2, <2>3
      <3>4. c * q >= 0
        BY <2>3
      <3>5. QED
        BY <1>5, <3>2, <3>3, <3>4
    <2>9. (c * n) * x + p = (c * n) * y + c * q
      BY <2>4, <2>5, <2>6, <2>7
    <2>10. PICK m \in Int, s \in Nat : m = c * n /\ s = c * q
      BY <1>5, <2>8
    <2>11. x = y /\ p = s
      <3>1. m > 0 /\ p < m /\ s < m /\ m * x + p = m * y + s
        BY <1>5, <2>2, <2>8, <2>9, <2>10
      <3>2. x \in Int /\ y \in Int /\ p \in Nat /\ s \in Nat /\ m \in Int
        BY <2>2, <2>3, <2>10
      <3>3. QED
        BY <3>1, <3>2, DivUnique
    <2>12. QED
      BY <2>1, <2>10, <2>11
  <1>8. [k \in S |-> Floor(total, v, k)] = [k \in S |-> Floor(total, w, k)]
    BY <1>7
  <1>9. Leftover(total, v) = Leftover(total, w)
    BY <1>1, <1>3, <1>8 DEF Leftover
  <1>10. ASSUME NEW i \in S, NEW j \in S
         PROVE  Remainder(total, v, i) >= Remainder(total, v, j)
                  <=> Remainder(total, w, i) >= Remainder(total, w, j)
    <2>1. PICK p, q : p = Remainder(total, w, i) /\ q = Remainder(total, w, j)
      OBVIOUS
    <2>2. p \in Nat /\ q \in Nat
      BY <1>1, <2>1, FloorTypes
    <2>3. Remainder(total, v, i) = c * p /\ Remainder(total, v, j) = c * q
      BY <1>7, <2>1
    <2>4. c * (p - q) = c * p - c * q /\ c * p \in Int /\ c * q \in Int
      BY <2>2
    <2>5. CASE p >= q
      <3>1. c * (p - q) >= 0
        BY <2>2, <2>5
      <3>2. QED
        BY <2>1, <2>3, <2>4, <2>5, <3>1
    <2>6. CASE p < q
      <3>1. c * (p - q) < 0
        BY <2>2, <2>6
      <3>2. ~(c * p >= c * q)
        BY <2>4, <3>1
      <3>3. QED
        BY <2>1, <2>2, <2>3, <2>6, <3>2
    <2>7. QED
      BY <2>2, <2>5, <2>6
  <1>11. Lucky(total, v) = Lucky(total, w)
    <2>1. \A up \in SUBSET S :
            (\A i \in up, j \in S \ up : Remainder(total, v, i) >= Remainder(total, v, j))
              <=> (\A i \in up, j \in S \ up :
                     Remainder(total, w, i) >= Remainder(total, w, j))
      BY <1>10
    <2>2. kSubset(Leftover(total, v), S) \subseteq SUBSET S
      BY DEF kSubset
    <2>3. QED
      BY <1>1, <1>3, <1>9, <2>1, <2>2 DEF Lucky
  <1>12. \A up : [k \in S |-> Floor(total, v, k) + IF k \in up THEN 1 ELSE 0]
               = [k \in S |-> Floor(total, w, k) + IF k \in up THEN 1 ELSE 0]
    BY <1>7
  <1>13. /\ \A f : f \in ByWeights(total, v) <=>
                 \E up \in Lucky(total, v) :
                   f = [k \in S |-> Floor(total, v, k) + IF k \in up THEN 1 ELSE 0]
         /\ \A f : f \in ByWeights(total, w) <=>
                 \E up \in Lucky(total, w) :
                   f = [k \in S |-> Floor(total, w, k) + IF k \in up THEN 1 ELSE 0]
    BY <1>1, <1>3 DEF ByWeights
  <1>14. \A f : f \in ByWeights(total, v) <=> f \in ByWeights(total, w)
    <2>1. ASSUME NEW f, f \in ByWeights(total, v) PROVE f \in ByWeights(total, w)
      <3>1. PICK up \in Lucky(total, w) :
              f = [k \in S |-> Floor(total, v, k) + IF k \in up THEN 1 ELSE 0]
        BY <1>11, <1>13, <2>1
      <3>2. f = [k \in S |-> Floor(total, w, k) + IF k \in up THEN 1 ELSE 0]
        BY <1>12, <3>1
      <3>3. QED
        BY <1>13, <3>2
    <2>2. ASSUME NEW f, f \in ByWeights(total, w) PROVE f \in ByWeights(total, v)
      <3>1. PICK up \in Lucky(total, v) :
              f = [k \in S |-> Floor(total, w, k) + IF k \in up THEN 1 ELSE 0]
        BY <1>11, <1>13, <2>2
      <3>2. f = [k \in S |-> Floor(total, v, k) + IF k \in up THEN 1 ELSE 0]
        BY <1>12, <3>1
      <3>3. QED
        BY <1>13, <3>2
    <2>3. QED
      BY <2>1, <2>2
  <1>15. QED
    BY <1>14 DEF ByWeights

\* Only the proportions count: "2:1:1 shares and 50:25:25 percentages produce
\* identical splits" (_split_by_weights).
THEOREM ProportionsDecide ==
  ASSUME NEW total \in Int, NEW people, IsFiniteSet(people),
         NEW shares \in [people -> Int], NEW percentages \in [people -> Int],
         SumOver(shares) > 0, SumOver(percentages) = 100,
         NEW c \in Nat \ {0}, NEW d \in Nat \ {0},
         \A k \in people : c * shares[k] = d * percentages[k]
  PROVE  Divisions("shares", total, people, shares)
           = Divisions("percentage", total, people, percentages)
  <1>1. Weights(people, shares) = shares /\ Weights(people, percentages) = percentages
    BY DEF Weights
  <1>2. /\ Weighted(total, shares, SumOver(shares))
        /\ Weighted(total, percentages, SumOver(percentages))
    <2>1. /\ DOMAIN shares = people /\ \A k \in DOMAIN shares : shares[k] \in Int
          /\ DOMAIN percentages = people
          /\ \A k \in DOMAIN percentages : percentages[k] \in Int
      OBVIOUS
    <2>2. SumOver(percentages) > 0
      OBVIOUS
    <2>3. Weighted(total, Weights(people, shares), SumOver(Weights(people, shares)))
      BY <1>1, <2>1, GivenWeights
    <2>4. Weighted(total, Weights(people, percentages),
                   SumOver(Weights(people, percentages)))
      BY <1>1, <2>1, <2>2, GivenWeights
    <2>5. QED
      BY <1>1, <2>3, <2>4
  <1>3. PICK v : v = [k \in people |-> c * shares[k]]
    OBVIOUS
  <1>4. v = [k \in people |-> d * percentages[k]]
    BY <1>3
  <1>5. ByWeights(total, v) = ByWeights(total, shares)
    BY <1>2, <1>3, SameProportions
  <1>6. ByWeights(total, v) = ByWeights(total, percentages)
    BY <1>2, <1>4, SameProportions
  <1>7. QED
    BY <1>1, <1>5, <1>6 DEF Divisions

-----------------------------------------------------------------------------
(* What requests ask for, and what an edit writes. *)

LEMMA EditTypes ==
  ASSUME NEW q \in Edits
  PROVE  /\ q.payer = None \/ q.payer \in Person
         /\ q.amount = None \/ q.amount \in Nat
         /\ q.type = None \/ q.type \in SplitTypes
         /\ q.who = None \/ q.who \in SUBSET Person
         /\ q.payer # None => NameFor(q) \in Name
         /\ \A k \in DOMAIN Heard(q) : Heard(q)[k] \in Int
  <1>1. IsEdit(q)
    BY RequestsAssumption
  <1>2. /\ q.payer = None \/ q.payer \in Person
        /\ q.amount = None \/ q.amount \in Nat
        /\ q.type = None \/ q.type \in SplitTypes
        /\ q.who = None \/ q.who \in SUBSET Person
    BY <1>1 DEF IsEdit, People
  <1>3. \A k \in DOMAIN Heard(q) : Heard(q)[k] \in Int
    <2>1. PICK v : v = Given(q.values, <<>>)
      OBVIOUS
    <2>2. \A k \in DOMAIN v : v[k] \in Int
      <3>1. CASE q.values = None
        BY <2>1, <3>1 DEF Given
      <3>2. CASE q.values # None
        BY <1>1, <2>1, <3>2 DEF Given, IsEdit, IsValues
      <3>3. QED
        BY <3>1, <3>2
    <2>3. Heard(q) = v \/ Heard(q) = [p \in DOMAIN v \cap live |-> v[p]]
      BY <2>1 DEF Heard
    <2>4. QED
      BY <2>2, <2>3
  <1>4. q.payer # None => NameFor(q) \in Name
    BY <1>1, <1>2, NameAssumption DEF NameFor, IsEdit
  <1>5. QED
    BY <1>2, <1>3, <1>4

LEMMA TypeForType ==
  ASSUME NEW q \in Edits, NEW row \in ExpenseRow
  PROVE  TypeFor(q, row) \in SplitTypes /\ row.type \in SplitTypes /\ row.amount \in Nat
  <1>1. row.type \in SplitTypes /\ row.amount \in Nat
    BY DEF ExpenseRow
  <1>2. QED
    BY <1>1, EditTypes DEF TypeFor, Given

LEMMA WrittenFacts ==
  ASSUME NEW q \in Edits, NEW row \in ExpenseRow, NEW now \in ExpenseRow,
         NEW w, w = Written(q, row, now)
  PROVE  /\ w \in ExpenseRow /\ w.status = now.status
         /\ w.amount = IF Changes(q, row).amount THEN q.amount ELSE now.amount
         /\ w.payer = IF Changes(q, row).payer THEN q.payer ELSE now.payer
         /\ w.user = IF Changes(q, row).payer THEN q.payer \in live ELSE now.user
         /\ w.name = IF NewName(q, row) THEN NameFor(q) ELSE now.name
         /\ w.type = IF Resplits(q, row) /\ TypeFor(q, row) # row.type
                     THEN TypeFor(q, row) ELSE now.type
         /\ Changes(q, row).amount => q.amount \in Nat
         /\ Changes(q, row).payer => q.payer \in Person
  <1>1. /\ Changes(q, row).amount => q.amount \in Nat
        /\ Changes(q, row).payer => q.payer \in Person
    BY EditTypes DEF Changes
  <1>2. PICK a, p, u, n, t :
          /\ n = IF NewName(q, row) THEN NameFor(q) ELSE now.name
          /\ a = IF Changes(q, row).amount THEN q.amount ELSE now.amount
          /\ p = IF Changes(q, row).payer THEN q.payer ELSE now.payer
          /\ u = IF Changes(q, row).payer THEN q.payer \in live ELSE now.user
          /\ t = IF Resplits(q, row) /\ TypeFor(q, row) # row.type
                  THEN TypeFor(q, row) ELSE now.type
    OBVIOUS
  <1>3. /\ now.status \in {"unused", "on", "gone"} /\ now.payer \in Person \cup {None}
        /\ now.user \in BOOLEAN /\ now.amount \in Nat /\ now.type \in SplitTypes
        /\ now.name \in Name \cup {None}
        /\ now = [status |-> now.status, payer |-> now.payer, name |-> now.name,
                  user |-> now.user, amount |-> now.amount, type |-> now.type]
    BY DEF ExpenseRow
  <1>4. w = [now EXCEPT !.amount = a, !.payer = p, !.user = u, !.name = n, !.type = t]
    BY <1>2 DEF Written
  <1>5. w = [status |-> now.status, payer |-> p, name |-> n, user |-> u, amount |-> a,
             type |-> t]
    BY <1>3, <1>4
  <1>6. /\ a \in Nat /\ p \in Person \cup {None} /\ t \in SplitTypes
        /\ n \in Name \cup {None}
    <2>1. a \in Nat /\ p \in Person \cup {None} /\ t \in SplitTypes
      BY <1>1, <1>2, <1>3, TypeForType
    <2>2. NewName(q, row) => q.payer # None
      BY DEF NewName
    <2>3. n \in Name \cup {None}
      BY <1>2, <1>3, <2>2, EditTypes
    <2>4. QED
      BY <2>1, <2>3
  <1>7. u \in BOOLEAN
    <2>1. CASE Changes(q, row).payer
      <3>1. u = (q.payer \in live)
        BY <1>2, <2>1
      <3>2. CASE q.payer \in live
        BY <3>1, <3>2
      <3>3. CASE q.payer \notin live
        BY <3>1, <3>3
      <3>4. QED
        BY <3>2, <3>3
    <2>2. CASE ~Changes(q, row).payer
      <3>1. u = now.user
        BY <1>2, <2>2
      <3>2. QED
        BY <1>3, <3>1
    <2>3. QED
      BY <2>1, <2>2
  <1>8. w \in ExpenseRow
    BY <1>3, <1>5, <1>6, <1>7 DEF ExpenseRow
  <1>9. /\ w.status = now.status /\ w.amount = a /\ w.payer = p /\ w.user = u /\ w.type = t
        /\ w.name = n
    BY <1>5
  <1>10. QED
    BY <1>1, <1>2, <1>8, <1>9

-----------------------------------------------------------------------------
(* The commit of an edit. *)

\* What is the same whether or not the shares are written again.
Commits(s) ==
  /\ On(req[s].expense) /\ req[s].expense \in Expense
  /\ req[s].edit \in Edits /\ req[s].seen \in ExpenseRow
  /\ expense' = [expense EXCEPT ![req[s].expense] =
                   Written(req[s].edit, req[s].seen, expense[req[s].expense])]
  /\ notes' = [notes EXCEPT ![req[s].expense] = @ + Comments(req[s].edit, req[s].seen)]
  /\ UNCHANGED <<live, seats, invited, settlements, requests>>

\* The shares are, in parts f that add up to what the amount becomes as far
\* as the request knows.
AmountFor(s) == IF Changes(req[s].edit, req[s].seen).amount THEN req[s].edit.amount
                ELSE req[s].seen.amount
Rewrites(s, old, n, f) ==
  /\ Resplits(req[s].edit, req[s].seen)
  /\ n \in Nat /\ f \in [DOMAIN f -> Int] /\ DOMAIN f \in SUBSET Person
  /\ SumOver(f) = AmountFor(s)
  /\ TypeFor(req[s].edit, req[s].seen) = "equal" =>
       \A j, k \in DOMAIN f : f[j] - f[k] <= 1
  /\ splits' = Remaining(old) \cup Rows(req[s].expense, n, f)
  /\ stale' = IF req[s].fresh THEN stale \ {req[s].expense}
              ELSE stale \cup {req[s].expense}
  /\ req' = Outdated(req[s].expense, s)
Leaves(s) ==
  /\ ~Resplits(req[s].edit, req[s].seen)
  /\ req' = [req EXCEPT ![s] = Idle]
  /\ UNCHANGED <<splits, stale>>

LEMMA FinishFacts ==
  ASSUME TypeOK, NEW s \in Slot, req[s].pc # "idle",
         NEW who \in SUBSET Person, NEW old, Finish(s, who, old)
  PROVE  /\ Commits(s)
         /\ Leaves(s) \/ \E n, f : Rewrites(s, old, n, f)
  <1>1. PICK e, q, row : e = req[s].expense /\ q = req[s].edit /\ row = req[s].seen
    OBVIOUS
  <1>2. e \in Expense /\ q \in Edits /\ row \in ExpenseRow
    BY <1>1 DEF TypeOK
  <1>3. /\ On(e)
        /\ expense' = [expense EXCEPT ![e] = Written(q, row, expense[e])]
        /\ notes' = [notes EXCEPT ![e] = @ + Comments(q, row)]
        /\ UNCHANGED <<live, seats, invited, settlements, requests>>
    BY <1>1 DEF Finish, On
  <1>4. Commits(s)
    BY <1>1, <1>2, <1>3 DEF Commits
  <1>5. CASE ~Resplits(q, row)
    BY <1>1, <1>4, <1>5 DEF Finish, Leaves
  <1>6. CASE Resplits(q, row)
    <2>1. PICK f \in Divisions(TypeFor(q, row), AmountFor(s), who, Heard(q)) :
            splits' = Remaining(old) \cup Rows(e, notes[e] + 1, f)
      BY <1>1, <1>6 DEF Finish, AmountFor
    <2>2. /\ stale' = IF req[s].fresh THEN stale \ {e} ELSE stale \cup {e}
          /\ req' = Outdated(e, s)
      BY <1>1, <1>6 DEF Finish
    <2>3. IsFiniteSet(who)
      BY FoundersAssumption, FS_Subset
    <2>4. AmountFor(s) \in Int /\ TypeFor(q, row) \in SplitTypes
      <3>1. TypeFor(q, row) \in SplitTypes /\ row.amount \in Nat
        BY <1>2, TypeForType
      <3>2. q.amount = None \/ q.amount \in Nat
        BY <1>2, EditTypes
      <3>3. Changes(q, row).amount => q.amount # None
        BY DEF Changes
      <3>4. QED
        BY <1>1, <3>1, <3>2, <3>3 DEF AmountFor
    <2>5. /\ f \in [who -> Int] /\ DOMAIN f = who /\ SumOver(f) = AmountFor(s)
          /\ TypeFor(q, row) = "equal" => \A j, k \in who : f[j] - f[k] <= 1
      BY <1>2, <2>1, <2>3, <2>4, EditTypes, DivisionsAddUp
    <2>6. notes[e] + 1 \in Nat
      BY <1>2 DEF TypeOK
    <2>7. Rewrites(s, old, notes[e] + 1, f)
      BY <1>1, <1>6, <2>1, <2>2, <2>5, <2>6 DEF Rewrites
    <2>8. QED
      BY <1>4, <2>7
  <1>7. QED
    BY <1>5, <1>6

\* Whichever way a request commits, the people are people and the rows it
\* replaces are those it has read, or those that are there.
LEMMA CommitFacts ==
  ASSUME TypeOK, NEW s \in Slot, CommitLocked(s) \/ CommitSplits(s)
  PROVE  /\ req[s].pc # "idle" /\ Commits(s)
         /\ \/ Leaves(s)
            \/ \E n, f : Rewrites(s, SplitsOf(req[s].expense), n, f)
            \/ req[s].pc = "old" /\ \E n, f : Rewrites(s, req[s].old, n, f)
  <1>1. req[s] \in Request /\ req[s].who \in SUBSET Person
    BY DEF TypeOK, Request
  <1>2. CASE CommitSplits(s)
    <2>1. req[s].pc = "old" /\ req[s].pc # "idle" /\ Finish(s, req[s].who, req[s].old)
      BY <1>2 DEF CommitSplits
    <2>2. QED
      BY <1>1, <2>1, FinishFacts
  <1>3. CASE CommitLocked(s)
    <2>1. PICK old : old = SplitsOf(req[s].expense)
      OBVIOUS
    <2>2. /\ req[s].pc # "idle"
          /\ Finish(s, WhoFor(s), old) \/ Finish(s, req[s].who, old)
      BY <1>3, <2>1 DEF CommitLocked
    <2>3. WhoFor(s) \in SUBSET Person
      <3>1. \A r \in splits : r.who \in Person
        BY DEF TypeOK, SplitRow
      <3>2. req[s].edit \in Edits
        BY <2>2 DEF TypeOK
      <3>3. QED
        BY <3>1, <3>2, EditTypes DEF WhoFor, Given, SplitsOf
    <2>4. QED
      BY <1>1, <2>1, <2>2, <2>3, FinishFacts
  <1>4. QED
    BY <1>2, <1>3

-----------------------------------------------------------------------------
(* What the other actions do. *)

\* Parts that add up to the amount.
Parts(f, amount, type) ==
  /\ f \in [DOMAIN f -> Int] /\ DOMAIN f \in SUBSET Person
  /\ SumOver(f) = amount
  /\ type = "equal" => \A j, k \in DOMAIN f : f[j] - f[k] <= 1

\* The rows of the parts f: one for each of them.
LEMMA RowsFacts ==
  ASSUME NEW e \in Expense, NEW n \in Nat, NEW f, f \in [DOMAIN f -> Int],
         DOMAIN f \in SUBSET Person
  PROVE  /\ Rows(e, n, f) \subseteq SplitRow
         /\ \A r \in Rows(e, n, f) :
              /\ r.expense = e /\ r.n = n /\ r.who \in DOMAIN f /\ r.cents = f[r.who]
              /\ r.who \in live => r.user = TRUE
              /\ r.who \notin live => r.user = FALSE
         /\ \A k \in DOMAIN f : \E r \in Rows(e, n, f) : r.who = k
  <1> DEFINE Row(k) == [expense |-> e, n |-> n, who |-> k, user |-> k \in live,
                        cents |-> f[k]]
  <1>1. Rows(e, n, f) = {Row(k) : k \in DOMAIN f}
    BY DEF Rows
  <1>2. ASSUME NEW k \in DOMAIN f
        PROVE  /\ Row(k) \in SplitRow
               /\ Row(k).expense = e /\ Row(k).n = n /\ Row(k).who = k /\ Row(k).cents = f[k]
               /\ k \in live => Row(k).user = TRUE
               /\ k \notin live => Row(k).user = FALSE
    <2>1. f[k] \in Int /\ k \in Person
      OBVIOUS
    <2>2. CASE k \in live
      <3>1. Row(k) = [expense |-> e, n |-> n, who |-> k, user |-> TRUE, cents |-> f[k]]
        BY <2>2
      <3> HIDE DEF Row
      <3>2. QED
        BY <2>1, <2>2, <3>1 DEF SplitRow
    <2>3. CASE k \notin live
      <3>1. (k \in live) = FALSE
        BY <2>3
      <3>2. Row(k) = [expense |-> e, n |-> n, who |-> k, user |-> FALSE, cents |-> f[k]]
        BY <3>1, Zenon
      <3> HIDE DEF Row
      <3>3. QED
        BY <2>1, <2>3, <3>2 DEF SplitRow
    <2> HIDE DEF Row
    <2>4. QED
      BY <2>2, <2>3
  <1> HIDE DEF Row
  <1>3. ASSUME NEW r \in Rows(e, n, f)
        PROVE  /\ r \in SplitRow
               /\ r.expense = e /\ r.n = n /\ r.who \in DOMAIN f /\ r.cents = f[r.who]
               /\ r.who \in live => r.user = TRUE
               /\ r.who \notin live => r.user = FALSE
    <2>1. PICK k \in DOMAIN f : r = Row(k)
      BY <1>1
    <2>2. QED
      BY <1>2, <2>1
  <1>4. ASSUME NEW k \in DOMAIN f PROVE \E r \in Rows(e, n, f) : r.who = k
    <2>1. Row(k) \in Rows(e, n, f)
      BY <1>1
    <2>2. QED
      BY <1>2, <2>1
  <1>5. QED
    BY <1>3, <1>4

Adds(e, row, f) ==
  /\ row \in ExpenseRow /\ row.status = "on" /\ row.payer \in Person
  /\ row.payer \in live => row.user = TRUE
  /\ row.payer \notin live => row.user = FALSE
  /\ Parts(f, row.amount, row.type)
  /\ expense' = [expense EXCEPT ![e] = row]
  /\ splits' = splits \cup Rows(e, 0, f)

LEMMA CreateFacts ==
  ASSUME TypeOK, NEW e \in Expense, Create(e)
  PROVE  /\ expense[e].status = "unused" /\ requests' = requests + 1
         /\ \E S \in SUBSET Person : invited' = Invite(S, GroupOf[e])
         /\ UNCHANGED <<live, seats, notes, settlements, req, stale>>
         /\ UNCHANGED <<expense, splits>> \/ \E row, f : Adds(e, row, f)
  <1>1. PICK q \in Creates :
          LET named == q.who \cup {q.payer}
              parts == Divisions(q.type, q.amount, q.who, q.values)
          IN  /\ invited' = Invite(named, GroupOf[e])
              /\ IF parts = {} THEN UNCHANGED <<expense, splits>>
                 ELSE /\ expense' = [expense EXCEPT ![e] =
                           [status |-> "on", payer |-> q.payer, name |-> NameFor(q),
                            user |-> q.payer \in live, amount |-> q.amount, type |-> q.type]]
                      /\ \E f \in parts : splits' = splits \cup Rows(e, 0, f)
    BY DEF Create
  <1>2. IsCreate(q)
    BY RequestsAssumption
  <1>3. q.payer \in Person /\ q.amount \in Nat /\ q.type \in SplitTypes /\ q.who \in SUBSET Person
    BY <1>2 DEF IsCreate, People
  <1>4. \A k \in DOMAIN q.values : q.values[k] \in Int
    BY <1>2 DEF IsCreate, IsValues
  <1>5. \E S \in SUBSET Person : invited' = Invite(S, GroupOf[e])
    <2>1. q.who \cup {q.payer} \in SUBSET Person
      BY <1>3
    <2>2. QED
      BY <1>1, <2>1
  <1>6. /\ expense[e].status = "unused" /\ requests' = requests + 1
        /\ UNCHANGED <<live, seats, notes, settlements, req, stale>>
    BY DEF Create, Arrives
  <1>7. CASE Divisions(q.type, q.amount, q.who, q.values) = {}
    BY <1>1, <1>5, <1>6, <1>7
  <1>8. CASE Divisions(q.type, q.amount, q.who, q.values) # {}
    <2>1. PICK row, n : /\ n = NameFor(q)
                        /\ row = [status |-> "on", payer |-> q.payer, name |-> n,
                                  user |-> q.payer \in live, amount |-> q.amount,
                                  type |-> q.type]
      OBVIOUS
    <2>2. PICK f \in Divisions(q.type, q.amount, q.who, q.values) :
            /\ expense' = [expense EXCEPT ![e] = row] /\ splits' = splits \cup Rows(e, 0, f)
      BY <1>1, <1>8, <2>1
    <2>3. PICK u \in BOOLEAN :
            /\ row = [status |-> "on", payer |-> q.payer, name |-> n, user |-> u,
                      amount |-> q.amount, type |-> q.type]
            /\ q.payer \in live => u = TRUE
            /\ q.payer \notin live => u = FALSE
      <3>1. CASE q.payer \in live
        <4>1. row = [status |-> "on", payer |-> q.payer, name |-> n, user |-> TRUE,
                     amount |-> q.amount, type |-> q.type]
          BY <2>1, <3>1
        <4>2. QED
          BY <3>1, <4>1
      <3>2. CASE q.payer \notin live
        <4>1. (q.payer \in live) = FALSE
          BY <3>2
        <4>2. row = [status |-> "on", payer |-> q.payer, name |-> n, user |-> FALSE,
                     amount |-> q.amount, type |-> q.type]
          BY <2>1, <4>1, Zenon
        <4>3. FALSE \in BOOLEAN
          OBVIOUS
        <4>4. QED
          BY <3>2, <4>2, <4>3
      <3>3. QED
        BY <3>1, <3>2
    <2>4. n \in Name
      BY <1>2, <1>3, <2>1, NameAssumption DEF NameFor, IsCreate
    <2>6. /\ row \in ExpenseRow /\ row.status = "on" /\ row.payer = q.payer
          /\ row.user = u /\ row.amount = q.amount /\ row.type = q.type
      BY <1>3, <2>3, <2>4 DEF ExpenseRow
    <2>7. IsFiniteSet(q.who) /\ q.amount \in Int
      BY <1>3, FoundersAssumption, FS_Subset
    <2>8. Parts(f, q.amount, q.type)
      <3>1. /\ f \in [q.who -> Int] /\ DOMAIN f = q.who /\ SumOver(f) = q.amount
            /\ q.type = "equal" => \A j, k \in q.who : f[j] - f[k] <= 1
        BY <1>3, <1>4, <2>2, <2>7, DivisionsAddUp
      <3>2. QED
        BY <1>3, <3>1 DEF Parts
    <2>9. Adds(e, row, f)
      BY <1>3, <2>2, <2>3, <2>6, <2>8 DEF Adds
    <2>10. QED
      BY <1>5, <1>6, <2>9
  <1>9. QED
    BY <1>7, <1>8

\* An account leaves or comes: every row that names the person says so.
Touch(r, p, user) == IF r.who = p THEN [r EXCEPT !.user = user] ELSE r
Moves(p, user) ==
  /\ Quiet /\ Attach(p, user) /\ settlements' = Relinked(p, user)
  /\ user = TRUE => live' = live \cup {p}
  /\ user = FALSE => live' = live \ {p}
  /\ UNCHANGED <<notes, req, stale>>

LEMMA LeaveJoinMove ==
  ASSUME NEW p \in Person
  PROVE  (Leave(p) => Moves(p, FALSE)) /\ (Join(p) => Moves(p, TRUE))
  BY DEF Leave, Join, Moves

LEMMA TouchFacts ==
  ASSUME NEW r \in SplitRow, NEW p \in Person, NEW user \in BOOLEAN
  PROVE  /\ Touch(r, p, user) \in SplitRow
         /\ Touch(r, p, user).expense = r.expense /\ Touch(r, p, user).n = r.n
         /\ Touch(r, p, user).who = r.who /\ Touch(r, p, user).cents = r.cents
         /\ Touch(r, p, user).user = IF r.who = p THEN user ELSE r.user
  <1>1. /\ r.expense \in Expense /\ r.n \in Nat /\ r.who \in Person /\ r.user \in BOOLEAN
        /\ r.cents \in Int
        /\ r = [expense |-> r.expense, n |-> r.n, who |-> r.who, user |-> r.user,
                cents |-> r.cents]
    BY DEF SplitRow
  <1>2. CASE r.who = p
    <2>1. Touch(r, p, user) = [expense |-> r.expense, n |-> r.n, who |-> r.who,
                               user |-> user, cents |-> r.cents]
      BY <1>1, <1>2 DEF Touch
    <2>2. QED
      BY <1>1, <1>2, <2>1 DEF SplitRow
  <1>3. CASE r.who # p
    BY <1>3 DEF Touch
  <1>4. QED
    BY <1>2, <1>3

LEMMA MoveFacts ==
  ASSUME TypeOK, NEW p \in Person, NEW user \in BOOLEAN, Moves(p, user)
  PROVE  /\ expense' \in [Expense -> ExpenseRow]
         /\ \A e \in Expense :
              /\ expense'[e].status = expense[e].status
              /\ expense'[e].payer = expense[e].payer
              /\ expense'[e].amount = expense[e].amount
              /\ expense'[e].type = expense[e].type
              /\ expense'[e].user = IF expense[e].payer = p THEN user ELSE expense[e].user
              /\ expense'[e].name = IF expense[e].payer = p THEN NameOf[p] ELSE expense[e].name
         /\ splits' = {Touch(r, p, user) : r \in splits} /\ splits' \subseteq SplitRow
  <1>1. /\ expense' = [e \in Expense |->
             IF expense[e].payer = p
             THEN [expense[e] EXCEPT !.user = user, !.name = NameOf[p]] ELSE expense[e]]
        /\ splits' = {Touch(r, p, user) : r \in splits}
    <2>1. Attach(p, user)
      BY DEF Moves
    <2>2. expense' = [e \in Expense |->
             IF expense[e].payer = p
             THEN [expense[e] EXCEPT !.user = user, !.name = NameOf[p]] ELSE expense[e]]
      BY <2>1 DEF Attach
    <2>3. splits' = {IF r.who = p THEN [r EXCEPT !.user = user] ELSE r : r \in splits}
      BY <2>1 DEF Attach
    <2>4. splits' = {Touch(r, p, user) : r \in splits}
      BY <2>3 DEF Touch
    <2>5. QED
      BY <2>2, <2>4
  <1>2. splits' \subseteq SplitRow
    <2>1. splits' = {Touch(r, p, user) : r \in splits}
      BY <1>1
    <2>2. splits \subseteq SplitRow
      BY DEF TypeOK
    <2>3. \A r \in splits : Touch(r, p, user) \in SplitRow
      BY <2>2, TouchFacts
    <2>4. QED
      BY <2>1, <2>3
  <1>3. ASSUME NEW e \in Expense
        PROVE  /\ expense'[e] \in ExpenseRow
               /\ expense'[e].status = expense[e].status
               /\ expense'[e].payer = expense[e].payer
               /\ expense'[e].amount = expense[e].amount
               /\ expense'[e].type = expense[e].type
               /\ expense'[e].user = IF expense[e].payer = p THEN user ELSE expense[e].user
               /\ expense'[e].name = IF expense[e].payer = p THEN NameOf[p] ELSE expense[e].name
    <2>1. PICK x : x = expense[e]
      OBVIOUS
    <2>2. /\ x \in ExpenseRow
          /\ expense'[e] = IF x.payer = p THEN [x EXCEPT !.user = user, !.name = NameOf[p]]
                           ELSE x
      BY <1>1, <2>1 DEF TypeOK
    <2>3. CASE x.payer = p
      <3>1. expense'[e] = [status |-> x.status, payer |-> x.payer, name |-> NameOf[p],
                           user |-> user, amount |-> x.amount, type |-> x.type]
        BY <2>2, <2>3 DEF ExpenseRow
      <3>2. NameOf[p] \in Name
        BY NameAssumption
      <3>3. QED
        BY <2>1, <2>2, <2>3, <3>1, <3>2 DEF ExpenseRow
    <2>4. CASE x.payer # p
      BY <2>1, <2>2, <2>4
    <2>5. QED
      BY <2>3, <2>4
  <1>4. QED
    BY <1>1, <1>2, <1>3

-----------------------------------------------------------------------------
(* Types. *)

LEMMA InitTypeOK == Init => TypeOK
  <1> SUFFICES ASSUME Init PROVE TypeOK
    OBVIOUS
  <1>1. NoRow("unused") \in ExpenseRow
    BY DEF NoRow, ExpenseRow, SplitTypes
  <1>2. Idle \in Request /\ Idle.pc = "idle"
    BY DEF Idle, Request
  <1>3. expense \in [Expense -> ExpenseRow]
    BY <1>1 DEF Init
  <1>4. req \in [Slot -> Request] /\ \A s \in Slot : req[s].pc = "idle"
    BY <1>2 DEF Init
  <1>5. live \subseteq Person /\ requests \in Nat /\ stale \subseteq Expense
    BY FoundersAssumption DEF Init
  <1>6. /\ seats \in [Group -> SUBSET Person]
        /\ invited \in [Group -> SUBSET Person]
        /\ splits \subseteq SplitRow /\ notes \in [Expense -> Nat]
        /\ settlements \subseteq Settlement
    BY <1>5 DEF Init
  <1>7. QED
    BY <1>3, <1>4, <1>5, <1>6 DEF TypeOK

\* The clause about requests, apart.
ReqOK(r) == r.pc # "idle" =>
              r.expense \in Expense /\ r.edit \in Edits /\ r.seen \in ExpenseRow

LEMMA IdleOK == Idle \in Request /\ ReqOK(Idle)
  BY DEF Idle, Request, ReqOK

LEMMA InviteType ==
  ASSUME TypeOK, NEW S \in SUBSET Person, NEW g \in Group, invited' = Invite(S, g)
  PROVE  invited' \in [Group -> SUBSET Person]
  BY DEF TypeOK, Invite

LEMMA CreateType ==
  ASSUME TypeOK, NEW e \in Expense, Create(e)
  PROVE  TypeOK'
  <1>1. /\ requests' = requests + 1
        /\ UNCHANGED <<live, seats, notes, settlements, req, stale>>
        /\ \E S \in SUBSET Person : invited' = Invite(S, GroupOf[e])
        /\ UNCHANGED <<expense, splits>> \/ \E row, f : Adds(e, row, f)
    BY CreateFacts
  <1>2. GroupOf[e] \in Group
    BY GroupAssumption
  <1>3. invited' \in [Group -> SUBSET Person] /\ requests' \in Nat
    <2>1. invited' \in [Group -> SUBSET Person]
      BY <1>1, <1>2, InviteType
    <2>2. requests \in Nat
      BY DEF TypeOK
    <2>3. QED
      BY <1>1, <2>1, <2>2
  <1>4. CASE UNCHANGED <<expense, splits>>
    BY <1>1, <1>3, <1>4 DEF TypeOK
  <1>5. CASE \E row, f : Adds(e, row, f)
    <2>1. PICK row, f : Adds(e, row, f)
      BY <1>5
    <2>2. expense' \in [Expense -> ExpenseRow]
      BY <2>1 DEF Adds, TypeOK
    <2>3. Rows(e, 0, f) \subseteq SplitRow
      BY <2>1, RowsFacts DEF Adds, Parts
    <2>4. splits' \subseteq SplitRow
      BY <2>1, <2>3 DEF Adds, TypeOK
    <2>5. QED
      BY <1>1, <1>3, <2>2, <2>4 DEF TypeOK
  <1>6. QED
    BY <1>1, <1>4, <1>5

LEMMA CommitType ==
  ASSUME TypeOK, NEW s \in Slot, CommitLocked(s) \/ CommitSplits(s)
  PROVE  TypeOK'
  <1>1. /\ req[s].pc # "idle" /\ Commits(s)
        /\ Leaves(s) \/ \E old, n, f : Rewrites(s, old, n, f)
    BY CommitFacts
  <1>2. PICK e, q, row : e = req[s].expense /\ q = req[s].edit /\ row = req[s].seen
    OBVIOUS
  <1>3. /\ e \in Expense /\ q \in Edits /\ row \in ExpenseRow
        /\ expense' = [expense EXCEPT ![e] = Written(q, row, expense[e])]
        /\ notes' = [notes EXCEPT ![e] = @ + Comments(q, row)]
        /\ UNCHANGED <<live, seats, invited, settlements, requests>>
    BY <1>1, <1>2 DEF Commits
  <1>4. Written(q, row, expense[e]) \in ExpenseRow
    BY <1>3, WrittenFacts DEF TypeOK
  <1>5. expense' \in [Expense -> ExpenseRow]
    BY <1>3, <1>4 DEF TypeOK
  <1>6. notes' \in [Expense -> Nat]
    <2>1. Comments(q, row) \in Nat
      BY DEF Comments
    <2>2. QED
      BY <1>3, <2>1 DEF TypeOK
  <1>7. splits' \subseteq SplitRow /\ stale' \subseteq Expense
    <2>1. CASE Leaves(s)
      BY <2>1 DEF Leaves, TypeOK
    <2>2. CASE \E old, n, f : Rewrites(s, old, n, f)
      <3>1. PICK old, n, f : Rewrites(s, old, n, f)
        BY <2>2
      <3>2. Rows(e, n, f) \subseteq SplitRow
        BY <1>3, <3>1, RowsFacts DEF Rewrites
      <3>3. splits' = Remaining(old) \cup Rows(e, n, f)
        BY <1>2, <3>1 DEF Rewrites
      <3>4. stale' \subseteq Expense
        BY <1>2, <1>3, <3>1 DEF Rewrites, TypeOK
      <3>5. QED
        BY <3>2, <3>3, <3>4 DEF Remaining, TypeOK
    <2>3. QED
      BY <1>1, <2>1, <2>2
  <1>8. ASSUME NEW t \in Slot PROVE req'[t] \in Request /\ ReqOK(req'[t])
    <2>1. req[t] \in Request /\ ReqOK(req[t])
      BY DEF TypeOK, ReqOK
    <2>2. \/ req'[t] = Idle \/ req'[t] = req[t]
          \/ req'[t] = [req[t] EXCEPT !.fresh = @ /\ req[t].expense # e]
      BY <1>1, <1>2 DEF Leaves, Rewrites, Outdated, TypeOK
    <2>3. PICK b : b = (req[t].fresh /\ req[t].expense # e)
      OBVIOUS
    <2>4. b \in BOOLEAN
      <3>1. CASE req[t].fresh /\ req[t].expense # e
        BY <2>3, <3>1
      <3>2. CASE ~(req[t].fresh /\ req[t].expense # e)
        BY <2>3, <3>2
      <3>3. QED
        BY <3>1, <3>2
    <2>5. [req[t] EXCEPT !.fresh = b] \in Request /\ ReqOK([req[t] EXCEPT !.fresh = b])
      BY <2>1, <2>4 DEF Request, ReqOK
    <2>6. QED
      BY <2>1, <2>2, <2>3, <2>5, IdleOK
  <1>9. req' = [t \in Slot |-> req'[t]]
    BY <1>1 DEF Leaves, Rewrites, Outdated, TypeOK
  <1>10. req' \in [Slot -> Request] /\ \A t \in Slot : ReqOK(req'[t])
    BY <1>8, <1>9
  <1>11. QED
    BY <1>3, <1>5, <1>6, <1>7, <1>10 DEF TypeOK, ReqOK

LEMMA RequestType ==
  ASSUME TypeOK, NEW s \in Slot,
         (\E e \in Expense : Open(s, e)) \/ LoadWho(s) \/ LoadOld(s) \/ Abort(s)
  PROVE  TypeOK'
  <1>1. PICK r : req' = [req EXCEPT ![s] = r] /\ r \in Request /\ ReqOK(r)
    <2>1. CASE \E e \in Expense : Open(s, e)
      <3>1. PICK e \in Expense, q \in Edits :
              req' = [req EXCEPT ![s] = [Idle EXCEPT !.pc = "read", !.expense = e,
                                           !.edit = q, !.seen = expense[e]]]
        BY <2>1 DEF Open
      <3>2. PICK x : x = expense[e]
        OBVIOUS
      <3>3. x \in ExpenseRow
        BY <3>2 DEF TypeOK
      <3>4. PICK i : i = Idle
        OBVIOUS
      <3>5. i \in Request
        BY <3>4, IdleOK
      <3>6. /\ [i EXCEPT !.pc = "read", !.expense = e, !.edit = q, !.seen = x] \in Request
            /\ ReqOK([i EXCEPT !.pc = "read", !.expense = e, !.edit = q, !.seen = x])
        BY <3>3, <3>5 DEF Request, ReqOK
      <3>7. QED
        BY <3>1, <3>2, <3>4, <3>6
    <2>2. CASE LoadWho(s)
      <3>1. PICK w : w = WhoFor(s)
        OBVIOUS
      <3>2. req' = [req EXCEPT ![s].pc = "who", ![s].who = w] /\ req[s].pc = "read"
        BY <2>2, <3>1 DEF LoadWho
      <3>3. w \in SUBSET Person
        <4>1. \A r \in splits : r.who \in Person
          BY DEF TypeOK, SplitRow
        <4>2. req[s].edit \in Edits
          BY <3>2 DEF TypeOK
        <4>3. QED
          BY <3>1, <4>1, <4>2, EditTypes DEF WhoFor, Given, SplitsOf
      <3>4. req' = [req EXCEPT ![s] = [req[s] EXCEPT !.pc = "who", !.who = w]]
        BY <3>2 DEF TypeOK
      <3>5. [req[s] EXCEPT !.pc = "who", !.who = w] \in Request
        BY <3>3 DEF TypeOK, Request
      <3>6. ReqOK([req[s] EXCEPT !.pc = "who", !.who = w])
        BY <3>2 DEF TypeOK, ReqOK, Request
      <3>7. QED
        BY <3>4, <3>5, <3>6
    <2>3. CASE LoadOld(s)
      <3>1. PICK w : w = SplitsOf(req[s].expense)
        OBVIOUS
      <3>2. req' = [req EXCEPT ![s].pc = "old", ![s].old = w] /\ req[s].pc = "who"
        BY <2>3, <3>1 DEF LoadOld
      <3>3. w \in SUBSET SplitRow
        BY <3>1 DEF SplitsOf, TypeOK
      <3>4. req' = [req EXCEPT ![s] = [req[s] EXCEPT !.pc = "old", !.old = w]]
        BY <3>2 DEF TypeOK
      <3>5. [req[s] EXCEPT !.pc = "old", !.old = w] \in Request
        BY <3>3 DEF TypeOK, Request
      <3>6. ReqOK([req[s] EXCEPT !.pc = "old", !.old = w])
        BY <3>2 DEF TypeOK, ReqOK, Request
      <3>7. QED
        BY <3>4, <3>5, <3>6
    <2>4. CASE Abort(s)
      BY <2>4, IdleOK DEF Abort
    <2>5. QED
      BY <2>1, <2>2, <2>3, <2>4
  <1>2. req' \in [Slot -> Request] /\ \A t \in Slot : ReqOK(req'[t])
    BY <1>1 DEF TypeOK, ReqOK
  <1>3. UNCHANGED <<live, seats, expense, splits, notes, settlements, stale>>
    BY DEF Open, LoadWho, LoadOld, Abort, ledger
  <1>4. invited' \in [Group -> SUBSET Person]
    <2>1. CASE \E e \in Expense : Open(s, e)
      <3>1. PICK e \in Expense, q \in Edits :
              invited' = Invite(Given(q.who, {}) \cup (IF q.payer = None THEN {} ELSE {q.payer}),
                                GroupOf[e])
        BY <2>1 DEF Open
      <3>2. Given(q.who, {}) \cup (IF q.payer = None THEN {} ELSE {q.payer}) \in SUBSET Person
        BY EditTypes DEF Given
      <3>3. GroupOf[e] \in Group
        BY GroupAssumption
      <3>4. QED
        BY <3>1, <3>2, <3>3, InviteType
    <2>2. CASE LoadWho(s) \/ LoadOld(s) \/ Abort(s)
      BY <2>2 DEF LoadWho, LoadOld, Abort, ledger, TypeOK
    <2>3. QED
      BY <2>1, <2>2
  <1>5. requests' \in Nat
    <2>1. requests' = requests \/ requests' = requests + 1
      BY DEF Open, LoadWho, LoadOld, Abort, Arrives
    <2>2. requests \in Nat
      BY DEF TypeOK
    <2>3. QED
      BY <2>1, <2>2
  <1>6. QED
    BY <1>2, <1>3, <1>4, <1>5 DEF TypeOK, ReqOK

LEMMA DeleteType ==
  ASSUME TypeOK, NEW e \in Expense, Delete(e)
  PROVE  TypeOK'
  <1>1. NoRow("gone") \in ExpenseRow
    BY DEF NoRow, ExpenseRow, SplitTypes
  <1>2. expense' \in [Expense -> ExpenseRow]
    BY <1>1 DEF Delete, TypeOK
  <1>3. /\ splits' \subseteq SplitRow /\ notes' \in [Expense -> Nat]
        /\ stale' \subseteq Expense /\ requests' \in Nat
    BY DEF Delete, Arrives, TypeOK
  <1>4. UNCHANGED <<live, seats, invited, settlements, req>>
    BY DEF Delete
  <1>5. QED
    BY <1>2, <1>3, <1>4 DEF TypeOK

\* A settlement, attached for those who have an account.
Pays(x) ==
  /\ x \in Settlement
  /\ x.from \in live => x.fromUser = TRUE
  /\ x.from \notin live => x.fromUser = FALSE
  /\ x.to \in live => x.toUser = TRUE
  /\ x.to \notin live => x.toUser = FALSE

LEMMA SettleFacts ==
  ASSUME TypeOK, NEW p \in Person, NEW q \in Person, Settle(p, q)
  PROVE  /\ \E x : Pays(x) /\ settlements' = settlements \cup {x}
         /\ UNCHANGED <<live, seats, invited, expense, splits, notes, req, stale>>
         /\ requests' = requests + 1
  <1>1. PICK cents \in Payments, from \in {p, q} :
          settlements' = settlements \cup
            {[id |-> requests, from |-> from, fromUser |-> from \in live,
              to |-> IF from = p THEN q ELSE p,
              toUser |-> (IF from = p THEN q ELSE p) \in live, cents |-> cents]}
    BY DEF Settle
  <1>2. PICK to : to = IF from = p THEN q ELSE p
    OBVIOUS
  <1>3. PICK x : x = [id |-> requests, from |-> from, fromUser |-> from \in live,
                      to |-> to, toUser |-> to \in live, cents |-> cents]
    OBVIOUS
  <1>4. settlements' = settlements \cup {x}
    BY <1>1, <1>2, <1>3
  <1>5. /\ x.id = requests /\ x.from = from /\ x.to = to /\ x.cents = cents
        /\ x.fromUser = (from \in live) /\ x.toUser = (to \in live)
    BY <1>3
  <1>6. requests \in Nat /\ from \in Person /\ to \in Person /\ cents \in Nat
    BY <1>2, PaymentsAssumption DEF TypeOK
  <1>7. /\ from \in live => x.fromUser = TRUE
        /\ from \notin live => x.fromUser = FALSE
        /\ to \in live => x.toUser = TRUE
        /\ to \notin live => x.toUser = FALSE
    <2>1. x.fromUser = (from \in live)
      BY <1>5
    <2>2. x.toUser = (to \in live)
      BY <1>5
    <2>3. ASSUME from \in live PROVE x.fromUser = TRUE
      BY <2>1, <2>3
    <2>4. ASSUME from \notin live PROVE x.fromUser = FALSE
      <3>1. (from \in live) = FALSE
        BY <2>4
      <3>2. QED
        BY <2>1, <3>1, Zenon
    <2>5. ASSUME to \in live PROVE x.toUser = TRUE
      BY <2>2, <2>5
    <2>6. ASSUME to \notin live PROVE x.toUser = FALSE
      <3>1. (to \in live) = FALSE
        BY <2>6
      <3>2. QED
        BY <2>2, <3>1, Zenon
    <2>7. QED
      BY <2>3, <2>4, <2>5, <2>6
  <1>8. x.fromUser \in BOOLEAN /\ x.toUser \in BOOLEAN
    <2>1. x.fromUser = TRUE \/ x.fromUser = FALSE
      BY <1>7
    <2>2. x.toUser = TRUE \/ x.toUser = FALSE
      BY <1>7
    <2>3. QED
      BY <2>1, <2>2
  <1>9. x \in Settlement
    <2>1. x = [id |-> requests, from |-> from, fromUser |-> x.fromUser,
               to |-> to, toUser |-> x.toUser, cents |-> cents]
      BY <1>3, Zenon
    <2>2. QED
      BY <1>6, <1>8, <2>1 DEF Settlement
  <1>10. Pays(x)
    BY <1>5, <1>7, <1>9 DEF Pays
  <1>11. /\ UNCHANGED <<live, seats, invited, expense, splits, notes, req, stale>>
         /\ requests' = requests + 1
    BY DEF Settle, Arrives
  <1>12. QED
    BY <1>4, <1>10, <1>11

LEMMA SettleType ==
  ASSUME TypeOK, NEW p \in Person, NEW q \in Person, Settle(p, q)
  PROVE  TypeOK'
  <1>1. PICK x : Pays(x) /\ settlements' = settlements \cup {x}
    BY SettleFacts
  <1>2. /\ UNCHANGED <<live, seats, invited, expense, splits, notes, req, stale>>
        /\ requests' = requests + 1
    BY SettleFacts
  <1>3. settlements' \subseteq Settlement
    BY <1>1 DEF TypeOK, Pays
  <1>4. requests' \in Nat
    <2>1. requests \in Nat
      BY DEF TypeOK
    <2>2. QED
      BY <1>2, <2>1
  <1>5. QED
    BY <1>2, <1>3, <1>4 DEF TypeOK

\* Either side of a settlement says so as well.
TouchPaid(x, p, user) ==
  [x EXCEPT !.fromUser = IF x.from = p THEN user ELSE @,
            !.toUser = IF x.to = p THEN user ELSE @]

LEMMA TouchPaidFacts ==
  ASSUME NEW x \in Settlement, NEW p \in Person, NEW user \in BOOLEAN
  PROVE  /\ TouchPaid(x, p, user) \in Settlement
         /\ TouchPaid(x, p, user).from = x.from /\ TouchPaid(x, p, user).to = x.to
         /\ TouchPaid(x, p, user).fromUser = IF x.from = p THEN user ELSE x.fromUser
         /\ TouchPaid(x, p, user).toUser = IF x.to = p THEN user ELSE x.toUser
  <1>1. PICK a, b : /\ a = IF x.from = p THEN user ELSE x.fromUser
                    /\ b = IF x.to = p THEN user ELSE x.toUser
    OBVIOUS
  <1>2. x.fromUser \in BOOLEAN /\ x.toUser \in BOOLEAN
    BY DEF Settlement
  <1>3. a \in BOOLEAN /\ b \in BOOLEAN
    <2>1. a = user \/ a = x.fromUser
      BY <1>1
    <2>2. b = user \/ b = x.toUser
      BY <1>1
    <2>3. QED
      BY <1>2, <2>1, <2>2
  <1>4. TouchPaid(x, p, user) = [x EXCEPT !.fromUser = a, !.toUser = b]
    BY <1>1 DEF TouchPaid
  <1>5. /\ [x EXCEPT !.fromUser = a, !.toUser = b] \in Settlement
        /\ [x EXCEPT !.fromUser = a, !.toUser = b].from = x.from
        /\ [x EXCEPT !.fromUser = a, !.toUser = b].to = x.to
        /\ [x EXCEPT !.fromUser = a, !.toUser = b].fromUser = a
        /\ [x EXCEPT !.fromUser = a, !.toUser = b].toUser = b
    BY <1>3 DEF Settlement
  <1>6. QED
    BY <1>1, <1>4, <1>5

LEMMA MoveSettlements ==
  ASSUME TypeOK, NEW p \in Person, NEW user \in BOOLEAN, Moves(p, user)
  PROVE  /\ settlements' = {TouchPaid(x, p, user) : x \in settlements}
         /\ settlements' \subseteq Settlement
  <1>1. settlements' = {TouchPaid(x, p, user) : x \in settlements}
    BY DEF Moves, Relinked, TouchPaid
  <1>2. QED
    BY <1>1, TouchPaidFacts DEF TypeOK

LEMMA MoveType ==
  ASSUME TypeOK, NEW p \in Person, Leave(p) \/ Join(p)
  PROVE  TypeOK'
  <1>1. PICK user \in BOOLEAN : Moves(p, user)
    BY LeaveJoinMove
  <1>2. /\ expense' \in [Expense -> ExpenseRow] /\ splits' \subseteq SplitRow
        /\ settlements' \subseteq Settlement
    BY <1>1, MoveFacts, MoveSettlements
  <1>3. UNCHANGED <<notes, req, stale>>
    BY <1>1 DEF Moves
  <1>4. live' \subseteq Person
    BY DEF TypeOK, Leave, Join
  <1>5. seats' \in [Group -> SUBSET Person]
    BY DEF TypeOK, Leave, Join
  <1>6. invited' \in [Group -> SUBSET Person]
    BY DEF TypeOK, Leave, Join
  <1>7. requests' \in Nat
    <2>1. requests' = requests + 1
      BY DEF Leave, Join, Arrives
    <2>2. requests \in Nat
      BY DEF TypeOK
    <2>3. QED
      BY <2>1, <2>2
  <1>8. QED
    BY <1>2, <1>3, <1>4, <1>5, <1>6, <1>7 DEF TypeOK

LEMMA NextTypeOK == TypeOK /\ [Next]_vars => TypeOK'
  <1> SUFFICES ASSUME TypeOK, [Next]_vars PROVE TypeOK'
    OBVIOUS
  <1>1. ASSUME NEW e \in Expense, Create(e) PROVE TypeOK'
    BY <1>1, CreateType
  <1>2. ASSUME NEW e \in Expense, Delete(e) PROVE TypeOK'
    BY <1>2, DeleteType
  <1>3. ASSUME NEW s \in Slot,
               (\E e \in Expense : Open(s, e)) \/ LoadWho(s) \/ LoadOld(s) \/ Abort(s)
        PROVE  TypeOK'
    BY <1>3, RequestType
  <1>4. ASSUME NEW s \in Slot, CommitLocked(s) \/ CommitSplits(s) PROVE TypeOK'
    BY <1>4, CommitType
  <1>5. ASSUME NEW p \in Person, NEW q \in Person, Settle(p, q) PROVE TypeOK'
    BY <1>5, SettleType
  <1>6. ASSUME NEW p \in Person, Leave(p) \/ Join(p) PROVE TypeOK'
    BY <1>6, MoveType
  <1>7. CASE UNCHANGED vars
    BY <1>7 DEF vars, ledger, TypeOK
  <1>8. QED
    BY <1>1, <1>2, <1>3, <1>4, <1>5, <1>6, <1>7 DEF Next

\* Every row, settlement and open edit keeps the shape the services give it,
\* whatever is created, edited, deleted, settled, frozen or attached again.
THEOREM SharedTypeCorrect == Spec => []TypeOK
  BY InitTypeOK, NextTypeOK, PTL DEF Spec

-----------------------------------------------------------------------------
(* Attachment. *)

\* Every row names an account exactly for those who have one.
Says(user, who, alive) ==
  (who \in alive => user = TRUE) /\ (who \notin alive => user = FALSE)
Attached ==
  /\ \A r \in splits : Says(r.user, r.who, live)
  /\ \A e \in Expense :
       expense[e].payer \in Person => Says(expense[e].user, expense[e].payer, live)
  /\ \A x \in settlements : Says(x.fromUser, x.from, live) /\ Says(x.toUser, x.to, live)

LEMMA CommitAttached ==
  ASSUME TypeOK, Attached, NEW s \in Slot, CommitLocked(s) \/ CommitSplits(s)
  PROVE  Attached'
  <1>1. /\ Commits(s)
        /\ Leaves(s) \/ \E old, n, f : Rewrites(s, old, n, f)
        /\ live' = live /\ settlements' = settlements
    BY CommitFacts DEF Commits
  <1>2. PICK e, q, row : e = req[s].expense /\ q = req[s].edit /\ row = req[s].seen
    OBVIOUS
  <1>3. /\ e \in Expense /\ q \in Edits /\ row \in ExpenseRow /\ expense[e] \in ExpenseRow
        /\ expense' = [expense EXCEPT ![e] = Written(q, row, expense[e])]
    BY <1>1, <1>2 DEF Commits, TypeOK
  <1>4. PICK w : w = Written(q, row, expense[e])
    OBVIOUS
  <1>5. \A r \in splits' : Says(r.user, r.who, live)
    <2>1. CASE Leaves(s)
      BY <2>1 DEF Leaves, Attached
    <2>2. CASE \E old, n, f : Rewrites(s, old, n, f)
      <3>1. PICK old, n, f : Rewrites(s, old, n, f)
        BY <2>2
      <3>2. \A r \in Rows(e, n, f) : Says(r.user, r.who, live)
        BY <1>3, <3>1, RowsFacts DEF Rewrites, Says
      <3>3. splits' = Remaining(old) \cup Rows(e, n, f)
        BY <1>2, <3>1 DEF Rewrites
      <3>4. QED
        BY <3>2, <3>3 DEF Remaining, Attached
    <2>3. QED
      BY <1>1, <2>1, <2>2
  <1>6. w.payer \in Person => Says(w.user, w.payer, live)
    <2>1. /\ w.payer = IF Changes(q, row).payer THEN q.payer ELSE expense[e].payer
          /\ w.user = IF Changes(q, row).payer THEN q.payer \in live ELSE expense[e].user
      BY <1>3, <1>4, WrittenFacts
    <2>2. CASE Changes(q, row).payer
      <3>1. w.payer = q.payer /\ w.user = (q.payer \in live)
        BY <2>1, <2>2
      <3>2. ASSUME q.payer \in live PROVE w.user = TRUE
        BY <3>1, <3>2
      <3>3. ASSUME q.payer \notin live PROVE w.user = FALSE
        <4>1. (q.payer \in live) = FALSE
          BY <3>3
        <4>2. QED
          BY <3>1, <4>1, Zenon
      <3>4. QED
        BY <3>1, <3>2, <3>3 DEF Says
    <2>3. CASE ~Changes(q, row).payer
      <3>1. w.payer = expense[e].payer /\ w.user = expense[e].user
        BY <2>1, <2>3
      <3>2. QED
        BY <1>3, <3>1 DEF Attached
    <2>4. QED
      BY <2>2, <2>3
  <1>7. \A d \in Expense : expense'[d].payer \in Person =>
          Says(expense'[d].user, expense'[d].payer, live)
    BY <1>3, <1>4, <1>6 DEF TypeOK, Attached
  <1>8. QED
    BY <1>1, <1>5, <1>7 DEF Attached, Says

LEMMA CreateAttached ==
  ASSUME TypeOK, Attached, NEW e \in Expense, Create(e)
  PROVE  Attached'
  <1>1. /\ live' = live /\ settlements' = settlements
        /\ UNCHANGED <<expense, splits>> \/ \E row, f : Adds(e, row, f)
    BY CreateFacts
  <1>2. CASE UNCHANGED <<expense, splits>>
    BY <1>1, <1>2 DEF Attached, Says
  <1>3. CASE \E row, f : Adds(e, row, f)
    <2>1. PICK row, f : Adds(e, row, f)
      BY <1>3
    <2>2. \A r \in Rows(e, 0, f) : Says(r.user, r.who, live)
      BY <2>1, RowsFacts DEF Adds, Parts, Says
    <2>3. \A r \in splits' : Says(r.user, r.who, live)
      BY <2>1, <2>2 DEF Adds, Attached
    <2>4. \A d \in Expense : expense'[d].payer \in Person =>
            Says(expense'[d].user, expense'[d].payer, live)
      BY <2>1 DEF Adds, Attached, Says, TypeOK
    <2>5. QED
      BY <1>1, <2>3, <2>4 DEF Attached, Says
  <1>4. QED
    BY <1>1, <1>2, <1>3

LEMMA DeleteAttached ==
  ASSUME TypeOK, Attached, NEW e \in Expense, Delete(e)
  PROVE  Attached'
  <1>1. /\ live' = live /\ settlements' = settlements /\ splits' \subseteq splits
        /\ expense' = [expense EXCEPT ![e] = NoRow("gone")]
    BY DEF Delete
  <1>2. NoRow("gone").payer = None
    BY DEF NoRow
  <1>3. \A d \in Expense : expense'[d].payer \in Person =>
          Says(expense'[d].user, expense'[d].payer, live)
    BY <1>1, <1>2, NoneAssumption DEF Attached, TypeOK
  <1>4. QED
    BY <1>1, <1>3 DEF Attached, Says

LEMMA SettleAttached ==
  ASSUME TypeOK, Attached, NEW p \in Person, NEW q \in Person, Settle(p, q)
  PROVE  Attached'
  <1>1. /\ \E x : Pays(x) /\ settlements' = settlements \cup {x}
        /\ UNCHANGED <<live, expense, splits>>
    BY SettleFacts
  <1>2. PICK x : Pays(x) /\ settlements' = settlements \cup {x}
    BY <1>1
  <1>3. Says(x.fromUser, x.from, live) /\ Says(x.toUser, x.to, live)
    BY <1>2 DEF Pays, Says
  <1>4. \A y \in settlements' : Says(y.fromUser, y.from, live) /\ Says(y.toUser, y.to, live)
    BY <1>2, <1>3 DEF Attached
  <1>5. QED
    BY <1>1, <1>4 DEF Attached, Says

LEMMA MoveAttached ==
  ASSUME TypeOK, Attached, NEW p \in Person, NEW user \in BOOLEAN, Moves(p, user)
  PROVE  Attached'
  <1>1. /\ user = TRUE => live' = live \cup {p}
        /\ user = FALSE => live' = live \ {p}
    BY DEF Moves
  <1>2. ASSUME NEW v, NEW w, NEW who, Says(v, who, live), w = IF who = p THEN user ELSE v
        PROVE  Says(w, who, live')
    <2>1. CASE user = TRUE
      BY <1>1, <1>2, <2>1 DEF Says
    <2>2. CASE user = FALSE
      BY <1>1, <1>2, <2>2 DEF Says
    <2>3. QED
      BY <2>1, <2>2
  <1>3. \A r \in splits' : Says(r.user, r.who, live')
    <2>1. SUFFICES ASSUME NEW r \in splits PROVE Says(Touch(r, p, user).user, Touch(r, p, user).who, live')
      BY MoveFacts
    <2>2. /\ Touch(r, p, user).who = r.who
          /\ Touch(r, p, user).user = IF r.who = p THEN user ELSE r.user
      BY TouchFacts DEF TypeOK
    <2>3. Says(r.user, r.who, live)
      BY DEF Attached
    <2>4. QED
      BY <1>2, <2>2, <2>3
  <1>4. ASSUME NEW e \in Expense, expense'[e].payer \in Person
        PROVE  Says(expense'[e].user, expense'[e].payer, live')
    <2>1. /\ expense'[e].payer = expense[e].payer
          /\ expense'[e].user = IF expense[e].payer = p THEN user ELSE expense[e].user
      BY MoveFacts
    <2>2. Says(expense[e].user, expense[e].payer, live)
      BY <1>4, <2>1 DEF Attached
    <2>3. QED
      BY <1>2, <2>1, <2>2
  <1>5. \A x \in settlements' : Says(x.fromUser, x.from, live') /\ Says(x.toUser, x.to, live')
    <2>1. SUFFICES ASSUME NEW y \in settlements, NEW x, x = TouchPaid(y, p, user)
                   PROVE  Says(x.fromUser, x.from, live') /\ Says(x.toUser, x.to, live')
      BY MoveSettlements
    <2>2. /\ x.from = y.from /\ x.to = y.to
          /\ x.fromUser = IF y.from = p THEN user ELSE y.fromUser
          /\ x.toUser = IF y.to = p THEN user ELSE y.toUser
      BY <2>1, TouchPaidFacts DEF TypeOK
    <2>3. Says(y.fromUser, y.from, live) /\ Says(y.toUser, y.to, live)
      BY DEF Attached
    <2>4. Says(x.fromUser, y.from, live')
      BY <1>2, <2>2, <2>3
    <2>5. Says(x.toUser, y.to, live')
      BY <1>2, <2>2, <2>3
    <2>6. QED
      BY <2>2, <2>4, <2>5
  <1>6. QED
    BY <1>3, <1>4, <1>5 DEF Attached

LEMMA InitAttached == Init => Attached
  <1> SUFFICES ASSUME Init PROVE Attached
    OBVIOUS
  <1>1. \A e \in Expense : expense[e].payer = None
    BY DEF Init, NoRow
  <1>2. splits = {} /\ settlements = {}
    BY DEF Init
  <1>3. QED
    BY <1>1, <1>2, NoneAssumption DEF Attached

LEMMA NextAttached == TypeOK /\ Attached /\ [Next]_vars => Attached'
  <1> SUFFICES ASSUME TypeOK, Attached, [Next]_vars PROVE Attached'
    OBVIOUS
  <1>1. ASSUME NEW e \in Expense, Create(e) \/ Delete(e) PROVE Attached'
    BY <1>1, CreateAttached, DeleteAttached
  <1>2. ASSUME NEW s \in Slot,
               (\E e \in Expense : Open(s, e)) \/ LoadWho(s) \/ LoadOld(s) \/ Abort(s)
        PROVE  Attached'
    <2>1. UNCHANGED <<live, expense, splits, settlements>>
      BY <1>2 DEF Open, LoadWho, LoadOld, Abort, ledger
    <2>2. QED
      BY <2>1 DEF Attached, Says
  <1>3. ASSUME NEW s \in Slot, CommitLocked(s) \/ CommitSplits(s) PROVE Attached'
    BY <1>3, CommitAttached
  <1>4. ASSUME NEW p \in Person, NEW q \in Person, Settle(p, q) PROVE Attached'
    BY <1>4, SettleAttached
  <1>5. ASSUME NEW p \in Person, Leave(p) \/ Join(p) PROVE Attached'
    BY <1>5, LeaveJoinMove, MoveAttached
  <1>6. CASE UNCHANGED vars
    BY <1>6 DEF vars, ledger, Attached, Says
  <1>7. QED
    BY <1>1, <1>2, <1>3, <1>4, <1>5, <1>6 DEF Next

\* Rows that say so are found by id and by email alike.
LEMMA AttachedKeepsBalances ==
  ASSUME TypeOK, Attached
  PROVE  BalancesKept
  <1> SUFFICES ASSUME NEW p \in live, NEW q \in Person \ {p}
               PROVE  Debt(p, q) = IF q \in live THEN BalanceByUser(p, q)
                                   ELSE BalanceByEmail(p, q)
    BY DEF BalancesKept
  <1> DEFINE Owed(a, b) == {r \in splits : r.who = a /\ expense[r.expense].payer = b}
             Paid(a, b) == {x \in settlements : x.from = a /\ x.to = b}
  <1>1. Debt(p, q) = Total(Owed(p, q)) - Total(Owed(q, p)) - Total(Paid(p, q)) + Total(Paid(q, p))
    BY DEF Debt
  <1>2. p \in Person /\ \A r \in splits : r.expense \in Expense /\ r.who \in Person
    BY DEF TypeOK, SplitRow
  <1>3. ASSUME NEW r \in splits
        PROVE  /\ Says(r.user, r.who, live)
               /\ expense[r.expense].payer \in Person =>
                    Says(expense[r.expense].user, expense[r.expense].payer, live)
    BY <1>2 DEF Attached
  <1>4. CASE q \in live
    <2>1. Owed(p, q) = SharesOf(p, TRUE, q, TRUE)
      BY <1>2, <1>3, <1>4 DEF SharesOf, Says
    <2>2. Owed(q, p) = SharesOf(q, TRUE, p, TRUE)
      BY <1>2, <1>3, <1>4 DEF SharesOf, Says
    <2>3. Paid(p, q) = PaidByUser(p, q) /\ Paid(q, p) = PaidByUser(q, p)
      BY <1>4 DEF PaidByUser, Attached, Says
    <2> HIDE DEF Owed, Paid
    <2>4. QED
      BY <1>1, <1>4, <2>1, <2>2, <2>3 DEF BalanceByUser
  <1>5. CASE q \notin live
    <2>1. Owed(p, q) = SharesOf(p, TRUE, q, FALSE)
      BY <1>2, <1>3, <1>5 DEF SharesOf, Says
    <2>2. Owed(q, p) = SharesOf(q, FALSE, p, TRUE)
      BY <1>2, <1>3, <1>5 DEF SharesOf, Says
    <2>3. /\ Paid(p, q) = {x \in settlements : x.from = p /\ x.fromUser /\ x.to = q}
          /\ Paid(q, p) = {x \in settlements : x.from = q /\ x.to = p /\ x.toUser}
      BY <1>5 DEF Attached, Says
    <2> HIDE DEF Owed, Paid
    <2>4. QED
      BY <1>1, <1>5, <2>1, <2>2, <2>3 DEF BalanceByEmail
  <1>6. QED
    BY <1>4, <1>5

\* Whatever accounts are deleted and made again, and whatever is edited,
\* deleted and settled meanwhile, what two people owe each other is what the
\* balance queries find, by id or by email.
THEOREM BalancesAlwaysKept == Spec => []BalancesKept
  <1>1. Init => TypeOK /\ Attached
    BY InitTypeOK, InitAttached
  <1>2. TypeOK /\ Attached /\ [Next]_vars => (TypeOK /\ Attached)'
    BY NextTypeOK, NextAttached
  <1>3. TypeOK /\ Attached => BalancesKept
    BY AttachedKeepsBalances
  <1>4. QED
    BY <1>1, <1>2, <1>3, PTL DEF Spec

-----------------------------------------------------------------------------
(* Shares. *)

LEMMA TotalIsSum ==
  ASSUME NEW S
  PROVE  Total(S) = SumOn([r \in S |-> r.cents], S)
  <1>1. PICK w : w = [r \in S |-> r.cents]
    OBVIOUS
  <1>2. SumOver(w) = SumOn(w, DOMAIN w)
    BY SumOverIsSumOn
  <1>3. DOMAIN w = S
    BY <1>1
  <1>4. QED
    BY <1>1, <1>2, <1>3 DEF Total

\* The rows of the parts f are as much as the parts.
LEMMA TotalOfRows ==
  ASSUME NEW e \in Expense, NEW n \in Nat, NEW f, f \in [DOMAIN f -> Int],
         DOMAIN f \in SUBSET Person
  PROVE  Total(Rows(e, n, f)) = SumOver(f) /\ IsFiniteSet(Rows(e, n, f))
  <1> DEFINE g == [k \in DOMAIN f |-> [expense |-> e, n |-> n, who |-> k,
                                       user |-> k \in live, cents |-> f[k]]]
             w == [r \in Rows(e, n, f) |-> r.cents]
  <1>1. IsFiniteSet(DOMAIN f)
    BY FoundersAssumption, FS_Subset
  <1>2. Rows(e, n, f) = {g[k] : k \in DOMAIN f}
    BY DEF Rows
  <1>3. \A k \in DOMAIN f : g[k].who = k /\ g[k].cents = f[k] /\ g[k] \in Rows(e, n, f)
    BY <1>2
  <1>4. \A r \in Rows(e, n, f) : w[r] = r.cents
    OBVIOUS
  <1> HIDE DEF g, w
  <1>5. \A k \in DOMAIN f : w[g[k]] = f[k] /\ f[k] \in Int
    BY <1>3, <1>4
  <1>6. \A j, k \in DOMAIN f : g[j] = g[k] => j = k
    BY <1>3
  <1>7. /\ SumOn(w, {g[k] : k \in DOMAIN f}) = SumOn(f, DOMAIN f)
        /\ IsFiniteSet({g[k] : k \in DOMAIN f})
    <2>1. PICK D : D = DOMAIN f
      OBVIOUS
    <2>2. Renames(g, f, w, D)
      BY <1>1, <1>5, <1>6, <2>1 DEF Renames
    <2>3. SumOn(w, {g[k] : k \in D}) = SumOn(f, D) /\ IsFiniteSet({g[k] : k \in D})
      BY <2>2, SumImage
    <2>4. QED
      BY <2>1, <2>3
  <1>8. Total(Rows(e, n, f)) = SumOn(w, Rows(e, n, f))
    BY TotalIsSum DEF w
  <1>9. QED
    BY <1>2, <1>7, <1>8, SumOverIsSumOn

\* The same cents in other rows.
SameCents(g, T) ==
  /\ \A k \in T : g[k].cents = k.cents /\ k.cents \in Int
  /\ \A j, k \in T : g[j] = g[k] => j = k

LEMMA TotalOfImage ==
  ASSUME NEW T, IsFiniteSet(T), NEW g, SameCents(g, T)
  PROVE  Total({g[k] : k \in T}) = Total(T) /\ IsFiniteSet({g[k] : k \in T})
  <1>1. PICK U : U = {g[k] : k \in T}
    OBVIOUS
  <1>2. PICK v, w : v = [r \in T |-> r.cents] /\ w = [r \in U |-> r.cents]
    OBVIOUS
  <1>3. \A k \in T : w[g[k]] = v[k] /\ v[k] \in Int
    BY <1>1, <1>2 DEF SameCents
  <1>4. \A j, k \in T : g[j] = g[k] => j = k
    BY DEF SameCents
  <1>5. Renames(g, v, w, T)
    BY <1>3, <1>4 DEF Renames
  <1>6. SumOn(w, {g[k] : k \in T}) = SumOn(v, T) /\ IsFiniteSet({g[k] : k \in T})
    BY <1>5, SumImage
  <1>7. Total(T) = SumOn(v, T) /\ Total(U) = SumOn(w, U)
    BY <1>2, TotalIsSum
  <1>8. QED
    BY <1>1, <1>6, <1>7

\* So are rows that only say something else about the account.
LEMMA TotalOfTouched ==
  ASSUME NEW T, T \subseteq SplitRow, IsFiniteSet(T), NEW p \in Person, NEW user \in BOOLEAN,
         \A j, k \in T : j.who = k.who => j.user = k.user
  PROVE  /\ Total({Touch(r, p, user) : r \in T}) = Total(T)
         /\ IsFiniteSet({Touch(r, p, user) : r \in T})
  <1>1. PICK g : g = [r \in T |-> Touch(r, p, user)]
    OBVIOUS
  <1>2. \A k \in T : g[k] = Touch(k, p, user)
    BY <1>1
  <1>3. \A k \in T : /\ g[k].expense = k.expense /\ g[k].n = k.n /\ g[k].who = k.who
                     /\ g[k].cents = k.cents /\ k.cents \in Int
    BY <1>2, TouchFacts DEF SplitRow
  <1>4. \A j, k \in T : g[j] = g[k] => j = k
    <2>1. SUFFICES ASSUME NEW j \in T, NEW k \in T, g[j] = g[k] PROVE j = k
      OBVIOUS
    <2>2. /\ j.expense = k.expense /\ j.n = k.n /\ j.who = k.who /\ j.cents = k.cents
      BY <1>3, <2>1
    <2>3. j.user = k.user
      BY <2>2
    <2>4. /\ j = [expense |-> j.expense, n |-> j.n, who |-> j.who, user |-> j.user,
                  cents |-> j.cents]
          /\ k = [expense |-> k.expense, n |-> k.n, who |-> k.who, user |-> k.user,
                  cents |-> k.cents]
      BY DEF SplitRow
    <2>5. QED
      BY <2>2, <2>3, <2>4
  <1>5. \A k \in T : g[k].cents = k.cents /\ k.cents \in Int
    BY <1>3
  <1>6. Total({g[k] : k \in T}) = Total(T) /\ IsFiniteSet({g[k] : k \in T})
    BY <1>4, <1>5, TotalOfImage DEF SameCents
  <1>7. {g[k] : k \in T} = {Touch(r, p, user) : r \in T}
    BY <1>2
  <1>8. QED
    BY <1>6, <1>7

\* The rows are finitely many, of expenses that are there.  A request that is
\* open has an expense that was there once, and has read rows of it.
Shaped ==
  /\ IsFiniteSet(splits)
  /\ \A r \in splits : On(r.expense)
  /\ \A s \in Slot : req[s].pc # "idle" =>
       /\ expense[req[s].expense].status # "unused"
       /\ req[s].pc = "old" => \A r \in req[s].old : r.expense = req[s].expense

LEMMA CreateShaped ==
  ASSUME TypeOK, Shaped, NEW e \in Expense, Create(e)
  PROVE  Shaped'
  <1>1. /\ expense[e].status = "unused" /\ req' = req
        /\ UNCHANGED <<expense, splits>> \/ \E row, f : Adds(e, row, f)
    BY CreateFacts
  <1>2. CASE UNCHANGED <<expense, splits>>
    BY <1>1, <1>2 DEF Shaped, On
  <1>3. CASE \E row, f : Adds(e, row, f)
    <2>1. PICK row, f : Adds(e, row, f)
      BY <1>3
    <2>2. /\ row.status = "on" /\ expense' = [expense EXCEPT ![e] = row]
          /\ splits' = splits \cup Rows(e, 0, f)
      BY <2>1 DEF Adds
    <2>3. IsFiniteSet(Rows(e, 0, f)) /\ \A r \in Rows(e, 0, f) : r.expense = e
      <3>1. f \in [DOMAIN f -> Int] /\ DOMAIN f \in SUBSET Person /\ 0 \in Nat
        BY <2>1 DEF Adds, Parts
      <3>2. IsFiniteSet(Rows(e, 0, f))
        BY <3>1, TotalOfRows
      <3>3. \A r \in Rows(e, 0, f) : r.expense = e
        BY DEF Rows
      <3>4. QED
        BY <3>2, <3>3
    <2>4. IsFiniteSet(splits')
      BY <2>2, <2>3, FS_Union DEF Shaped
    <2>5. \A d \in Expense : On(d) => expense'[d].status = "on"
      BY <1>1, <2>2 DEF On, TypeOK
    <2>6. expense'[e].status = "on"
      BY <2>2 DEF TypeOK
    <2>7. \A r \in splits : r.expense \in Expense
      BY DEF TypeOK, SplitRow
    <2>8. \A r \in splits' : expense'[r.expense].status = "on"
      BY <2>2, <2>3, <2>5, <2>6, <2>7 DEF Shaped
    <2>9. \A d \in Expense : expense[d].status # "unused" => expense'[d].status # "unused"
      BY <2>2, <2>6 DEF TypeOK
    <2>10. \A s \in Slot : req[s].pc # "idle" => req[s].expense \in Expense
      BY DEF TypeOK
    <2>11. QED
      BY <1>1, <2>4, <2>8, <2>9, <2>10 DEF Shaped, On
  <1>4. QED
    BY <1>1, <1>2, <1>3

LEMMA DeleteShaped ==
  ASSUME TypeOK, Shaped, NEW e \in Expense, Delete(e)
  PROVE  Shaped'
  <1>1. /\ expense' = [expense EXCEPT ![e] = NoRow("gone")]
        /\ splits' = splits \ SplitsOf(e) /\ req' = req
    BY DEF Delete
  <1>2. IsFiniteSet(splits')
    BY <1>1, FS_Difference DEF Shaped
  <1>3. \A r \in splits' : r.expense \in Expense /\ r.expense # e
    BY <1>1 DEF SplitsOf, TypeOK, SplitRow
  <1>4. \A r \in splits' : On(r.expense)'
    BY <1>1, <1>3 DEF Shaped, On, TypeOK
  <1>5. NoRow("gone").status = "gone"
    BY DEF NoRow
  <1>6. \A d \in Expense : expense[d].status # "unused" => expense'[d].status # "unused"
    BY <1>1, <1>5 DEF TypeOK
  <1>7. \A s \in Slot : req[s].pc # "idle" => req[s].expense \in Expense
    BY DEF TypeOK
  <1>8. QED
    BY <1>1, <1>2, <1>4, <1>6, <1>7 DEF Shaped

\* What a commit does to the other expenses: nothing.
LEMMA CommitElsewhere ==
  ASSUME TypeOK, Shaped, NEW s \in Slot, CommitLocked(s) \/ CommitSplits(s),
         NEW d \in Expense, d # req[s].expense
  PROVE  /\ expense'[d] = expense[d] /\ notes'[d] = notes[d]
         /\ SplitsOf(d)' = SplitsOf(d)
         /\ d \in stale' <=> d \in stale
  <1>1. PICK e : e = req[s].expense
    OBVIOUS
  <1>2. /\ req[s].pc # "idle" /\ Commits(s)
        /\ \/ Leaves(s)
           \/ \E n, f : Rewrites(s, SplitsOf(e), n, f)
           \/ req[s].pc = "old" /\ \E n, f : Rewrites(s, req[s].old, n, f)
    BY <1>1, CommitFacts
  <1>3. expense'[d] = expense[d] /\ notes'[d] = notes[d] /\ e \in Expense
    BY <1>1, <1>2 DEF Commits, TypeOK
  <1>4. CASE Leaves(s)
    BY <1>3, <1>4 DEF Leaves, SplitsOf
  <1>5. ASSUME NEW old, \A r \in old : r.expense = e, NEW n, NEW f, Rewrites(s, old, n, f)
        PROVE  SplitsOf(d)' = SplitsOf(d) /\ (d \in stale' <=> d \in stale)
    <2>1. splits' = (splits \ old) \cup Rows(e, n, f)
      BY <1>1, <1>5 DEF Rewrites, Remaining
    <2>2. \A r \in Rows(e, n, f) : r.expense = e
      BY DEF Rows
    <2>3. SplitsOf(d)' = SplitsOf(d)
      BY <1>1, <1>5, <2>1, <2>2 DEF SplitsOf
    <2>4. d \in stale' <=> d \in stale
      BY <1>1, <1>5 DEF Rewrites
    <2>5. QED
      BY <2>3, <2>4
  <1>6. \A r \in SplitsOf(e) : r.expense = e
    BY DEF SplitsOf
  <1>7. req[s].pc = "old" => \A r \in req[s].old : r.expense = e
    BY <1>1 DEF Shaped
  <1>8. QED
    BY <1>2, <1>3, <1>4, <1>5, <1>6, <1>7

LEMMA CommitShaped ==
  ASSUME TypeOK, Shaped, NEW s \in Slot, CommitLocked(s) \/ CommitSplits(s)
  PROVE  Shaped'
  <1>1. PICK e : e = req[s].expense
    OBVIOUS
  <1>2. /\ req[s].pc # "idle" /\ Commits(s)
        /\ Leaves(s) \/ \E old, n, f : Rewrites(s, old, n, f)
    BY CommitFacts
  <1>3. e \in Expense /\ On(e)
    BY <1>1, <1>2 DEF Commits
  <1>4. \A d \in Expense : expense'[d].status = expense[d].status
    <2>1. expense[e] \in ExpenseRow
      BY <1>3 DEF TypeOK
    <2>2. expense' = [expense EXCEPT ![e] = Written(req[s].edit, req[s].seen, expense[e])]
          /\ req[s].edit \in Edits /\ req[s].seen \in ExpenseRow
      BY <1>1, <1>2 DEF Commits
    <2>3. Written(req[s].edit, req[s].seen, expense[e]).status = expense[e].status
      BY <2>1, <2>2, WrittenFacts
    <2>4. QED
      BY <2>2, <2>3 DEF TypeOK
  <1>5. IsFiniteSet(splits') /\ \A r \in splits' : r \in splits \/ r.expense = e
    <2>1. CASE Leaves(s)
      BY <2>1 DEF Leaves, Shaped
    <2>2. CASE \E old, n, f : Rewrites(s, old, n, f)
      <3>1. PICK old, n, f : Rewrites(s, old, n, f)
        BY <2>2
      <3>2. IsFiniteSet(Rows(e, n, f)) /\ \A r \in Rows(e, n, f) : r.expense = e
        <4>1. n \in Nat /\ f \in [DOMAIN f -> Int] /\ DOMAIN f \in SUBSET Person
          BY <3>1 DEF Rewrites
        <4>2. IsFiniteSet(Rows(e, n, f))
          BY <1>3, <4>1, TotalOfRows
        <4>3. \A r \in Rows(e, n, f) : r.expense = e
          BY DEF Rows
        <4>4. QED
          BY <4>2, <4>3
      <3>3. splits' = (splits \ old) \cup Rows(e, n, f)
        BY <1>1, <3>1 DEF Rewrites, Remaining
      <3>4. IsFiniteSet(splits \ old)
        BY FS_Difference DEF Shaped
      <3>5. QED
        BY <3>2, <3>3, <3>4, FS_Union
    <2>3. QED
      BY <1>2, <2>1, <2>2
  <1>6. \A r \in splits' : On(r.expense)'
    <2>1. \A r \in splits : r.expense \in Expense /\ On(r.expense)
      BY DEF TypeOK, SplitRow, Shaped
    <2>2. QED
      BY <1>3, <1>4, <1>5, <2>1 DEF On
  <1>7. ASSUME NEW t \in Slot, req'[t].pc # "idle"
        PROVE  /\ req'[t].pc = req[t].pc /\ req'[t].expense = req[t].expense
               /\ req'[t].old = req[t].old
    BY <1>2, <1>7 DEF Leaves, Rewrites, Outdated, Idle, TypeOK, Request
  <1>8. \A t \in Slot : req[t].pc # "idle" => req[t].expense \in Expense
    BY DEF TypeOK
  <1>9. QED
    BY <1>4, <1>5, <1>6, <1>7, <1>8 DEF Shaped

\* The rows of one expense, with an account said or unsaid.
LEMMA MoveSplits ==
  ASSUME TypeOK, Attached, Shaped, NEW p \in Person, NEW user \in BOOLEAN, Moves(p, user),
         NEW e \in Expense
  PROVE  /\ SplitsOf(e)' = {Touch(r, p, user) : r \in SplitsOf(e)}
         /\ Total(SplitsOf(e)') = Total(SplitsOf(e))
  <1>1. PICK T : T = SplitsOf(e)
    OBVIOUS
  <1>2. T \subseteq splits /\ T \subseteq SplitRow /\ IsFiniteSet(T)
    <2>1. T \subseteq splits
      BY <1>1 DEF SplitsOf
    <2>2. QED
      BY <2>1, FS_Subset DEF TypeOK, Shaped
  <1>3. splits' = {Touch(r, p, user) : r \in splits}
    BY MoveFacts
  <1>4. \A r \in splits : Touch(r, p, user).expense = r.expense
    BY TouchFacts DEF TypeOK
  <1>5. SplitsOf(e)' = {Touch(r, p, user) : r \in T}
    <2>1. SplitsOf(e)' = {r \in splits' : r.expense = e}
      BY DEF SplitsOf
    <2>2. T = {r \in splits : r.expense = e}
      BY <1>1 DEF SplitsOf
    <2>3. QED
      BY <1>3, <1>4, <2>1, <2>2
  <1>6. \A j, k \in T : j.who = k.who => j.user = k.user
    <2>1. \A r \in T : Says(r.user, r.who, live)
      BY <1>2 DEF Attached
    <2>2. QED
      BY <2>1 DEF Says
  <1>7. Total({Touch(r, p, user) : r \in T}) = Total(T)
    BY <1>2, <1>6, TotalOfTouched
  <1>8. QED
    BY <1>1, <1>5, <1>7

LEMMA MoveShaped ==
  ASSUME TypeOK, Attached, Shaped, NEW p \in Person, NEW user \in BOOLEAN, Moves(p, user)
  PROVE  Shaped'
  <1>1. IsFiniteSet(splits) /\ splits \subseteq SplitRow
    BY DEF Shaped, TypeOK
  <1>2. \A j, k \in splits : j.who = k.who => j.user = k.user
    <2>1. \A r \in splits : Says(r.user, r.who, live)
      BY DEF Attached
    <2>2. QED
      BY <2>1 DEF Says
  <1>3. IsFiniteSet({Touch(r, p, user) : r \in splits})
    BY <1>1, <1>2, TotalOfTouched
  <1>4. splits' = {Touch(r, p, user) : r \in splits}
    BY MoveFacts
  <1>5. \A r \in splits : /\ Touch(r, p, user).expense = r.expense
                          /\ r.expense \in Expense /\ On(r.expense)
    BY TouchFacts DEF TypeOK, SplitRow, Shaped
  <1>6. \A e \in Expense : expense'[e].status = expense[e].status
    BY MoveFacts
  <1>7. \A r \in splits' : On(r.expense)'
    BY <1>4, <1>5, <1>6 DEF On
  <1>8. req' = req /\ \A s \in Slot : req[s].pc = "idle"
    BY DEF Moves, Quiet
  <1>9. QED
    BY <1>3, <1>4, <1>7, <1>8 DEF Shaped

\* A request of which nothing has been written since keeps what it has read.
Current(s) ==
  req[s].pc # "idle" /\ req[s].fresh /\ On(req[s].expense) =>
    /\ req[s].seen.amount = expense[req[s].expense].amount
    /\ req[s].seen.type = expense[req[s].expense].type
    /\ req[s].pc = "old" => req[s].old = SplitsOf(req[s].expense)
AllCurrent == \A s \in Slot : Current(s)

LEMMA RequestShaped ==
  ASSUME TypeOK, Shaped, AllCurrent, NEW s \in Slot,
         (\E e \in Expense : Open(s, e)) \/ LoadWho(s) \/ LoadOld(s) \/ Abort(s)
  PROVE  Shaped' /\ AllCurrent'
  <1>1. UNCHANGED <<expense, splits>>
    BY DEF Open, LoadWho, LoadOld, Abort, ledger
  <1>2. \A t \in Slot \ {s} : req'[t] = req[t]
    BY DEF Open, LoadWho, LoadOld, Abort, TypeOK
  <1>3. /\ req'[s].pc # "idle" =>
             /\ expense[req'[s].expense].status # "unused"
             /\ req'[s].pc = "old" => \A r \in req'[s].old : r.expense = req'[s].expense
        /\ req'[s].pc # "idle" /\ req'[s].fresh /\ On(req'[s].expense) =>
             /\ req'[s].seen.amount = expense[req'[s].expense].amount
             /\ req'[s].seen.type = expense[req'[s].expense].type
             /\ req'[s].pc = "old" => req'[s].old = SplitsOf(req'[s].expense)
    <2>1. CASE \E e \in Expense : Open(s, e)
      <3>1. PICK e \in Expense, q \in Edits :
              /\ req' = [req EXCEPT ![s] = [Idle EXCEPT !.pc = "read", !.expense = e,
                                              !.edit = q, !.seen = expense[e]]]
              /\ expense[e].status = "on"
        BY <2>1 DEF Open
      <3>2. /\ req'[s].pc = "read" /\ req'[s].expense = e /\ req'[s].seen = expense[e]
        BY <3>1 DEF Idle, TypeOK
      <3>3. QED
        BY <3>1, <3>2
    <2>2. CASE LoadWho(s)
      <3>1. req[s].pc = "read" /\ req' = [req EXCEPT ![s].pc = "who", ![s].who = WhoFor(s)]
        BY <2>2 DEF LoadWho
      <3>2. /\ req'[s].pc = "who" /\ req'[s].expense = req[s].expense
            /\ req'[s].seen = req[s].seen /\ req'[s].fresh = req[s].fresh
        BY <3>1 DEF TypeOK, Request
      <3>3. QED
        BY <3>1, <3>2 DEF Shaped, AllCurrent, Current
    <2>3. CASE LoadOld(s)
      <3>1. /\ req[s].pc = "who"
            /\ req' = [req EXCEPT ![s].pc = "old", ![s].old = SplitsOf(req[s].expense)]
        BY <2>3 DEF LoadOld
      <3>2. /\ req'[s].pc = "old" /\ req'[s].expense = req[s].expense
            /\ req'[s].seen = req[s].seen /\ req'[s].fresh = req[s].fresh
            /\ req'[s].old = SplitsOf(req[s].expense)
        BY <3>1 DEF TypeOK, Request
      <3>3. \A r \in SplitsOf(req[s].expense) : r.expense = req[s].expense
        BY DEF SplitsOf
      <3>4. QED
        BY <3>1, <3>2, <3>3 DEF Shaped, AllCurrent, Current
    <2>4. CASE Abort(s)
      <3>1. req'[s].pc = "idle"
        BY <2>4 DEF Abort, Idle, TypeOK
      <3>2. QED
        BY <3>1
    <2>5. QED
      BY <2>1, <2>2, <2>3, <2>4
  <1>4. Shaped'
    BY <1>1, <1>2, <1>3 DEF Shaped, On
  <1>5. ASSUME NEW t \in Slot PROVE Current(t)'
    <2>1. CASE t = s
      BY <1>1, <1>3, <2>1 DEF Current, On, SplitsOf
    <2>2. CASE t # s
      BY <1>1, <1>2, <2>2 DEF AllCurrent, Current, On, SplitsOf
    <2>3. QED
      BY <2>1, <2>2
  <1>6. QED
    BY <1>4, <1>5 DEF AllCurrent

\* What must not change of an expense for its requests to be current.
SameRows(d) ==
  /\ expense'[d].status = expense[d].status
  /\ expense'[d].amount = expense[d].amount /\ expense'[d].type = expense[d].type
  /\ {r \in splits' : r.expense = d} = SplitsOf(d)

LEMMA CurrentKept ==
  ASSUME AllCurrent, NEW t \in Slot, req'[t] = req[t],
         req[t].pc # "idle" => \/ SameRows(req[t].expense)
                              \/ expense'[req[t].expense].status # "on"
  PROVE  Current(t)'
  <1>1. Current(t)
    BY DEF AllCurrent
  <1>2. CASE req[t].pc = "idle"
    BY <1>2 DEF Current
  <1>3. CASE req[t].pc # "idle" /\ SameRows(req[t].expense)
    BY <1>1, <1>3 DEF Current, SameRows, On, SplitsOf
  <1>4. CASE req[t].pc # "idle" /\ expense'[req[t].expense].status # "on"
    BY <1>4 DEF Current, On
  <1>5. QED
    BY <1>2, <1>3, <1>4

LEMMA CreateCurrent ==
  ASSUME TypeOK, Shaped, AllCurrent, NEW e \in Expense, Create(e)
  PROVE  AllCurrent' /\ \A d \in Expense : On(d) => expense'[d] = expense[d] /\ SameRows(d)
  <1>1. /\ expense[e].status = "unused" /\ req' = req
        /\ UNCHANGED <<expense, splits>> \/ \E row, f : Adds(e, row, f)
    BY CreateFacts
  <1>2. \A d \in Expense : d # e => expense'[d] = expense[d] /\ SameRows(d)
    <2>1. CASE UNCHANGED <<expense, splits>>
      BY <2>1 DEF SameRows, SplitsOf
    <2>2. CASE \E row, f : Adds(e, row, f)
      <3>1. PICK row, f : Adds(e, row, f)
        BY <2>2
      <3>2. /\ expense' = [expense EXCEPT ![e] = row]
            /\ splits' = splits \cup Rows(e, 0, f)
        BY <3>1 DEF Adds
      <3>3. \A r \in Rows(e, 0, f) : r.expense = e
        BY DEF Rows
      <3>4. QED
        BY <3>2, <3>3 DEF SameRows, SplitsOf, TypeOK
    <2>3. QED
      BY <1>1, <2>1, <2>2
  <1>3. ASSUME NEW t \in Slot PROVE Current(t)'
    <2>1. req[t].pc # "idle" => req[t].expense \in Expense /\ req[t].expense # e
      BY <1>1 DEF TypeOK, Shaped
    <2>2. req[t].pc # "idle" => SameRows(req[t].expense)
      BY <1>2, <2>1
    <2>3. QED
      BY <1>1, <2>2, CurrentKept
  <1>4. \A d \in Expense : On(d) => d # e
    BY <1>1 DEF On
  <1>5. QED
    BY <1>2, <1>3, <1>4 DEF AllCurrent

LEMMA DeleteCurrent ==
  ASSUME TypeOK, Shaped, AllCurrent, NEW e \in Expense, Delete(e)
  PROVE  /\ AllCurrent' /\ expense'[e].status # "on"
         /\ \A d \in Expense \ {e} : expense'[d] = expense[d] /\ SameRows(d)
  <1>1. /\ expense' = [expense EXCEPT ![e] = NoRow("gone")]
        /\ splits' = splits \ SplitsOf(e) /\ req' = req
    BY DEF Delete
  <1>2. \A d \in Expense \ {e} : expense'[d] = expense[d] /\ SameRows(d)
    BY <1>1 DEF SameRows, SplitsOf, TypeOK
  <1>3. expense'[e].status # "on"
    BY <1>1 DEF NoRow, TypeOK
  <1>4. ASSUME NEW t \in Slot PROVE Current(t)'
    <2>1. req[t].pc # "idle" => req[t].expense \in Expense
      BY DEF TypeOK
    <2>2. req[t].pc # "idle" => \/ SameRows(req[t].expense)
                               \/ expense'[req[t].expense].status # "on"
      BY <1>2, <1>3, <2>1
    <2>3. QED
      BY <1>1, <2>2, CurrentKept
  <1>5. QED
    BY <1>2, <1>3, <1>4 DEF AllCurrent

\* What a commit that leaves the shares alone does to its expense.
LEMMA LeavesSame ==
  ASSUME TypeOK, NEW s \in Slot, NEW e, e = req[s].expense, Commits(s), Leaves(s)
  PROVE  SameRows(e)
  <1>1. PICK q, row : q = req[s].edit /\ row = req[s].seen
    OBVIOUS
  <1>2. /\ e \in Expense /\ q \in Edits /\ row \in ExpenseRow /\ expense[e] \in ExpenseRow
        /\ expense' = [expense EXCEPT ![e] = Written(q, row, expense[e])]
        /\ ~Resplits(q, row) /\ splits' = splits
    BY <1>1 DEF Commits, Leaves, TypeOK
  <1>3. PICK w : w = Written(q, row, expense[e])
    OBVIOUS
  <1>4. ~Changes(q, row).amount
    BY <1>2 DEF Resplits
  <1>5. w.status = expense[e].status /\ w.amount = expense[e].amount /\ w.type = expense[e].type
    BY <1>2, <1>3, <1>4, WrittenFacts
  <1>6. expense'[e] = w
    BY <1>2, <1>3 DEF TypeOK
  <1>7. {r \in splits' : r.expense = e} = SplitsOf(e)
    BY <1>2 DEF SplitsOf
  <1>8. QED
    BY <1>5, <1>6, <1>7 DEF SameRows

\* What it does to the other expenses.
LEMMA ElsewhereSame ==
  ASSUME TypeOK, Shaped, NEW s \in Slot, CommitLocked(s) \/ CommitSplits(s),
         NEW d \in Expense, d # req[s].expense
  PROVE  SameRows(d)
  BY CommitElsewhere DEF SameRows, SplitsOf

LEMMA CommitCurrent ==
  ASSUME TypeOK, Shaped, AllCurrent, NEW s \in Slot, CommitLocked(s) \/ CommitSplits(s)
  PROVE  AllCurrent'
  <1>1. PICK e : e = req[s].expense
    OBVIOUS
  <1>2. /\ req[s].pc # "idle" /\ Commits(s)
        /\ Leaves(s) \/ \E old, n, f : Rewrites(s, old, n, f)
    BY CommitFacts
  <1>3. ASSUME NEW t \in Slot, t # s PROVE Current(t)'
    <2>1. req[t] \in Request
      BY DEF TypeOK
    <2>2. CASE Leaves(s)
      <3>1. req'[t] = req[t]
        BY <1>3, <2>2 DEF Leaves, TypeOK
      <3>2. req[t].pc # "idle" => SameRows(req[t].expense)
        <4>1. PICK d : d = req[t].expense
          OBVIOUS
        <4>2. CASE d = e
          <5>1. SameRows(d)
            BY <1>1, <1>2, <2>2, <4>2, LeavesSame
          <5>2. QED
            BY <4>1, <5>1 DEF SameRows, SplitsOf
        <4>3. CASE d # e /\ req[t].pc # "idle"
          <5>1. SameRows(d)
            BY <1>1, <4>1, <4>3, ElsewhereSame DEF TypeOK
          <5>2. QED
            BY <4>1, <5>1 DEF SameRows, SplitsOf
        <4>4. QED
          BY <4>2, <4>3
      <3>3. QED
        BY <3>1, <3>2, CurrentKept
    <2>3. CASE \E old, n, f : Rewrites(s, old, n, f)
      <3>1. PICK b : b = (req[t].fresh /\ req[t].expense # e)
        OBVIOUS
      <3>2. req'[t] = [req[t] EXCEPT !.fresh = b]
        BY <1>1, <1>3, <2>3, <3>1 DEF Rewrites, Outdated
      <3>3. CASE req[t].expense = e
        <4>1. b = FALSE
          BY <3>1, <3>3
        <4>2. req'[t].fresh = FALSE
          BY <2>1, <3>2, <4>1 DEF Request
        <4>3. QED
          BY <4>2 DEF Current
      <3>4. CASE req[t].expense # e
        <4>1. b = req[t].fresh
          <5>1. req[t].fresh \in BOOLEAN
            BY <2>1 DEF Request
          <5>2. CASE req[t].fresh = TRUE
            BY <3>1, <3>4, <5>2
          <5>3. CASE req[t].fresh = FALSE
            BY <3>1, <3>4, <5>3
          <5>4. QED
            BY <5>1, <5>2, <5>3
        <4>2. req'[t] = req[t]
          BY <2>1, <3>2, <4>1 DEF Request
        <4>3. req[t].pc # "idle" => SameRows(req[t].expense)
          <5>1. PICK d : d = req[t].expense
            OBVIOUS
          <5>2. req[t].pc # "idle" => SameRows(d)
            BY <1>1, <3>4, <5>1, ElsewhereSame DEF TypeOK
          <5>3. QED
            BY <5>1, <5>2 DEF SameRows, SplitsOf
        <4>4. QED
          BY <4>2, <4>3, CurrentKept
      <3>5. QED
        BY <3>3, <3>4
    <2>4. QED
      BY <1>2, <2>2, <2>3
  <1>4. Current(s)'
    <2>1. req'[s] = Idle
      BY <1>2 DEF Leaves, Rewrites, Outdated, TypeOK
    <2>2. req'[s].pc = "idle"
      BY <2>1 DEF Idle
    <2>3. QED
      BY <2>2 DEF Current
  <1>5. QED
    BY <1>3, <1>4 DEF AllCurrent

\* The clause of SharesAddUp about one expense.
Even(e) ==
  /\ Total(SplitsOf(e)) = expense[e].amount
  /\ \A r1, r2 \in SplitsOf(e) :
       /\ r1.n = r2.n
       /\ expense[e].type = "equal" => r1.cents - r2.cents <= 1

LEMMA SharesByExpense == SharesAddUp <=> \A e \in Expense : On(e) /\ e \notin stale => Even(e)
  BY DEF SharesAddUp, Even

LEMMA EvenKept ==
  ASSUME NEW d \in Expense, SameRows(d), SharesAddUp, On(d)', d \notin stale
  PROVE  Even(d)'
  <1>1. Even(d)
    BY SharesByExpense DEF SameRows, On
  <1>2. SplitsOf(d)' = SplitsOf(d)
    BY DEF SameRows, SplitsOf
  <1>3. Total(SplitsOf(d))' = Total(SplitsOf(d))
    BY <1>2 DEF Total
  <1>4. QED
    BY <1>1, <1>2, <1>3 DEF Even, SameRows

\* The expense a commit is about.
LEMMA CommitEven ==
  ASSUME TypeOK, Shaped, AllCurrent, SharesAddUp,
         NEW s \in Slot, CommitLocked(s) \/ CommitSplits(s),
         NEW e, e = req[s].expense, e \notin stale'
  PROVE  Even(e)'
  <1>1. PICK q, row : e = req[s].expense /\ q = req[s].edit /\ row = req[s].seen
    OBVIOUS
  <1>2. /\ req[s].pc # "idle" /\ Commits(s)
        /\ \/ Leaves(s)
           \/ \E n, f : Rewrites(s, SplitsOf(e), n, f)
           \/ req[s].pc = "old" /\ \E n, f : Rewrites(s, req[s].old, n, f)
    BY <1>1, CommitFacts
  <1>3. /\ e \in Expense /\ On(e) /\ q \in Edits /\ row \in ExpenseRow
        /\ expense[e] \in ExpenseRow
        /\ expense' = [expense EXCEPT ![e] = Written(q, row, expense[e])]
    BY <1>1, <1>2 DEF Commits, TypeOK
  <1>4. PICK x : x = expense'[e]
    OBVIOUS
  <1>5. /\ x = Written(q, row, expense[e])
        /\ x.status = "on"
        /\ x.amount = IF Changes(q, row).amount THEN q.amount ELSE expense[e].amount
        /\ x.type = IF Resplits(q, row) /\ TypeFor(q, row) # row.type
                    THEN TypeFor(q, row) ELSE expense[e].type
    <2>1. x = Written(q, row, expense[e])
      BY <1>3, <1>4 DEF TypeOK
    <2>2. QED
      BY <1>3, <2>1, WrittenFacts DEF On
  <1>6. CASE Leaves(s)
    <2>1. SameRows(e) /\ stale' = stale
      BY <1>1, <1>2, <1>6, LeavesSame DEF Leaves
    <2>2. On(e)'
      BY <1>4, <1>5 DEF On
    <2>3. e \notin stale
      BY <2>1
    <2>4. QED
      BY <1>3, <2>1, <2>2, <2>3, EvenKept
  <1>7. ASSUME NEW old, NEW n, NEW f, Rewrites(s, old, n, f),
               old = SplitsOf(e) \/ (req[s].pc = "old" /\ old = req[s].old)
        PROVE  Even(e)'
    <2>1. req[s].fresh
      BY <1>7 DEF Rewrites
    <2>2. Current(s)
      BY DEF AllCurrent
    <2>3. old = SplitsOf(e) /\ row.amount = expense[e].amount /\ row.type = expense[e].type
      BY <1>1, <1>2, <1>3, <1>7, <2>1, <2>2 DEF Current
    <2>4. /\ n \in Nat /\ f \in [DOMAIN f -> Int] /\ DOMAIN f \in SUBSET Person
          /\ SumOver(f) = AmountFor(s) /\ Resplits(q, row)
          /\ TypeFor(q, row) = "equal" => \A j, k \in DOMAIN f : f[j] - f[k] <= 1
          /\ splits' = (splits \ old) \cup Rows(e, n, f)
      BY <1>1, <1>7 DEF Rewrites, Remaining
    <2>5. \A r \in Rows(e, n, f) : r.expense = e /\ r.n = n /\ r.who \in DOMAIN f
                                    /\ r.cents = f[r.who]
      BY DEF Rows
    <2>6. SplitsOf(e)' = Rows(e, n, f)
      BY <2>3, <2>4, <2>5 DEF SplitsOf
    <2>7. Total(SplitsOf(e))' = SumOver(f)
      <3>1. Total(Rows(e, n, f)) = SumOver(f)
        BY <1>3, <2>4, TotalOfRows
      <3>2. QED
        BY <2>6, <3>1 DEF Total
    <2>8. SumOver(f) = x.amount
      BY <1>1, <1>5, <2>3, <2>4 DEF AmountFor
    <2>9. x.type = "equal" => TypeFor(q, row) = "equal"
      BY <1>5, <2>3, <2>4
    <2>10. \A r1, r2 \in Rows(e, n, f) :
             r1.n = r2.n /\ (x.type = "equal" => r1.cents - r2.cents <= 1)
      BY <2>4, <2>5, <2>9
    <2>11. QED
      BY <1>4, <2>6, <2>7, <2>8, <2>10 DEF Even
  <1>8. QED
    BY <1>1, <1>2, <1>3, <1>6, <1>7

\* Everything together.
SharesInv == TypeOK /\ Attached /\ Shaped /\ AllCurrent /\ SharesAddUp

LEMMA InitShares == Init => SharesInv
  <1> SUFFICES ASSUME Init PROVE SharesInv
    OBVIOUS
  <1>1. splits = {} /\ \A e \in Expense : expense[e].status = "unused"
    BY DEF Init, NoRow
  <1>2. \A s \in Slot : req[s].pc = "idle"
    BY DEF Init, Idle
  <1>3. Shaped /\ AllCurrent
    BY <1>1, <1>2, FS_EmptySet DEF Shaped, AllCurrent, Current
  <1>4. \A e \in Expense : ~On(e)
    BY <1>1 DEF On
  <1>5. SharesAddUp
    BY <1>4, SharesByExpense
  <1>6. QED
    BY <1>3, <1>5, InitTypeOK, InitAttached DEF SharesInv

LEMMA CreateShares ==
  ASSUME TypeOK, Shaped, AllCurrent, SharesAddUp, NEW e \in Expense, Create(e)
  PROVE  SharesAddUp'
  <1>1. /\ expense[e].status = "unused" /\ stale' = stale
        /\ UNCHANGED <<expense, splits>> \/ \E row, f : Adds(e, row, f)
    BY CreateFacts
  <1>2. ASSUME NEW d \in Expense, On(d)', d \notin stale PROVE Even(d)'
    <2>1. CASE On(d)
      <3>1. SameRows(d)
        BY <2>1, CreateCurrent
      <3>2. QED
        BY <1>2, <3>1, EvenKept
    <2>2. CASE ~On(d)
      <3>1. PICK row, f : Adds(e, row, f)
        <4>1. expense' # expense
          BY <1>2, <2>2 DEF On
        <4>2. QED
          BY <1>1, <4>1
      <3>2. /\ expense' = [expense EXCEPT ![e] = row] /\ splits' = splits \cup Rows(e, 0, f)
            /\ Parts(f, row.amount, row.type)
        BY <3>1 DEF Adds
      <3>3. d = e /\ expense'[e] = row
        BY <1>2, <2>2, <3>2 DEF On, TypeOK
      <3>4. \A r \in Rows(e, 0, f) : r.expense = e /\ r.n = 0 /\ r.who \in DOMAIN f
                                     /\ r.cents = f[r.who]
        BY DEF Rows
      <3>5. \A r \in splits : r.expense # e
        BY <1>1 DEF Shaped, On
      <3>6. SplitsOf(d)' = Rows(e, 0, f)
        BY <3>2, <3>3, <3>4, <3>5 DEF SplitsOf
      <3>7. /\ f \in [DOMAIN f -> Int] /\ DOMAIN f \in SUBSET Person /\ 0 \in Nat
            /\ SumOver(f) = row.amount
            /\ row.type = "equal" => \A j, k \in DOMAIN f : f[j] - f[k] <= 1
        BY <3>2 DEF Parts
      <3>8. Total(Rows(e, 0, f)) = SumOver(f)
        BY <3>7, TotalOfRows
      <3>9. \A r1, r2 \in Rows(e, 0, f) :
              r1.n = r2.n /\ (row.type = "equal" => r1.cents - r2.cents <= 1)
        BY <3>4, <3>7
      <3>10. Total(SplitsOf(d))' = row.amount
        BY <3>6, <3>7, <3>8 DEF Total
      <3>11. QED
        BY <3>3, <3>6, <3>9, <3>10 DEF Even
    <2>3. QED
      BY <2>1, <2>2
  <1>3. QED
    BY <1>1, <1>2, SharesByExpense DEF SharesAddUp, Even

LEMMA DeleteShares ==
  ASSUME TypeOK, Shaped, AllCurrent, SharesAddUp, NEW e \in Expense, Delete(e)
  PROVE  SharesAddUp'
  <1>1. stale' = stale \ {e}
    BY DEF Delete
  <1>2. ASSUME NEW d \in Expense, On(d)', d \notin stale' PROVE Even(d)'
    <2>1. d # e
      BY <1>2, DeleteCurrent DEF On
    <2>2. SameRows(d) /\ d \notin stale
      BY <1>1, <1>2, <2>1, DeleteCurrent
    <2>3. QED
      BY <1>2, <2>2, EvenKept
  <1>3. QED
    BY <1>2 DEF SharesAddUp, Even

LEMMA CommitShares ==
  ASSUME TypeOK, Shaped, AllCurrent, SharesAddUp,
         NEW s \in Slot, CommitLocked(s) \/ CommitSplits(s)
  PROVE  SharesAddUp'
  <1>1. PICK e : e = req[s].expense
    OBVIOUS
  <1>2. ASSUME NEW d \in Expense, On(d)', d \notin stale' PROVE Even(d)'
    <2>1. CASE d = e
      BY <1>1, <1>2, <2>1, CommitEven
    <2>2. CASE d # e
      <3>1. SameRows(d) /\ d \notin stale
        BY <1>1, <1>2, <2>2, ElsewhereSame, CommitElsewhere
      <3>2. QED
        BY <1>2, <3>1, EvenKept
    <2>3. QED
      BY <2>1, <2>2
  <1>3. QED
    BY <1>2 DEF SharesAddUp, Even

LEMMA MoveShares ==
  ASSUME TypeOK, Attached, Shaped, SharesAddUp,
         NEW p \in Person, NEW user \in BOOLEAN, Moves(p, user)
  PROVE  SharesAddUp'
  <1>1. ASSUME NEW d \in Expense, On(d)', d \notin stale PROVE Even(d)'
    <2>1. /\ expense'[d].status = expense[d].status
          /\ expense'[d].amount = expense[d].amount /\ expense'[d].type = expense[d].type
      BY MoveFacts
    <2>2. Even(d)
      BY <1>1, <2>1, SharesByExpense DEF On
    <2>3. /\ SplitsOf(d)' = {Touch(r, p, user) : r \in SplitsOf(d)}
          /\ Total(SplitsOf(d)') = Total(SplitsOf(d))
      BY MoveSplits
    <2>4. Total(SplitsOf(d))' = expense'[d].amount
      BY <2>1, <2>2, <2>3 DEF Even, Total
    <2>5. \A r \in SplitsOf(d) :
            Touch(r, p, user).n = r.n /\ Touch(r, p, user).cents = r.cents
      BY TouchFacts DEF SplitsOf, TypeOK
    <2>6. \A r1, r2 \in SplitsOf(d)' :
            r1.n = r2.n /\ (expense'[d].type = "equal" => r1.cents - r2.cents <= 1)
      BY <2>1, <2>2, <2>3, <2>5 DEF Even
    <2>7. QED
      BY <2>4, <2>6 DEF Even
  <1>2. stale' = stale
    BY DEF Moves
  <1>3. QED
    BY <1>1, <1>2 DEF SharesAddUp, Even

LEMMA StillShares ==
  ASSUME Shaped, AllCurrent, SharesAddUp, UNCHANGED <<expense, splits, stale, req>>
  PROVE  Shaped' /\ AllCurrent' /\ SharesAddUp'
  <1>1. Shaped'
    BY DEF Shaped, On
  <1>2. AllCurrent'
    BY DEF AllCurrent, Current, On, SplitsOf
  <1>3. \A e \in Expense : SplitsOf(e)' = SplitsOf(e)
    BY DEF SplitsOf
  <1>4. \A e \in Expense : Total(SplitsOf(e))' = Total(SplitsOf(e))
    BY <1>3 DEF Total
  <1>5. SharesAddUp'
    BY <1>3, <1>4 DEF SharesAddUp, On
  <1>6. QED
    BY <1>1, <1>2, <1>5

LEMMA NextShares == SharesInv /\ [Next]_vars => SharesInv'
  <1> SUFFICES ASSUME SharesInv, [Next]_vars PROVE SharesInv'
    OBVIOUS
  <1>1. TypeOK /\ Attached /\ Shaped /\ AllCurrent /\ SharesAddUp
    BY DEF SharesInv
  <1>2. TypeOK' /\ Attached'
    BY <1>1, NextTypeOK, NextAttached
  <1>3. ASSUME NEW e \in Expense, Create(e) PROVE Shaped' /\ AllCurrent' /\ SharesAddUp'
    BY <1>1, <1>3, CreateShaped, CreateCurrent, CreateShares
  <1>4. ASSUME NEW e \in Expense, Delete(e) PROVE Shaped' /\ AllCurrent' /\ SharesAddUp'
    BY <1>1, <1>4, DeleteShaped, DeleteCurrent, DeleteShares
  <1>5. ASSUME NEW s \in Slot,
               (\E e \in Expense : Open(s, e)) \/ LoadWho(s) \/ LoadOld(s) \/ Abort(s)
        PROVE  Shaped' /\ AllCurrent' /\ SharesAddUp'
    <2>1. Shaped' /\ AllCurrent'
      BY <1>1, <1>5, RequestShaped
    <2>2. UNCHANGED <<expense, splits, stale>>
      BY <1>5 DEF Open, LoadWho, LoadOld, Abort, ledger
    <2>3. \A e \in Expense : SplitsOf(e)' = SplitsOf(e)
      BY <2>2 DEF SplitsOf
    <2>4. \A e \in Expense : Total(SplitsOf(e))' = Total(SplitsOf(e))
      BY <2>3 DEF Total
    <2>5. SharesAddUp'
      BY <1>1, <2>2, <2>3, <2>4 DEF SharesAddUp, On
    <2>6. QED
      BY <2>1, <2>5
  <1>6. ASSUME NEW s \in Slot, CommitLocked(s) \/ CommitSplits(s)
        PROVE  Shaped' /\ AllCurrent' /\ SharesAddUp'
    BY <1>1, <1>6, CommitShaped, CommitCurrent, CommitShares
  <1>7. ASSUME NEW p \in Person, NEW q \in Person, Settle(p, q)
        PROVE  Shaped' /\ AllCurrent' /\ SharesAddUp'
    BY <1>1, <1>7, StillShares DEF Settle
  <1>8. ASSUME NEW p \in Person, Leave(p) \/ Join(p)
        PROVE  Shaped' /\ AllCurrent' /\ SharesAddUp'
    <2>1. PICK user \in BOOLEAN : Moves(p, user)
      BY <1>8, LeaveJoinMove
    <2>2. Shaped' /\ SharesAddUp'
      BY <1>1, <2>1, MoveShaped, MoveShares
    <2>3. req' = req /\ \A s \in Slot : req[s].pc = "idle"
      BY <2>1 DEF Moves, Quiet
    <2>4. AllCurrent'
      BY <2>3 DEF AllCurrent, Current
    <2>5. QED
      BY <2>2, <2>4
  <1>9. ASSUME UNCHANGED vars PROVE Shaped' /\ AllCurrent' /\ SharesAddUp'
    <2>1. UNCHANGED <<expense, splits, stale, req>>
      BY <1>9 DEF vars, ledger
    <2>2. QED
      BY <1>1, <2>1, StillShares
  <1>10. Shaped' /\ AllCurrent' /\ SharesAddUp'
    <2>1. Next \/ UNCHANGED vars
      OBVIOUS
    <2>2. \/ \E e \in Expense : Create(e) \/ Delete(e)
          \/ \E s \in Slot : \/ (\E e \in Expense : Open(s, e)) \/ LoadWho(s)
                             \/ LoadOld(s) \/ Abort(s)
                             \/ CommitLocked(s) \/ CommitSplits(s)
          \/ \E p, q \in Person : Settle(p, q)
          \/ \E p \in Person : Leave(p) \/ Join(p)
          \/ UNCHANGED vars
      BY <2>1 DEF Next
    <2>3. QED
      BY <1>3, <1>4, <1>5, <1>6, <1>7, <1>8, <1>9, <2>2
  <1>11. QED
    BY <1>2, <1>10 DEF SharesInv

\* Whatever is divided, however often it is edited, by whoever it is and with
\* however many other requests open: the shares of an expense add up to its
\* amount to the cent, unless its last edit overlapped another.
THEOREM SharesAlwaysAddUp == Spec => []SharesAddUp
  <1>1. SharesInv => SharesAddUp
    BY DEF SharesInv
  <1>2. QED
    BY <1>1, InitShares, NextShares, PTL DEF Spec

-----------------------------------------------------------------------------
(* History. *)

\* What VisibleHistory asks of a step.
Told(d) == /\ Facts(d)' = Facts(d)
           /\ \/ SameName(d)
              \/ SamePayer(d) /\ expense'[d].name = NameOf[expense[d].payer]

LEMMA NothingToTell ==
  ASSUME NEW d \in Expense, SplitsOf(d)' = SplitsOf(d), expense'[d] = expense[d]
  PROVE  Told(d)
  BY DEF Told, Facts, Shares, SameName

\* What a commit changes it comments on, unless it is the payer for one of the
\* name it has read.
LEMMA CommitComments ==
  ASSUME TypeOK, Shaped, NEW s \in Slot, CommitLocked(s) \/ CommitSplits(s),
         NEW d \in Expense, notes'[d] <= notes[d]
  PROVE  Told(d)
  <1>1. CASE d # req[s].expense
    BY <1>1, CommitElsewhere, NothingToTell
  <1>2. CASE d = req[s].expense
    <2>1. PICK q, row : q = req[s].edit /\ row = req[s].seen
      OBVIOUS
    <2>2. /\ req[s].pc # "idle" /\ Commits(s)
          /\ Leaves(s) \/ \E old, n, f : Rewrites(s, old, n, f)
      BY CommitFacts
    <2>3. /\ q \in Edits /\ row \in ExpenseRow /\ expense[d] \in ExpenseRow
          /\ expense' = [expense EXCEPT ![d] = Written(q, row, expense[d])]
          /\ notes' = [notes EXCEPT ![d] = @ + Comments(q, row)]
      BY <1>2, <2>1, <2>2 DEF Commits, TypeOK
    <2>4. ~(NewName(q, row) \/ Changes(q, row).amount
              \/ Changes(q, row).people \/ Changes(q, row).config)
      <3>1. notes[d] \in Nat /\ notes'[d] = notes[d] + Comments(q, row)
        BY <2>3 DEF TypeOK
      <3>2. Comments(q, row) # 1
        BY <3>1
      <3>3. QED
        BY <3>2 DEF Comments
    <2>5. ~Resplits(q, row)
      BY <2>4 DEF Resplits
    <2>6. splits' = splits
      BY <2>1, <2>2, <2>5 DEF Leaves, Rewrites
    <2>7. PICK w : w = Written(q, row, expense[d])
      OBVIOUS
    <2>8. w.name = expense[d].name /\ w.amount = expense[d].amount
      BY <2>3, <2>4, <2>7, WrittenFacts
    <2>9. expense'[d] = w
      BY <2>3, <2>7 DEF TypeOK
    <2>10. SplitsOf(d)' = SplitsOf(d)
      BY <2>6 DEF SplitsOf
    <2>11. QED
      BY <2>8, <2>9, <2>10 DEF Told, Facts, Shares, SameName
  <1>3. QED
    BY <1>1, <1>2

\* An account that comes or goes takes the name on what its person has paid.
LEMMA MoveTells ==
  ASSUME TypeOK, NEW p \in Person, NEW user \in BOOLEAN, Moves(p, user),
         NEW d \in Expense
  PROVE  Told(d)
  <1>1. /\ expense'[d].payer = expense[d].payer /\ expense'[d].amount = expense[d].amount
        /\ expense'[d].name = IF expense[d].payer = p THEN NameOf[p] ELSE expense[d].name
    BY MoveFacts
  <1>2. SplitsOf(d)' = {Touch(r, p, user) : r \in SplitsOf(d)}
    <2>1. splits' = {Touch(r, p, user) : r \in splits}
      BY MoveFacts
    <2>2. \A r \in splits : Touch(r, p, user).expense = r.expense
      BY TouchFacts DEF TypeOK
    <2>3. SplitsOf(d)' = {r \in splits' : r.expense = d}
      BY DEF SplitsOf
    <2>4. SplitsOf(d) = {r \in splits : r.expense = d}
      BY DEF SplitsOf
    <2>5. QED
      BY <2>1, <2>2, <2>3, <2>4
  <1>3. \A r \in SplitsOf(d) :
          Touch(r, p, user).who = r.who /\ Touch(r, p, user).cents = r.cents
    BY TouchFacts DEF SplitsOf, TypeOK
  <1>4. {[who |-> r.who, cents |-> r.cents] : r \in SplitsOf(d)'}
          = {[who |-> r.who, cents |-> r.cents] : r \in SplitsOf(d)}
    BY <1>2, <1>3
  <1>5. Shares(d)' = Shares(d)
    BY <1>4 DEF Shares
  <1>6. Facts(d)' = Facts(d)
    BY <1>1, <1>5 DEF Facts
  <1>7. SameName(d) \/ (SamePayer(d) /\ expense'[d].name = NameOf[expense[d].payer])
    BY <1>1 DEF SameName, SamePayer
  <1>8. QED
    BY <1>6, <1>7 DEF Told

LEMMA NextComments ==
  ASSUME TypeOK, Attached, Shaped, AllCurrent, [Next]_vars,
         NEW d \in Expense, On(d), On(d)', notes'[d] <= notes[d]
  PROVE  Told(d)
  <1>1. ASSUME NEW e \in Expense, Create(e) PROVE Told(d)
    <2>1. expense'[d] = expense[d] /\ SameRows(d)
      BY <1>1, CreateCurrent
    <2>2. SplitsOf(d)' = SplitsOf(d)
      BY <2>1 DEF SameRows, SplitsOf
    <2>3. QED
      BY <2>1, <2>2, NothingToTell
  <1>2. ASSUME NEW e \in Expense, Delete(e) PROVE Told(d)
    <2>1. d # e
      BY <1>2, DeleteCurrent DEF On
    <2>2. expense'[d] = expense[d] /\ SameRows(d)
      BY <1>2, <2>1, DeleteCurrent
    <2>3. SplitsOf(d)' = SplitsOf(d)
      BY <2>2 DEF SameRows, SplitsOf
    <2>4. QED
      BY <2>2, <2>3, NothingToTell
  <1>3. ASSUME UNCHANGED <<expense, splits>> PROVE Told(d)
    BY <1>3, NothingToTell DEF SplitsOf
  <1>4. ASSUME NEW s \in Slot,
               (\E e \in Expense : Open(s, e)) \/ LoadWho(s) \/ LoadOld(s) \/ Abort(s)
        PROVE  Told(d)
    BY <1>3, <1>4 DEF Open, LoadWho, LoadOld, Abort, ledger
  <1>5. ASSUME NEW s \in Slot, CommitLocked(s) \/ CommitSplits(s) PROVE Told(d)
    BY <1>5, CommitComments
  <1>6. ASSUME NEW p \in Person, NEW q \in Person, Settle(p, q) PROVE Told(d)
    BY <1>3, <1>6 DEF Settle
  <1>7. ASSUME NEW p \in Person, Leave(p) \/ Join(p) PROVE Told(d)
    BY <1>7, LeaveJoinMove, MoveTells
  <1>8. CASE UNCHANGED vars
    BY <1>3, <1>8 DEF vars, ledger
  <1>9. QED
    BY <1>1, <1>2, <1>4, <1>5, <1>6, <1>7, <1>8 DEF Next

\* How much, and who owes what, never changes without a word, nor does the
\* payer for somebody of another name, whoever edits at the same time and
\* whatever accounts come and go.
THEOREM HistoryVisible == Spec => VisibleHistory
  <1>1. SharesInv /\ [Next]_vars =>
          [\A e \in Expense : On(e) /\ On(e)' /\ notes'[e] <= notes[e] =>
             /\ Facts(e)' = Facts(e)
             /\ SameName(e) \/ (SamePayer(e) /\ expense'[e].name = NameOf[expense[e].payer])]_vars
    BY NextComments DEF SharesInv, Told
  <1>2. QED
    BY <1>1, InitShares, NextShares, PTL DEF Spec, VisibleHistory

-----------------------------------------------------------------------------
(* Lists of balances. *)

\* Settlements are finitely many.
Settlements == IsFiniteSet(settlements)

LEMMA NextSettlements == TypeOK /\ Settlements /\ [Next]_vars => Settlements'
  <1> SUFFICES ASSUME TypeOK, Settlements, [Next]_vars PROVE Settlements'
    OBVIOUS
  <1>1. ASSUME settlements' = settlements PROVE Settlements'
    BY <1>1 DEF Settlements
  <1>2. ASSUME NEW e \in Expense, Create(e) \/ Delete(e) PROVE Settlements'
    BY <1>1, <1>2 DEF Create, Delete
  <1>3. ASSUME NEW s \in Slot,
               (\E e \in Expense : Open(s, e)) \/ LoadWho(s) \/ LoadOld(s) \/ Abort(s)
        PROVE  Settlements'
    BY <1>1, <1>3 DEF Open, LoadWho, LoadOld, Abort, ledger
  <1>4. ASSUME NEW s \in Slot, CommitLocked(s) \/ CommitSplits(s) PROVE Settlements'
    BY <1>1, <1>4, CommitFacts DEF Commits
  <1>5. ASSUME NEW p \in Person, NEW q \in Person, Settle(p, q) PROVE Settlements'
    <2>1. PICK x : settlements' = settlements \cup {x}
      BY <1>5, SettleFacts
    <2>2. QED
      BY <2>1, FS_AddElement DEF Settlements
  <1>6. ASSUME NEW p \in Person, Leave(p) \/ Join(p) PROVE Settlements'
    <2>1. PICK user \in BOOLEAN : Moves(p, user)
      BY <1>6, LeaveJoinMove
    <2>2. PICK T : T = {TouchPaid(x, p, user) : x \in settlements}
      OBVIOUS
    <2>3. PICK g : g = [x \in settlements |-> TouchPaid(x, p, user)]
      OBVIOUS
    <2>4. g \in Surjection(settlements, T)
      BY <2>2, <2>3 DEF Surjection
    <2>5. IsFiniteSet(T)
      BY <2>4, FS_Surjection DEF Settlements
    <2>6. settlements' = T
      BY <2>1, <2>2, MoveSettlements
    <2>7. QED
      BY <2>5, <2>6 DEF Settlements
  <1>7. CASE UNCHANGED vars
    BY <1>1, <1>7 DEF vars, ledger
  <1>8. QED
    BY <1>2, <1>3, <1>4, <1>5, <1>6, <1>7 DEF Next

\* The lines of rows S add up to them, one way or the other.
LEMMA LinesSum ==
  ASSUME NEW S, IsFiniteSet(S), \A r \in S : r.cents \in Int, NEW way, NEW F,
         NEW L, L = Lines(S, way)
  PROVE  /\ IsFiniteSet(L)
         /\ (\A l \in L : F[l] = l.row.cents) => SumOn(F, L) = Total(S)
         /\ (\A l \in L : F[l] = -l.row.cents) => SumOn(F, L) = -Total(S)
         /\ Total(S) \in Int
  <1>1. PICK g, v, w, m : /\ g = [r \in S |-> [direction |-> way, row |-> r]]
                          /\ v = [r \in S |-> r.cents]
                          /\ w = [l \in L |-> l.row.cents]
                          /\ m = [l \in L |-> -l.row.cents]
    OBVIOUS
  <1>2. L = {g[k] : k \in S}
    BY <1>1 DEF Lines
  <1>3. \A k \in S : g[k].row = k /\ g[k] \in L /\ v[k] = k.cents
    BY <1>1, <1>2
  <1>4. Renames(g, v, w, S)
    <2>1. \A k \in S : w[g[k]] = v[k] /\ v[k] \in Int
      BY <1>1, <1>3
    <2>2. \A j, k \in S : g[j] = g[k] => j = k
      BY <1>3
    <2>3. QED
      BY <2>1, <2>2 DEF Renames
  <1>5. SumOn(w, L) = SumOn(v, S) /\ IsFiniteSet(L)
    BY <1>2, <1>4, SumImage
  <1>6. Total(S) = SumOn(v, S)
    BY <1>1, TotalIsSum
  <1>7. Total(S) \in Int
    <2>1. \A k \in S : v[k] \in Int
      BY <1>1
    <2>2. QED
      BY <1>6, <2>1, SumType
  <1>8. ASSUME NEW l \in L PROVE w[l] = l.row.cents /\ w[l] \in Int
    <2>1. PICK k \in S : l = g[k]
      BY <1>2
    <2>2. QED
      BY <1>1, <1>3, <2>1
  <1>9. ASSUME \A l \in L : F[l] = l.row.cents PROVE SumOn(F, L) = Total(S)
    <2>1. \A l \in L : F[l] = w[l]
      BY <1>8, <1>9
    <2>2. SumOn(F, L) = SumOn(w, L)
      BY <1>5, <2>1, SumSame
    <2>3. QED
      BY <1>5, <1>6, <2>2
  <1>10. ASSUME \A l \in L : F[l] = -l.row.cents PROVE SumOn(F, L) = -Total(S)
    <2>1. \A l \in L : w[l] \in Int /\ F[l] = -w[l]
      BY <1>8, <1>10
    <2>2. SumOn(F, L) = -SumOn(w, L)
      BY <1>5, <2>1, SumNegated
    <2>3. QED
      BY <1>5, <1>6, <2>2
  <1>11. QED
    BY <1>5, <1>7, <1>9, <1>10

\* The lines that explain a balance add up to it.
LEMMA BreakdownSum ==
  ASSUME TypeOK, Shaped, Settlements, NEW p, NEW q
  PROVE  SumOver([l \in Breakdown(p, q) |->
                    IF l.direction \in {"you_owe", "they_paid"}
                    THEN l.row.cents ELSE -l.row.cents]) = BalanceByUser(p, q)
  <1>1. PICK F : F = [l \in Breakdown(p, q) |->
                        IF l.direction \in {"you_owe", "they_paid"}
                        THEN l.row.cents ELSE -l.row.cents]
    OBVIOUS
  <1>2. PICK A, B, C, D : /\ A = SharesOf(p, TRUE, q, TRUE) /\ B = SharesOf(q, TRUE, p, TRUE)
                          /\ C = PaidByUser(p, q) /\ D = PaidByUser(q, p)
    OBVIOUS
  <1>3. PICK LA, LB, LC, LD : /\ LA = Lines(A, "you_owe") /\ LB = Lines(B, "owed_to_you")
                              /\ LC = Lines(C, "you_paid") /\ LD = Lines(D, "they_paid")
    OBVIOUS
  <1>4. Breakdown(p, q) = LA \cup LB \cup LC \cup LD
    BY <1>2, <1>3 DEF Breakdown
  <1>5. /\ \A l \in LA : l.direction = "you_owe"
        /\ \A l \in LB : l.direction = "owed_to_you"
        /\ \A l \in LC : l.direction = "you_paid"
        /\ \A l \in LD : l.direction = "they_paid"
    BY <1>3 DEF Lines
  <1>6. /\ \A l \in LA : F[l] = l.row.cents
        /\ \A l \in LB : F[l] = -l.row.cents
        /\ \A l \in LC : F[l] = -l.row.cents
        /\ \A l \in LD : F[l] = l.row.cents
    BY <1>1, <1>4, <1>5
  <1>7. /\ A \subseteq splits /\ B \subseteq splits
        /\ C \subseteq settlements /\ D \subseteq settlements
    BY <1>2 DEF SharesOf, PaidByUser
  <1>8. /\ \A r \in splits : r.cents \in Int
        /\ \A x \in settlements : x.cents \in Int
    BY DEF TypeOK, SplitRow, Settlement
  <1>9. /\ IsFiniteSet(A) /\ IsFiniteSet(B) /\ IsFiniteSet(C) /\ IsFiniteSet(D)
        /\ \A r \in A : r.cents \in Int
        /\ \A r \in B : r.cents \in Int
        /\ \A r \in C : r.cents \in Int
        /\ \A r \in D : r.cents \in Int
    BY <1>7, <1>8, FS_Subset DEF Shaped, Settlements
  <1>10. IsFiniteSet(LA) /\ SumOn(F, LA) = Total(A) /\ Total(A) \in Int
    BY <1>3, <1>6, <1>9, LinesSum
  <1>11. IsFiniteSet(LB) /\ SumOn(F, LB) = -Total(B) /\ Total(B) \in Int
    BY <1>3, <1>6, <1>9, LinesSum
  <1>12. IsFiniteSet(LC) /\ SumOn(F, LC) = -Total(C) /\ Total(C) \in Int
    BY <1>3, <1>6, <1>9, LinesSum
  <1>13. IsFiniteSet(LD) /\ SumOn(F, LD) = Total(D) /\ Total(D) \in Int
    BY <1>3, <1>6, <1>9, LinesSum
  <1>14. \A l \in LA \cup LB \cup LC \cup LD : F[l] \in Int
    <2>1. /\ \A l \in LA : l.row \in A
          /\ \A l \in LB : l.row \in B
          /\ \A l \in LC : l.row \in C
          /\ \A l \in LD : l.row \in D
      BY <1>3 DEF Lines
    <2>2. QED
      BY <1>6, <1>9, <2>1
  <1>15. SumOn(F, LA \cup LB) = SumOn(F, LA) + SumOn(F, LB) /\ IsFiniteSet(LA \cup LB)
    <2>1. LA \cap LB = {} /\ \A l \in LA \cup LB : F[l] \in Int
      BY <1>5, <1>14
    <2>2. SumOn(F, LA \cup LB) = SumOn(F, LA) + SumOn(F, LB)
      BY <1>10, <1>11, <2>1, SumUnion
    <2>3. QED
      BY <1>10, <1>11, <2>2, FS_Union
  <1>16. /\ SumOn(F, LA \cup LB \cup LC) = SumOn(F, LA \cup LB) + SumOn(F, LC)
         /\ IsFiniteSet(LA \cup LB \cup LC)
    <2>1. PICK M : M = LA \cup LB
      OBVIOUS
    <2>2. M \cap LC = {} /\ (\A l \in M \cup LC : F[l] \in Int) /\ IsFiniteSet(M)
      BY <1>5, <1>14, <1>15, <2>1
    <2>3. SumOn(F, M \cup LC) = SumOn(F, M) + SumOn(F, LC)
      BY <1>12, <2>2, SumUnion
    <2>4. QED
      BY <1>12, <2>1, <2>2, <2>3, FS_Union
  <1>17. SumOn(F, LA \cup LB \cup LC \cup LD) = SumOn(F, LA \cup LB \cup LC) + SumOn(F, LD)
    <2>1. PICK M : M = LA \cup LB \cup LC
      OBVIOUS
    <2>2. M \cap LD = {} /\ (\A l \in M \cup LD : F[l] \in Int) /\ IsFiniteSet(M)
      BY <1>5, <1>14, <1>16, <2>1
    <2>3. SumOn(F, M \cup LD) = SumOn(F, M) + SumOn(F, LD)
      BY <1>13, <2>2, SumUnion
    <2>4. QED
      BY <2>1, <2>3
  <1>18. SumOver(F) = SumOn(F, Breakdown(p, q))
    BY <1>1, SumOverIsSumOn
  <1>19. SumOver(F) = Total(A) - Total(B) - Total(C) + Total(D)
    BY <1>4, <1>10, <1>11, <1>12, <1>13, <1>15, <1>16, <1>17, <1>18
  <1>20. QED
    BY <1>1, <1>2, <1>19 DEF BalanceByUser

\* A person a row names without an account has none.
LEMMA UnattachedGone ==
  ASSUME TypeOK, Attached, NEW g \in Group, NEW q \in Unattached(g), q \in Person
  PROVE  q \notin live
  <1>1. PICK e \in Expense :
          \/ \E r \in splits : ~r.user /\ r.who = q
          \/ ~expense[e].user /\ expense[e].payer = q
    BY DEF Unattached, SplitsOf
  <1>2. CASE \E r \in splits : ~r.user /\ r.who = q
    BY <1>2 DEF Attached, Says
  <1>3. CASE ~expense[e].user /\ expense[e].payer = q
    BY <1>3 DEF Attached, Says
  <1>4. QED
    BY <1>1, <1>2, <1>3

\* Whom a list names, and as what.
LEMMA OnList ==
  ASSUME NEW p, NEW x \in Balances(p)
  PROVE  /\ x.balance # 0
         /\ \/ /\ x = Entry(x.who, "friend", BalanceByUser(p, x.who)) /\ x.who \in Friends(p)
            \/ /\ x = Entry(x.who, "pending", BalanceByEmail(p, x.who)) /\ x.who \in Pending(p)
            \/ /\ x = Entry(x.who, "frozen", BalanceByEmail(p, x.who)) /\ x.who \in Frozen(p)
  <1>1. \A q, as, b : Entry(q, as, b).who = q /\ Entry(q, as, b).balance = b
    BY DEF Entry
  <1>2. /\ x.balance # 0
        /\ \/ \E q \in Friends(p) : x = Entry(q, "friend", BalanceByUser(p, q))
           \/ \E q \in Pending(p) : x = Entry(q, "pending", BalanceByEmail(p, q))
           \/ \E q \in Frozen(p) : x = Entry(q, "frozen", BalanceByEmail(p, q))
    BY DEF Balances
  <1>3. QED
    BY <1>1, <1>2

LEMMA ListsMembers ==
  ASSUME TypeOK, Attached, NEW p \in live, NEW q \in Person
  PROVE  /\ q \in Friends(p) => q \in live
         /\ q \in Pending(p) \cup Frozen(p) => q \notin live
         /\ q \notin live /\ Named(q, p) => q \in Pending(p) \cup Frozen(p)
  <1>1. q \in Friends(p) => q \in live
    BY DEF Friends
  <1>2. ASSUME q \in Pending(p) \cup Frozen(p) PROVE q \notin live
    <2>1. PICK g \in Group : q \in Unattached(g)
      BY <1>2 DEF Pending, Frozen, GroupsOf
    <2>2. QED
      BY <2>1, UnattachedGone
  <1>3. ASSUME Named(q, p) PROVE q \in Pending(p) \cup Frozen(p)
    <2>1. PICK e \in Expense :
            /\ On(e) /\ p \in seats[GroupOf[e]]
            /\ \/ ~expense[e].user /\ expense[e].payer = q
               \/ \E r \in SplitsOf(e) : ~r.user /\ r.who = q
      BY <1>3 DEF Named
    <2>2. PICK g : g = GroupOf[e]
      OBVIOUS
    <2>3. g \in Group /\ g \in GroupsOf(p)
      BY <2>1, <2>2, GroupAssumption DEF GroupsOf
    <2>4. q \in Unattached(g)
      BY <2>1, <2>2 DEF Unattached
    <2>5. QED
      BY <2>3, <2>4 DEF Pending, Frozen
  <1>4. QED
    BY <1>1, <1>2, <1>3

\* Balances that are kept are listed, once, and explained.
LEMMA ListedWhenKept ==
  ASSUME TypeOK, Attached, Shaped, Settlements, BalancesKept
  PROVE  BalancesListed
  <1> SUFFICES ASSUME NEW p \in live, NEW q \in Person \ {p},
                      NEW list, list = Balances(p),
                      NEW entries, entries = {x \in list : x.who = q}
               PROVE  /\ Debt(p, q) # 0 /\ Reachable(p, q) => entries # {}
                      /\ \A x \in entries : x.balance = Debt(p, q)
                      /\ q \in live => Debt(p, q) =
                           SumOver([l \in Breakdown(p, q) |->
                             IF l.direction \in {"you_owe", "they_paid"}
                             THEN l.row.cents ELSE -l.row.cents])
                      /\ q \notin Pending(p) \cap Frozen(p) => Cardinality(entries) <= 1
    BY DEF BalancesListed
  <1>1. Debt(p, q) = IF q \in live THEN BalanceByUser(p, q) ELSE BalanceByEmail(p, q)
    BY DEF BalancesKept
  <1>2. /\ q \in Friends(p) => q \in live
        /\ q \in Pending(p) \cup Frozen(p) => q \notin live
        /\ q \notin live /\ Named(q, p) => q \in Pending(p) \cup Frozen(p)
    BY ListsMembers
  <1>3. ASSUME NEW x \in entries
        PROVE  \/ x = Entry(q, "friend", BalanceByUser(p, q)) /\ q \in Friends(p)
               \/ x = Entry(q, "pending", BalanceByEmail(p, q)) /\ q \in Pending(p)
               \/ x = Entry(q, "frozen", BalanceByEmail(p, q)) /\ q \in Frozen(p)
    <2>1. x \in Balances(p) /\ x.who = q
      OBVIOUS
    <2>2. QED
      BY <2>1, OnList
  <1>4. \A as, b : Entry(q, as, b).who = q /\ Entry(q, as, b).balance = b
    BY DEF Entry
  <1>5. ASSUME Debt(p, q) # 0, Reachable(p, q) PROVE entries # {}
    <2>1. CASE q \in Friends(p)
      <3>1. Debt(p, q) = BalanceByUser(p, q)
        BY <1>1, <1>2, <2>1
      <3>2. Entry(q, "friend", BalanceByUser(p, q)) \in Balances(p)
        BY <1>4, <1>5, <2>1, <3>1 DEF Balances
      <3>3. QED
        BY <1>4, <3>2
    <2>2. CASE q \notin live /\ Named(q, p)
      <3>1. Debt(p, q) = BalanceByEmail(p, q) /\ q \in Pending(p) \cup Frozen(p)
        BY <1>1, <1>2, <2>2
      <3>2. CASE q \in Pending(p)
        <4>1. Entry(q, "pending", BalanceByEmail(p, q)) \in Balances(p)
          BY <1>4, <1>5, <3>1, <3>2 DEF Balances
        <4>2. QED
          BY <1>4, <4>1
      <3>3. CASE q \in Frozen(p)
        <4>1. Entry(q, "frozen", BalanceByEmail(p, q)) \in Balances(p)
          BY <1>4, <1>5, <3>1, <3>3 DEF Balances
        <4>2. QED
          BY <1>4, <4>1
      <3>4. QED
        BY <3>1, <3>2, <3>3
    <2>3. QED
      BY <1>5, <2>1, <2>2 DEF Reachable
  <1>6. ASSUME NEW x \in entries PROVE x.balance = Debt(p, q)
    BY <1>1, <1>2, <1>3, <1>4
  <1>7. ASSUME q \in live
        PROVE  Debt(p, q) = SumOver([l \in Breakdown(p, q) |->
                 IF l.direction \in {"you_owe", "they_paid"}
                 THEN l.row.cents ELSE -l.row.cents])
    BY <1>1, <1>7, BreakdownSum
  <1>8. ASSUME q \notin Pending(p) \cap Frozen(p) PROVE Cardinality(entries) <= 1
    <2>1. PICK one :
            one = IF q \in Friends(p) THEN Entry(q, "friend", BalanceByUser(p, q))
                  ELSE IF q \in Pending(p) THEN Entry(q, "pending", BalanceByEmail(p, q))
                  ELSE Entry(q, "frozen", BalanceByEmail(p, q))
      OBVIOUS
    <2>2. \A x \in entries : x = one
      BY <1>2, <1>3, <1>8, <2>1
    <2>3. entries \in SUBSET {one}
      BY <2>2
    <2>4. IsFiniteSet({one}) /\ Cardinality({one}) = 1
      BY FS_Singleton
    <2>5. Cardinality(entries) <= Cardinality({one})
      BY <2>3, <2>4, FS_Subset
    <2>6. QED
      BY <2>4, <2>5
  <1>9. QED
    BY <1>5, <1>6, <1>7, <1>8

\* Everybody a person owes or is owed by, who shares a group with them or,
\* without an account, is named by an expense there (Reachable), is on their list
\* with what is owed, and the lines that explain it add up to it: whoever has
\* left, joined or been invited meanwhile.  Somebody invited to one group and
\* frozen in another is on it twice, with the whole balance; others once at most.
THEOREM BalancesAlwaysListed == Spec => []BalancesListed
  <1>1. Init => SharesInv /\ Settlements
    BY InitShares, FS_EmptySet DEF Init, Settlements
  <1>2. SharesInv /\ Settlements /\ [Next]_vars => (SharesInv /\ Settlements)'
    BY NextShares, NextSettlements DEF SharesInv
  <1>3. SharesInv /\ Settlements => BalancesListed
    BY AttachedKeepsBalances, ListedWhenKept DEF SharesInv
  <1>4. QED
    BY <1>1, <1>2, <1>3, PTL DEF Spec
=============================================================================
