------------------------- MODULE LogicalStorage_proofs -------------------------
(***************************************************************************)
(* Proofs about LogicalStorage, for any disks, arrays, volumes and mount   *)
(* points: the mounts that a poll lists, the extents that the readers sum  *)
(* up over the tree of an LV, the disks that they find under a device.     *)
(***************************************************************************)
EXTENDS LogicalStorage, FiniteSetTheorems, WellFoundedInduction, TLAPS

-------------------------------------------------------------------------------
(***************************************************************************)
(* Sums over finite sets.                                                  *)
(***************************************************************************)

\* Of some numbers there is a least.
LEMMA LeastNat ==
  ASSUME NEW T \in SUBSET Nat, T # {}
  PROVE  \E i \in T : \A j \in T : i <= j
<1>1. PICK i \in T : \A j \in T : << j, i >> \notin OpToRel(<, Nat)
  BY NatLessThanWellFounded, WFMin, Zenon
<1>2. ASSUME NEW j \in T PROVE i <= j
  <2>1. ~(j < i)
    BY <1>1 DEF OpToRel
  <2> QED
    BY <2>1
<1> QED
  BY <1>2

\* Induction over the parts of a finite set: G has a set whenever it has its parts.
LEMMA FiniteInduction ==
  ASSUME NEW S, IsFiniteSet(S), NEW G,
         \A T \in SUBSET S : (\A U \in SUBSET T : U # T => U \in G) => T \in G
  PROVE  \A T \in SUBSET S : T \in G
<1> SUFFICES ASSUME NEW T \in SUBSET S, T \notin G PROVE FALSE
  OBVIOUS
<1> DEFINE Bad == {U \in SUBSET S : U \notin G}
           Sizes == {Cardinality(U) : U \in Bad}
<1>1. \A U \in SUBSET S : IsFiniteSet(U) /\ Cardinality(U) \in Nat
  BY FS_Subset, FS_CardinalityType
<1>2. Sizes \in SUBSET Nat /\ Sizes # {}
  BY <1>1
<1>3. PICK n \in Sizes : \A k \in Sizes : n <= k
  <2> HIDE DEF Sizes
  <2> QED
    BY <1>2, LeastNat
<1>4. PICK U \in Bad : n = Cardinality(U)
  BY <1>3
<1>5. ASSUME NEW V \in SUBSET U, V # U PROVE V \in G
  <2>1. IsFiniteSet(U) /\ Cardinality(U) \in Nat /\ Cardinality(V) \in Nat
    BY <1>1
  <2>2. Cardinality(V) <= Cardinality(U) /\ Cardinality(V) # Cardinality(U)
    BY <1>5, <2>1, FS_Subset
  <2>3. V \notin Bad
    BY <1>3, <1>4, <2>1, <2>2
  <2> QED
    BY <2>3
<1> QED
  BY <1>4, <1>5

\* The sum of a function over a set, as the readers sum up extents.
Total(f, S) == MapThenSumSet(LAMBDA x : f[x], S)

\* g sums up f over every part of S.
Adds(f, S, g) ==
  g = [T \in SUBSET S |-> IF T = {} THEN 0
                          ELSE f[CHOOSE x \in T : TRUE] + g[T \ {CHOOSE x \in T : TRUE}]]

LEMMA TotalIs ==
  ASSUME NEW f, NEW S
  PROVE  Total(f, S) = (CHOOSE g : Adds(f, S, g))[S]
BY DEF Total, MapThenSumSet, MapThenFoldSet, Adds

\* Two such functions agree where both are defined.
LEMMA AddsOnce ==
  ASSUME NEW f, NEW A, NEW B, NEW g, NEW h, Adds(f, A, g), Adds(f, B, h),
         NEW T, T \subseteq A, T \subseteq B, IsFiniteSet(T)
  PROVE  g[T] = h[T]
<1> DEFINE G == {U \in SUBSET T : g[U] = h[U]}
<1>1. ASSUME NEW U \in SUBSET T, \A V \in SUBSET U : V # U => V \in G PROVE U \in G
  <2>1. CASE U = {}
    BY <2>1 DEF Adds
  <2>2. CASE U # {}
    <3> DEFINE x == CHOOSE x \in U : TRUE
    <3>1. x \in U
      BY <2>2
    <3>2. g[U] = f[x] + g[U \ {x}] /\ h[U] = f[x] + h[U \ {x}]
      BY <2>2 DEF Adds
    <3>3. g[U \ {x}] = h[U \ {x}]
      BY <1>1, <3>1
    <3> QED
      BY <3>2, <3>3
  <2> QED
    BY <2>1, <2>2
<1> HIDE DEF G
<1>2. T \in G
  BY <1>1, FiniteInduction
<1> QED
  BY <1>2 DEF G

LEMMA AddsExist ==
  ASSUME NEW f, NEW S, IsFiniteSet(S)
  PROVE  \E g : Adds(f, S, g)
<1> DEFINE Sums(U) == CHOOSE g : Adds(f, U, g)
           G == {U \in SUBSET S : \E g : Adds(f, U, g)}
<1>1. \A U \in G : Adds(f, U, Sums(U))
  OBVIOUS
<1>2. \A U \in SUBSET S : IsFiniteSet(U)
  BY FS_Subset
<1>3. ASSUME NEW U \in SUBSET S, \A V \in SUBSET U : V # U => V \in G PROVE U \in G
  <2> DEFINE x == CHOOSE x \in U : TRUE
             h == [T \in SUBSET U |-> IF T # U THEN Sums(T)[T]
                                      ELSE IF U = {} THEN 0
                                      ELSE f[x] + Sums(U \ {x})[U \ {x}]]
  <2>1. ASSUME NEW T \in SUBSET U
        PROVE  h[T] = IF T = {} THEN 0
                      ELSE f[CHOOSE y \in T : TRUE] + h[T \ {CHOOSE y \in T : TRUE}]
    <3> DEFINE y == CHOOSE y \in T : TRUE
    <3>1. CASE T = {}
      <4>1. CASE T # U
        <5>1. h[T] = Sums(T)[T] /\ Adds(f, T, Sums(T))
          BY <1>1, <1>3, <4>1
        <5> HIDE DEF Sums, h
        <5> QED
          BY <3>1, <5>1 DEF Adds
      <4> QED
        BY <3>1, <4>1
    <3>2. CASE T # {}
      <4>1. y \in T /\ T \ {y} # U /\ T \ {y} \in SUBSET U
        BY <3>2
      <4>2. h[T \ {y}] = Sums(T \ {y})[T \ {y}]
        BY <4>1
      <4>3. CASE T = U
        BY <3>2, <4>2, <4>3
      <4>4. CASE T # U
        <5>1. h[T] = Sums(T)[T]
          BY <4>4
        <5>2. T \in G /\ T \ {y} \in G
          BY <1>3, <4>1, <4>4
        <5>3. Adds(f, T, Sums(T)) /\ Adds(f, T \ {y}, Sums(T \ {y}))
          BY <1>1, <5>2
        <5>4. IsFiniteSet(T \ {y})
          BY <1>2, <5>2
        <5> HIDE DEF Sums, h
        <5>5. Sums(T)[T] = f[y] + Sums(T)[T \ {y}]
          BY <3>2, <5>3 DEF Adds
        <5>6. Sums(T)[T \ {y}] = Sums(T \ {y})[T \ {y}]
          <6> HIDE DEF y
          <6> QED
            BY <5>3, <5>4, AddsOnce
        <5> QED
          BY <3>2, <4>2, <5>1, <5>5, <5>6
      <4> QED
        BY <4>3, <4>4
    <3> QED
      BY <3>1, <3>2
  <2>2. h = [T \in SUBSET U |-> h[T]]
    OBVIOUS
  <2>3. Adds(f, U, h)
    <3> HIDE DEF h
    <3> QED
      BY <2>1, <2>2 DEF Adds
  <2> QED
    BY <2>3
<1> HIDE DEF G
<1>4. S \in G
  BY <1>3, FiniteInduction
<1> QED
  BY <1>4 DEF G

\* The equation that sums satisfy.
LEMMA TotalChosen ==
  ASSUME NEW f, NEW S, IsFiniteSet(S)
  PROVE  /\ Total(f, {}) = 0
         /\ S # {} => LET x == CHOOSE x \in S : TRUE IN Total(f, S) = f[x] + Total(f, S \ {x})
<1> DEFINE Sums(U) == CHOOSE g : Adds(f, U, g)
<1>1. ASSUME NEW U, IsFiniteSet(U) PROVE Adds(f, U, Sums(U)) /\ Total(f, U) = Sums(U)[U]
  BY <1>1, AddsExist, TotalIs
<1>2. Total(f, {}) = 0
  <2>1. Adds(f, {}, Sums({})) /\ Total(f, {}) = Sums({})[{}]
    BY <1>1, FS_EmptySet
  <2> HIDE DEF Sums
  <2> QED
    BY <2>1 DEF Adds
<1>3. ASSUME S # {}
      PROVE  LET x == CHOOSE x \in S : TRUE IN Total(f, S) = f[x] + Total(f, S \ {x})
  <2> DEFINE x == CHOOSE x \in S : TRUE
             R == S \ {x}
  <2>1. IsFiniteSet(R)
    BY FS_Subset
  <2>2. Adds(f, S, Sums(S)) /\ Total(f, S) = Sums(S)[S]
    BY <1>1
  <2>3. Adds(f, R, Sums(R)) /\ Total(f, R) = Sums(R)[R]
    BY <1>1, <2>1
  <2> HIDE DEF Sums
  <2>4. Sums(S)[S] = f[x] + Sums(S)[R]
    BY <1>3, <2>2 DEF Adds
  <2>5. Sums(S)[R] = Sums(R)[R]
    <3> HIDE DEF x
    <3> QED
      BY <2>1, <2>2, <2>3, AddsOnce
  <2> QED
    BY <2>2, <2>3, <2>4, <2>5
<1> QED
  BY <1>2, <1>3

\* Any element can be taken out of a sum.
LEMMA TotalElement ==
  ASSUME NEW S, IsFiniteSet(S), NEW f, \A x \in S : f[x] \in Nat
  PROVE  /\ Total(f, S) \in Nat
         /\ \A x \in S : Total(f, S) = f[x] + Total(f, S \ {x})
<1> DEFINE Good(T) == /\ Total(f, T) \in Nat
                      /\ \A x \in T : Total(f, T) = f[x] + Total(f, T \ {x})
           G == {T \in SUBSET S : Good(T)}
<1>1. ASSUME NEW T \in SUBSET S, \A U \in SUBSET T : U # T => U \in G PROVE T \in G
  <2> DEFINE y == CHOOSE x \in T : TRUE
  <2>1. IsFiniteSet(T)
    BY FS_Subset
  <2>2. CASE T = {}
    <3>1. Total(f, T) = 0
      BY <2>1, <2>2, TotalChosen
    <3> QED
      BY <2>2, <3>1
  <2>3. CASE T # {}
    <3>1. y \in T
      BY <2>3
    <3>2. Total(f, T) = f[y] + Total(f, T \ {y})
      BY <2>1, <2>3, TotalChosen
    <3>3. \A U \in SUBSET T : U # T => Good(U)
      BY <1>1
    <3> HIDE DEF y
    <3>4. Total(f, T) \in Nat
      BY <3>1, <3>2, <3>3
    <3>5. ASSUME NEW x \in T PROVE Total(f, T) = f[x] + Total(f, T \ {x})
      <4>1. CASE x = y
        BY <3>2, <4>1
      <4>2. CASE x # y
        <5> DEFINE rest == Total(f, T \ {x, y})
        <5>1. (T \ {y}) \ {x} = T \ {x, y} /\ (T \ {x}) \ {y} = T \ {x, y}
          OBVIOUS
        <5>2. Total(f, T \ {y}) = f[x] + rest
          BY <3>1, <3>3, <4>2, <5>1
        <5>3. Total(f, T \ {x}) = f[y] + rest
          BY <3>1, <3>3, <4>2, <5>1
        <5>4. rest \in Nat /\ f[x] \in Nat /\ f[y] \in Nat
          BY <3>1, <3>3
        <5> HIDE DEF rest, Good
        <5> QED
          BY <3>2, <5>2, <5>3, <5>4
      <4> QED
        BY <4>1, <4>2
    <3> QED
      BY <3>4, <3>5
  <2> QED
    BY <2>2, <2>3
<1> HIDE DEF G
<1>2. S \in G
  BY <1>1, FiniteInduction
<1> QED
  BY <1>2 DEF G

\* Sums of functions that are the same on the set are the same.
LEMMA TotalSame ==
  ASSUME NEW S, IsFiniteSet(S), NEW f, NEW g, \A x \in S : f[x] = g[x]
  PROVE  Total(f, S) = Total(g, S)
<1> DEFINE G == {T \in SUBSET S : Total(f, T) = Total(g, T)}
<1>1. ASSUME NEW T \in SUBSET S, \A U \in SUBSET T : U # T => U \in G PROVE T \in G
  <2> DEFINE y == CHOOSE x \in T : TRUE
  <2>1. IsFiniteSet(T)
    BY FS_Subset
  <2>2. CASE T = {}
    BY <2>1, <2>2, TotalChosen
  <2>3. CASE T # {}
    <3>1. y \in T /\ f[y] = g[y] /\ T \ {y} \in G
      BY <1>1, <2>3
    <3>2. Total(f, T) = f[y] + Total(f, T \ {y}) /\ Total(g, T) = g[y] + Total(g, T \ {y})
      BY <2>1, <2>3, TotalChosen
    <3> QED
      BY <3>1, <3>2
  <2> QED
    BY <2>2, <2>3
<1> HIDE DEF G
<1>2. S \in G
  BY <1>1, FiniteInduction
<1> QED
  BY <1>2 DEF G

\* The sum over two sets that are apart.
LEMMA TotalUnion ==
  ASSUME NEW A, NEW B, IsFiniteSet(A), IsFiniteSet(B), A \cap B = {},
         NEW f, \A x \in A \cup B : f[x] \in Nat
  PROVE  Total(f, A \cup B) = Total(f, A) + Total(f, B)
<1> DEFINE G == {T \in SUBSET A : Total(f, T \cup B) = Total(f, T) + Total(f, B)}
<1>1. Total(f, B) \in Nat
  BY TotalElement
<1>2. ASSUME NEW T \in SUBSET A, \A U \in SUBSET T : U # T => U \in G PROVE T \in G
  <2>1. IsFiniteSet(T) /\ IsFiniteSet(T \cup B)
    BY FS_Subset, FS_Union
  <2>2. CASE T = {}
    <3>1. Total(f, T) = 0 /\ T \cup B = B
      BY <2>1, <2>2, TotalChosen
    <3> QED
      BY <1>1, <3>1
  <2>3. CASE T # {}
    <3>1. PICK x \in T : TRUE
      BY <2>3
    <3>2. Total(f, (T \cup B) \ {x}) = Total(f, T \ {x}) + Total(f, B)
      <4>1. T \ {x} \in G /\ (T \cup B) \ {x} = (T \ {x}) \cup B
        BY <1>2
      <4> QED
        BY <4>1
    <3>3. Total(f, T) = f[x] + Total(f, T \ {x})
      BY <2>1, TotalElement
    <3>4. Total(f, T \cup B) = f[x] + Total(f, (T \cup B) \ {x})
      BY <2>1, TotalElement
    <3>5. Total(f, T \ {x}) \in Nat /\ f[x] \in Nat
      <4>1. IsFiniteSet(T \ {x})
        BY <2>1, FS_Subset
      <4> QED
        BY <4>1, TotalElement
    <3>6. T \in G <=> Total(f, T \cup B) = Total(f, T) + Total(f, B)
      OBVIOUS
    <3> HIDE DEF G
    <3> QED
      BY <1>1, <3>2, <3>3, <3>4, <3>5, <3>6
  <2> QED
    BY <2>2, <2>3
<1> HIDE DEF G
<1>3. A \in G
  BY <1>2, FiniteInduction
<1> QED
  BY <1>3 DEF G

\* A sum has something exactly where one of its terms has.
LEMMA TotalPositive ==
  ASSUME NEW S, IsFiniteSet(S), NEW f, \A x \in S : f[x] \in Nat
  PROVE  Total(f, S) > 0 <=> \E x \in S : f[x] > 0
<1> DEFINE G == {T \in SUBSET S : Total(f, T) > 0 <=> \E x \in T : f[x] > 0}
<1>1. ASSUME NEW T \in SUBSET S, \A U \in SUBSET T : U # T => U \in G PROVE T \in G
  <2>1. IsFiniteSet(T)
    BY FS_Subset
  <2>2. CASE T = {}
    <3>1. Total(f, T) = 0
      BY <2>1, <2>2, TotalChosen
    <3> QED
      BY <2>2, <3>1
  <2>3. CASE T # {}
    <3>1. PICK x \in T : TRUE
      BY <2>3
    <3>2. T \ {x} \in G
      BY <1>1
    <3>3. Total(f, T) = f[x] + Total(f, T \ {x})
      BY <2>1, TotalElement
    <3>4. Total(f, T \ {x}) \in Nat /\ f[x] \in Nat
      <4>1. IsFiniteSet(T \ {x})
        BY <2>1, FS_Subset
      <4> QED
        BY <4>1, TotalElement
    <3> QED
      BY <3>2, <3>3, <3>4
  <2> QED
    BY <2>2, <2>3
<1> HIDE DEF G
<1>2. S \in G
  BY <1>1, FiniteInduction
<1> QED
  BY <1>2 DEF G

\* Small sums.
LEMMA TotalAdd ==
  ASSUME NEW S, IsFiniteSet(S), NEW a, a \notin S, NEW f, \A x \in S \cup {a} : f[x] \in Nat
  PROVE  Total(f, S \cup {a}) = Total(f, S) + f[a]
<1>1. IsFiniteSet(S \cup {a})
  BY FS_AddElement
<1>2. (S \cup {a}) \ {a} = S
  OBVIOUS
<1>3. Total(f, S) \in Nat
  BY TotalElement
<1> QED
  BY <1>1, <1>2, <1>3, TotalElement

LEMMA TotalSmall ==
  ASSUME NEW f
  PROVE  /\ Total(f, {}) = 0
         /\ \A a : f[a] \in Nat => Total(f, {a}) = f[a]
<1>1. Total(f, {}) = 0 /\ IsFiniteSet({})
  BY FS_EmptySet, TotalChosen
<1>2. ASSUME NEW a, f[a] \in Nat PROVE Total(f, {a}) = f[a]
  <2>1. Total(f, {} \cup {a}) = Total(f, {}) + f[a]
    BY <1>1, <1>2, TotalAdd
  <2>2. {} \cup {a} = {a}
    OBVIOUS
  <2> QED
    BY <1>1, <1>2, <2>1, <2>2
<1> QED
  BY <1>1, <1>2

LEMMA TotalPair ==
  ASSUME NEW f, NEW S, NEW a \in S, NEW b \in S, a # b, \A x \in S : x = a \/ x = b,
         f[a] \in Nat, f[b] \in Nat
  PROVE  Total(f, S) = f[a] + f[b]
<1>1. IsFiniteSet({a}) /\ S = {a} \cup {b}
  BY FS_Singleton
<1>2. Total(f, {a} \cup {b}) = Total(f, {a}) + f[b]
  BY <1>1, TotalAdd
<1> QED
  BY <1>1, <1>2, TotalSmall

\* Sums over disjoint parts, one for each element of L, add up to the sum over all.
LEMMA TotalParts ==
  ASSUME NEW L, IsFiniteSet(L), NEW Part,
         \A l \in L : IsFiniteSet(Part[l]),
         \A l, k \in L : l # k => Part[l] \cap Part[k] = {},
         NEW f, \A l \in L : \A x \in Part[l] : f[x] \in Nat,
         NEW g, \A l \in L : g[l] = Total(f, Part[l])
  PROVE  Total(g, L) = Total(f, UNION {Part[l] : l \in L})
<1> DEFINE All(K) == UNION {Part[l] : l \in K}
           G == {K \in SUBSET L : IsFiniteSet(All(K)) /\ Total(g, K) = Total(f, All(K))}
<1>1. \A l \in L : g[l] \in Nat
  BY TotalElement
<1>2. ASSUME NEW K \in SUBSET L, \A U \in SUBSET K : U # K => U \in G PROVE K \in G
  <2>1. IsFiniteSet(K)
    BY FS_Subset
  <2>2. CASE K = {}
    <3>1. All(K) = {}
      BY <2>2
    <3> HIDE DEF All
    <3> QED
      BY <2>2, <3>1, FS_EmptySet, TotalSmall
  <2>3. CASE K # {}
    <3>1. PICK l \in K : TRUE
      BY <2>3
    <3> DEFINE rest == All(K \ {l})
    <3>2. IsFiniteSet(rest) /\ Total(g, K \ {l}) = Total(f, rest)
      BY <1>2
    <3>3. All(K) = Part[l] \cup rest /\ Part[l] \cap rest = {}
      OBVIOUS
    <3>4. IsFiniteSet(Part[l]) /\ g[l] = Total(f, Part[l])
      OBVIOUS
    <3>5. Total(g, K) = g[l] + Total(g, K \ {l})
      BY <1>1, <2>1, TotalElement
    <3>6. \A x \in Part[l] \cup rest : f[x] \in Nat
      OBVIOUS
    <3> HIDE DEF rest
    <3>7. Total(f, Part[l] \cup rest) = Total(f, Part[l]) + Total(f, rest)
      BY <3>2, <3>3, <3>4, <3>6, TotalUnion
    <3>8. IsFiniteSet(Part[l] \cup rest)
      BY <3>2, <3>4, FS_Union
    <3>9. IsFiniteSet(All(K)) /\ Total(g, K) = Total(f, All(K))
      BY <3>2, <3>3, <3>4, <3>5, <3>7, <3>8
    <3> QED
      BY <3>9
  <2> QED
    BY <2>2, <2>3
<1> HIDE DEF G
<1>3. L \in G
  BY <1>2, FiniteInduction
<1> QED
  BY <1>3 DEF G
USE LogicalAssumption DEF LogicalAssumption

-------------------------------------------------------------------------------
(***************************************************************************)
(* Types.                                                                  *)
(***************************************************************************)

\* What a command writes.
LEMMA SegmentTypes ==
  /\ \A n \in Nat, a \in Seq(PVs) : OnAreas(n, a) \in Segments
  /\ \A n \in Nat, r \in SUBSET Names : OnVolumes(n, r) \in Segments
  /\ \A s \in Segments : Volume(s) \in Volumes /\ Hidden(s) \in Volumes
  BY DEF OnAreas, OnVolumes, Segments, Volume, Hidden, Volumes

LEMMA AreaTypes ==
  ASSUME NEW p \in PVs, NEW q \in PVs
  PROVE  /\ OnAreas(2, << p >>) \in Segments
         /\ OnAreas(1, << p >>) \in Segments
         /\ OnAreas(2, << p, q >>) \in Segments
<1>1. << p >> \in Seq(PVs) /\ << p, q >> \in Seq(PVs)
  OBVIOUS
<1> QED
  BY <1>1, SegmentTypes

\* A command keeps the types, when what it writes is of them.
LEMMA WriteTypes ==
  ASSUME TypeOK, NEW l \in LVs, NEW new, NEW on \in [PVs -> Nat], NEW lies \in SUBSET LVs,
         \A n \in DOMAIN new : new[n] \in Volumes \cup {NoLv},
         Write(l, new, on, lies),
         legs' \in [LVs \X {0, 1} -> {"A", "a", "D", "none"}]
  PROVE  TypeOK'
<1>1. lvs' \in [Names -> Volumes \cup {NoLv}]
  BY DEF Write, TypeOK
<1>2. held' \in [LVs -> [PVs -> Nat]] /\ basis' \in [LVs -> SUBSET LVs]
  BY DEF Write, TypeOK
<1>3. changes' \in Nat
  BY DEF Write, Change, TypeOK
<1> QED
  BY <1>1, <1>2, <1>3 DEF Write, Change, TypeOK, pollVars

LEMMA CommandTypes ==
  ASSUME TypeOK, NEW l \in LVs, NEW new, NEW on \in [PVs -> Nat], NEW lies \in SUBSET LVs,
         \A n \in DOMAIN new : new[n] \in Volumes \cup {NoLv},
         Command(l, new, on, lies)
  PROVE  TypeOK'
<1>1. legs' \in [LVs \X {0, 1} -> {"A", "a", "D", "none"}]
  BY DEF Command, TypeOK
<1> QED
  BY <1>1, WriteTypes DEF Command

\* Extents on one PV, and on two.
LEMMA HeldTypes ==
  ASSUME NEW p \in PVs, NEW q \in PVs, NEW n \in Nat, NEW k \in Nat
  PROVE  /\ Nowhere \in [PVs -> Nat]
         /\ On(p, n) \in [PVs -> Nat]
         /\ OnBoth(p, q, n, k) \in [PVs -> Nat]
  BY DEF Nowhere, On, OnBoth

LEMMA SubNames ==
  ASSUME NEW l \in LVs
  PROVE  /\ l \in Names
         /\ \A i \in {0, 1} : << l, "rimage", i >> \in Names /\ << l, "rmeta", i >> \in Names
         /\ << l, "tdata", 0 >> \in Names /\ << l, "tmeta", 0 >> \in Names
         /\ << l, "corig", 0 >> \in Names
  BY DEF Names, Subs

LEMMA CreateTypes ==
  ASSUME TypeOK, NEW l \in LVs, NEW p \in PVs, NEW q \in PVs,
         CreateLinear(l, p) \/ CreateStriped(l, p, q) \/ CreatePool(l, p, q)
  PROVE  TypeOK'
<1>1. CASE CreateLinear(l, p)
  <2> DEFINE new == [n \in {l} |-> Volume(OnAreas(2, << p >>))]
  <2>1. \A n \in DOMAIN new : new[n] \in Volumes \cup {NoLv}
    BY AreaTypes, SegmentTypes
  <2>2. Command(l, new, On(p, 2), {l})
    BY <1>1 DEF CreateLinear
  <2>3. On(p, 2) \in [PVs -> Nat] /\ {l} \in SUBSET LVs
    BY HeldTypes
  <2> HIDE DEF new
  <2> QED
    BY <2>1, <2>2, <2>3, CommandTypes
<1>2. CASE CreateStriped(l, p, q)
  <2> DEFINE new == [n \in {l} |-> Volume(OnAreas(2, << p, q >>))]
  <2>1. \A n \in DOMAIN new : new[n] \in Volumes \cup {NoLv}
    BY AreaTypes, SegmentTypes
  <2>2. Command(l, new, OnBoth(p, q, 1, 1), {l})
    BY <1>2 DEF CreateStriped
  <2>3. OnBoth(p, q, 1, 1) \in [PVs -> Nat] /\ {l} \in SUBSET LVs
    BY HeldTypes
  <2> HIDE DEF new
  <2> QED
    BY <2>1, <2>2, <2>3, CommandTypes
<1>3. CASE CreatePool(l, p, q)
  <2> DEFINE data == << l, "tdata", 0 >>
             meta == << l, "tmeta", 0 >>
             new == [n \in {l, data, meta} |->
                      IF n = l THEN Volume(OnVolumes(2, {data, meta}))
                      ELSE IF n = data THEN Hidden(OnAreas(2, << p >>))
                      ELSE Hidden(OnAreas(1, << q >>))]
  <2>1. {data, meta} \in SUBSET Names
    BY SubNames
  <2>2. Volume(OnVolumes(2, {data, meta})) \in Volumes
    BY <2>1, SegmentTypes
  <2>3. Hidden(OnAreas(2, << p >>)) \in Volumes /\ Hidden(OnAreas(1, << q >>)) \in Volumes
    BY AreaTypes, SegmentTypes
  <2>4. \A n \in DOMAIN new : new[n] \in Volumes \cup {NoLv}
    BY <2>2, <2>3
  <2>5. Command(l, new, OnBoth(p, q, 2, 1), {l})
    BY <1>3 DEF CreatePool
  <2>6. OnBoth(p, q, 2, 1) \in [PVs -> Nat] /\ {l} \in SUBSET LVs
    BY HeldTypes
  <2> HIDE DEF new
  <2> QED
    BY <2>4, <2>5, <2>6, CommandTypes
<1> QED
  BY <1>1, <1>2, <1>3

LEMMA ThinTypes ==
  ASSUME TypeOK, NEW l \in LVs, NEW k \in LVs, CreateThin(l, k) \/ Snapshot(l, k)
  PROVE  TypeOK'
<1>1. CASE CreateThin(l, k)
  <2> DEFINE new == [n \in {l} |-> Volume(OnVolumes(2, {k}))]
  <2>1. {k} \in SUBSET Names
    BY SubNames
  <2>2. \A n \in DOMAIN new : new[n] \in Volumes \cup {NoLv}
    BY <2>1, SegmentTypes
  <2>3. Command(l, new, Nowhere, {k})
    BY <1>1 DEF CreateThin
  <2>4. Nowhere \in [PVs -> Nat] /\ {k} \in SUBSET LVs
    BY DEF Nowhere
  <2> HIDE DEF new
  <2> QED
    BY <2>2, <2>3, <2>4, CommandTypes
<1>2. CASE Snapshot(l, k)
  <2> DEFINE pool == CHOOSE x \in basis[k] : TRUE
  <2>1. pool \in LVs
    BY <1>2 DEF Snapshot, IsThin, TypeOK
  <2>2. {pool, k} \in SUBSET Names
    BY <2>1, SubNames
  <2>3. Volume(OnVolumes(2, {pool, k})) \in Volumes
    BY <2>2, SegmentTypes
  <2> DEFINE new == [n \in {l} |-> Volume(OnVolumes(2, {pool, k}))]
  <2>4. Command(l, new, Nowhere, {pool})
    BY <1>2 DEF Snapshot
  <2>5. \A n \in DOMAIN new : new[n] \in Volumes \cup {NoLv}
    BY <2>3
  <2>6. Nowhere \in [PVs -> Nat] /\ {pool} \in SUBSET LVs
    BY <2>1 DEF Nowhere
  <2> HIDE DEF pool, new
  <2> QED
    BY <2>4, <2>5, <2>6, CommandTypes
<1> QED
  BY <1>1, <1>2

LEMMA RaidTypes ==
  ASSUME TypeOK, NEW l \in LVs, NEW p \in PVs, NEW q \in PVs, CreateRaid(l, p, q)
  PROVE  TypeOK'
<1> DEFINE Leg(i) == {<< l, "rimage", i >>, << l, "rmeta", i >>}
           new == [n \in {l} \cup Leg(0) \cup Leg(1) |->
                    IF n = l THEN Volume(OnVolumes(2, Leg(0) \cup Leg(1)))
                    ELSE Hidden(OnAreas(IF n[2] = "rimage" THEN 2 ELSE 1,
                                        << IF n[3] = 0 THEN p ELSE q >>))]
<1>1. Leg(0) \cup Leg(1) \in SUBSET Names
  BY SubNames
<1>2. Volume(OnVolumes(2, Leg(0) \cup Leg(1))) \in Volumes
  <2> HIDE DEF Leg
  <2> QED
    BY <1>1, SegmentTypes
<1>3. \A c \in {1, 2}, x \in {p, q} : Hidden(OnAreas(c, << x >>)) \in Volumes
  BY AreaTypes, SegmentTypes
<1>4. \A n \in DOMAIN new : new[n] \in Volumes \cup {NoLv}
  <2>1. ASSUME NEW n \in DOMAIN new, n # l PROVE new[n] \in Volumes
    <3>1. PICK c \in {1, 2}, x \in {p, q} :
            /\ c = IF n[2] = "rimage" THEN 2 ELSE 1
            /\ x = IF n[3] = 0 THEN p ELSE q
      OBVIOUS
    <3>2. new[n] = Hidden(OnAreas(c, << x >>))
      BY <2>1, <3>1
    <3> HIDE DEF new
    <3> QED
      BY <1>3, <3>2
  <2>2. new[l] \in Volumes
    BY <1>2
  <2> HIDE DEF new
  <2> QED
    BY <2>1, <2>2
<1>5. Write(l, new, OnBoth(p, q, 3, 3), {l})
  BY DEF CreateRaid
<1>6. legs' \in [LVs \X {0, 1} -> {"A", "a", "D", "none"}]
  BY DEF CreateRaid, TypeOK
<1>7. OnBoth(p, q, 3, 3) \in [PVs -> Nat] /\ {l} \in SUBSET LVs
  BY HeldTypes
<1> HIDE DEF new
<1> QED
  BY <1>4, <1>5, <1>6, <1>7, WriteTypes

LEMMA ExtendTypes ==
  ASSUME TypeOK, NEW l \in LVs, NEW p \in PVs, Extend(l, p)
  PROVE  TypeOK'
<1>1. lvs[l] \in Volumes
  BY SubNames DEF Extend, OwnAreas, Visible, Exists, TypeOK
<1>2. lvs[l].segs \in Seq(Segments) /\ OnAreas(1, << p >>) \in Segments
  BY <1>1, AreaTypes DEF Volumes
<1>3. Append(lvs[l].segs, OnAreas(1, << p >>)) \in Seq(Segments)
  BY <1>2
<1>4. [lvs[l] EXCEPT !.segs = Append(@, OnAreas(1, << p >>))] \in Volumes
  BY <1>1, <1>3 DEF Volumes
<1>5. [held[l] EXCEPT ![p] = @ + 1] \in [PVs -> Nat] /\ {l} \in SUBSET LVs
  BY DEF TypeOK
<1> DEFINE new == [n \in {l} |-> [lvs[l] EXCEPT !.segs = Append(@, OnAreas(1, << p >>))]]
<1>6. \A n \in DOMAIN new : new[n] \in Volumes \cup {NoLv}
  BY <1>4
<1>7. Command(l, new, [held[l] EXCEPT ![p] = @ + 1], {l})
  BY DEF Extend
<1> HIDE DEF new
<1> QED
  BY <1>5, <1>6, <1>7, CommandTypes

LEMMA CacheTypes ==
  ASSUME TypeOK, NEW l \in LVs, NEW k \in LVs, Cache(l, k)
  PROVE  TypeOK'
<1> DEFINE orig == << l, "corig", 0 >>
           new == [n \in {l, orig, k} |->
                    IF n = l THEN Volume(OnVolumes(2, {orig, k}))
                    ELSE IF n = orig THEN [lvs[l] EXCEPT !.visible = FALSE]
                    ELSE [lvs[k] EXCEPT !.visible = FALSE]]
<1>1. {orig, k} \in SUBSET Names
  BY SubNames
<1>2. Volume(OnVolumes(2, {orig, k})) \in Volumes
  BY <1>1, SegmentTypes
<1>3. lvs[l] \in Volumes /\ lvs[k] \in Volumes
  BY SubNames DEF Cache, OwnAreas, Visible, Exists, TypeOK
<1>4. [lvs[l] EXCEPT !.visible = FALSE] \in Volumes /\ [lvs[k] EXCEPT !.visible = FALSE] \in Volumes
  BY <1>3 DEF Volumes
<1>5. \A n \in DOMAIN new : new[n] \in Volumes \cup {NoLv}
  BY <1>2, <1>4
<1>6. Command(l, new, held[l], {l, k})
  BY DEF Cache
<1>7. held[l] \in [PVs -> Nat]
  BY DEF TypeOK
<1> HIDE DEF new
<1> QED
  BY <1>5, <1>6, <1>7, CommandTypes

\* What is left of a volume that names l.
Unnamed(seg, l) == [seg EXCEPT !.refs = @ \ {l}]
Less(v, l) == [v EXCEPT !.segs = [i \in DOMAIN @ |-> Unnamed(@[i], l)]]

LEMMA LessTypes ==
  ASSUME NEW v \in Volumes, NEW l
  PROVE  /\ Less(v, l) \in Volumes /\ Less(v, l).visible = v.visible
         /\ DOMAIN Less(v, l).segs = DOMAIN v.segs
         /\ \A i \in DOMAIN v.segs : Less(v, l).segs[i] = Unnamed(v.segs[i], l)
<1> DEFINE segs == [i \in DOMAIN v.segs |-> Unnamed(v.segs[i], l)]
<1>1. v = [visible |-> v.visible, segs |-> v.segs] /\ v.segs \in Seq(Segments)
  BY DEF Volumes
<1>2. segs \in Seq(Segments)
  <2>1. Len(v.segs) \in Nat /\ DOMAIN v.segs = 1 .. Len(v.segs)
    BY <1>1
  <2>2. \A s \in Segments : Unnamed(s, l) \in Segments
    BY DEF Segments, Unnamed
  <2>3. segs \in [1 .. Len(v.segs) -> Segments]
    BY <1>1, <2>1, <2>2
  <2> HIDE DEF segs
  <2> QED
    BY <2>1, <2>3
<1>3. Less(v, l) = [v EXCEPT !.segs = segs]
  BY DEF Less
<1>4. DOMAIN segs = DOMAIN v.segs
      /\ \A i \in DOMAIN v.segs : segs[i] = Unnamed(v.segs[i], l)
  OBVIOUS
<1> HIDE DEF segs
<1> QED
  BY <1>1, <1>2, <1>3, <1>4 DEF Volumes

LEMMA RemoveTypes ==
  ASSUME TypeOK, NEW l \in LVs, Remove(l)
  PROVE  TypeOK'
<1>1. \A n \in Names : lvs'[n] \in {NoLv, Less(lvs[n], l)} /\ (~Exists(n) => lvs'[n] = NoLv)
  BY DEF Remove, Less, Unnamed
<1>2. lvs' \in [Names -> Volumes \cup {NoLv}]
  <2>1. DOMAIN lvs' = Names /\ lvs' = [n \in Names |-> lvs'[n]]
    BY DEF Remove
  <2> QED
    BY <1>1, <2>1, LessTypes DEF Exists, TypeOK
<1>3. /\ held' \in [LVs -> [PVs -> Nat]]
      /\ basis' \in [LVs -> SUBSET LVs]
      /\ legs' \in [LVs \X {0, 1} -> {"A", "a", "D", "none"}]
  BY DEF Remove, TypeOK, Nowhere
<1>4. changes' \in Nat
  BY DEF Remove, Change, TypeOK
<1> QED
  BY <1>2, <1>3, <1>4 DEF Remove, Change, TypeOK, pollVars

LEMMA DiskTypes ==
  ASSUME TypeOK, NEW d \in Disks, Unplug(d) \/ Plug(d)
  PROVE  TypeOK'
<1>1. gone' \subseteq Disks /\ legs' \in [LVs \X {0, 1} -> {"A", "a", "D", "none"}]
  <2>1. gone \subseteq Disks /\ legs \in [LVs \X {0, 1} -> {"A", "a", "D", "none"}]
    BY DEF TypeOK
  <2> QED
    BY <2>1 DEF Unplug, Plug
<1>2. changes' \in Nat
  BY DEF Unplug, Plug, Change, TypeOK
<1>3. torn' \in BOOLEAN
  BY DEF Unplug, Plug
<1>4. UNCHANGED << lvs, held, basis, mounts, pollVars, kept, away, mute >>
  BY DEF Unplug, Plug, Change
<1> QED
  BY <1>1, <1>2, <1>3, <1>4 DEF TypeOK, pollVars

LEMMA LegTypes ==
  ASSUME TypeOK, NEW l \in LVs, Refresh(l) \/ Synced(l)
  PROVE  TypeOK'
<1>1. legs' \in [LVs \X {0, 1} -> {"A", "a", "D", "none"}]
  BY DEF Refresh, Synced, TypeOK
<1>2. changes' \in Nat
  BY DEF Refresh, Synced, Change, TypeOK
<1>3. torn' \in BOOLEAN
  BY DEF Refresh, Synced
<1>4. UNCHANGED << lvs, gone, held, basis, mounts, pollVars, kept, away, mute >>
  BY DEF Refresh, Synced, Change
<1> QED
  BY <1>1, <1>2, <1>3, <1>4 DEF TypeOK, pollVars

LEMMA AttachTypes ==
  ASSUME TypeOK, NEW m \in Mounts, Attach(m)
  PROVE  TypeOK'
<1>1. mounts' \in Seq(Mounts)
  BY DEF Attach, TypeOK
<1>2. changes' \in Nat
  BY DEF Attach, Change, TypeOK
<1> QED
  BY <1>1, <1>2 DEF Attach, Change, TypeOK, pollVars, hostVars

LEMMA MountTypes ==
  ASSUME TypeOK, NEW i \in DOMAIN mounts
  PROVE  mounts[i] \in Mounts /\ mounts[i].fs \in FsHolders /\ mounts[i].mnt \in MountPoints
<1>1. mounts \in Seq(Mounts)
  BY DEF TypeOK
<1>2. mounts[i] \in Mounts
  BY <1>1
<1> QED
  BY <1>2 DEF Mounts

LEMMA HostTypes ==
  ASSUME TypeOK, Host PROVE TypeOK'
<1>1. ASSUME NEW d \in Disks, Unplug(d) \/ Plug(d) PROVE TypeOK'
  BY <1>1, DiskTypes
<1>2. ASSUME NEW fs \in FsHolders, NEW mnt \in MountPoints, Mount(fs, mnt) PROVE TypeOK'
  <2>1. [fs |-> fs, root |-> "/", mnt |-> mnt] \in Mounts
    BY DEF Mounts
  <2> QED
    BY <1>2, <2>1, AttachTypes DEF Mount
<1>3. ASSUME NEW i \in DOMAIN mounts, NEW mnt \in MountPoints, Bind(i, mnt) PROVE TypeOK'
  <2>1. [fs |-> mounts[i].fs, root |-> "dir", mnt |-> mnt] \in Mounts
    BY MountTypes DEF Mounts
  <2> QED
    BY <1>3, <2>1, AttachTypes DEF Bind
<1>4. ASSUME NEW i \in DOMAIN mounts, Umount(i) PROVE TypeOK'
  <2>1. mounts \in Seq(Mounts) /\ i \in 1 .. Len(mounts)
    BY DEF TypeOK
  <2>2. mounts' \in Seq(Mounts)
    BY <1>4, <2>1 DEF Umount
  <2>3. changes' \in Nat
    BY <1>4 DEF Umount, Change, TypeOK
  <2>4. kept' \subseteq Mounts
    BY <1>4 DEF Umount, TypeOK
  <2>5. UNCHANGED << hostVars, pollVars, away, mute, torn >>
    BY <1>4 DEF Umount, Change
  <2> QED
    BY <2>2, <2>3, <2>4, <2>5 DEF TypeOK, pollVars, hostVars
<1> QED
  BY <1>1, <1>2, <1>3, <1>4 DEF Host

\* What a poll works out.
LEMMA DiskReads ==
  ASSUME TypeOK, NEW n \in Nodes PROVE DisksOf(n) \in SUBSET Disks
BY DEF DisksOf, WholeDisks, TypeOK

LEMMA ViewTypes ==
  ASSUME TypeOK, NEW m \in listed
  PROVE  /\ ViewOf(m) \in Views
         /\ ViewOf(m).fs = m.fs /\ ViewOf(m).mnt = m.mnt
<1>1. m.fs \in FsHolders /\ m.mnt \in MountPoints
  BY DEF TypeOK, Mounts
<1>2. m.fs \in Nodes
  BY <1>1 DEF FsHolders, Nodes, Devs
<1> DEFINE lv == IF m.fs \in LVs /\ DeviceThere(m.fs) THEN m.fs ELSE NoLv
           laid == lv # NoLv /\ layout[m.fs] # NoLv
           pvs == IF laid THEN layout[m.fs] ELSE {}
           disks == IF laid THEN UNION {DisksOf(DeviceOf[p]) : p \in pvs \cap attached}
                    ELSE IF DeviceThere(m.fs) THEN DisksOf(m.fs) ELSE {}
<1>3. lv \in LVs \cup {NoLv}
  OBVIOUS
<1>4. pvs \in SUBSET PVs
  BY DEF TypeOK
<1>5. disks \in SUBSET Disks
  <2>1. CASE laid
    <3>1. \A p \in PVs : DisksOf(DeviceOf[p]) \in SUBSET Disks
      BY DiskReads DEF Nodes
    <3> HIDE DEF laid
    <3> QED
      BY <1>4, <2>1, <3>1
  <2>2. CASE ~laid
    <3>1. DisksOf(m.fs) \in SUBSET Disks
      BY <1>2, DiskReads
    <3> HIDE DEF laid
    <3> QED
      BY <2>2, <3>1
  <2> QED
    BY <2>1, <2>2
<1>6. ViewOf(m) = [fs |-> m.fs, mnt |-> m.mnt, lv |-> lv, pvs |-> pvs, disks |-> disks]
  BY DEF ViewOf
<1> HIDE DEF lv, laid, pvs, disks
<1> QED
  BY <1>1, <1>3, <1>4, <1>5, <1>6 DEF Views

LEMMA PollTypes ==
  ASSUME TypeOK, Poll PROVE TypeOK'
<1>1. CASE ReadFilesystems
  <2>1. listed' \subseteq Mounts /\ kept' \subseteq Mounts
    BY <1>1, MountTypes DEF ReadFilesystems, ListedOf, TypeOK
  <2>2. away' \subseteq MountPoints /\ mute' \subseteq FsHolders
    BY <1>1 DEF ReadFilesystems
  <2> QED
    BY <1>1, <2>1, <2>2 DEF ReadFilesystems, TypeOK, hostVars
<1>2. CASE ReadMissing
  BY <1>2 DEF ReadMissing, TypeOK, hostVars
<1>3. CASE ReadVgs
  <2>1. layout' \in [LVs -> {NoLv} \cup SUBSET PVs]
    BY <1>3 DEF ReadVgs, LayoutOf
  <2>2. attached' \subseteq PVs /\ degraded' \subseteq Arrays
    BY <1>3 DEF ReadVgs
  <2> QED
    BY <1>3, <2>1, <2>2 DEF ReadVgs, TypeOK, hostVars
<1>4. CASE Collect
  <2>1. cache' \in [Nodes -> {Unread} \cup SUBSET Disks]
    BY <1>4, DiskReads DEF Collect, TypeOK
  <2>2. {ViewOf(m) : m \in listed} \in SUBSET Views
    BY ViewTypes
  <2>3. Lost \in SUBSET PVs /\ degraded \in SUBSET Arrays /\ missing \in SUBSET Fstab
    BY DEF Lost, TypeOK
  <2>4. PICK known \in {{}, {l \in LVs : IsRaid(l)}} :
          current' = [fss |-> {ViewOf(m) : m \in listed}, missing |-> missing,
                      lost |-> Lost, arrays |-> degraded, known |-> known,
                      raids   |-> {l \in known : Failed(l)},
                      resyncs |-> {l \in known : Resyncing(l)}]
    BY <1>4 DEF Collect
  <2>5. /\ known \in SUBSET LVs
        /\ {l \in known : Failed(l)} \in SUBSET LVs
        /\ {l \in known : Resyncing(l)} \in SUBSET LVs
    OBVIOUS
  <2>6. current' \in [fss : SUBSET Views, missing : SUBSET Fstab, lost : SUBSET PVs,
                      arrays : SUBSET Arrays, known : SUBSET LVs, raids : SUBSET LVs,
                      resyncs : SUBSET LVs]
    BY <2>2, <2>3, <2>4, <2>5
  <2>7. layout' \in [LVs -> {NoLv} \cup SUBSET PVs]
    BY <1>4 DEF Collect
  <2> QED
    BY <1>4, <2>1, <2>6, <2>7 DEF Collect, TypeOK, hostVars
<1> QED
  BY <1>1, <1>2, <1>3, <1>4 DEF Poll

LEMMA TypeStep ==
  ASSUME TypeOK, [Next]_vars PROVE TypeOK'
<1>1. CASE Poll
  BY <1>1, PollTypes
<1>2. CASE Host
  BY <1>2, HostTypes
<1>3. CASE Lvm
  <2>1. ASSUME NEW l \in LVs, NEW p \in PVs, CreateLinear(l, p) \/ Extend(l, p) PROVE TypeOK'
    BY <2>1, CreateTypes, ExtendTypes
  <2>2. ASSUME NEW l \in LVs, NEW p \in PVs, NEW q \in PVs,
               CreateStriped(l, p, q) \/ CreateRaid(l, p, q) \/ CreatePool(l, p, q)
        PROVE  TypeOK'
    BY <2>2, CreateTypes, RaidTypes
  <2>3. ASSUME NEW l \in LVs, NEW k \in LVs, CreateThin(l, k) \/ Snapshot(l, k) PROVE TypeOK'
    BY <2>3, ThinTypes
  <2>4. ASSUME NEW l \in LVs, NEW k \in LVs, Cache(l, k) PROVE TypeOK'
    BY <2>4, CacheTypes
  <2>5. ASSUME NEW l \in LVs, Remove(l) \/ Refresh(l) \/ Synced(l) PROVE TypeOK'
    BY <2>5, RemoveTypes, LegTypes
  <2> QED
    BY <1>3, <2>1, <2>2, <2>3, <2>4, <2>5 DEF Lvm
<1>4. CASE UNCHANGED vars
  BY <1>4 DEF TypeOK, vars, hostVars, pollVars
<1> QED
  BY <1>1, <1>2, <1>3, <1>4 DEF Next

LEMMA InitTypes == Init => TypeOK
<1>1. Init => /\ lvs \in [Names -> Volumes \cup {NoLv}]
              /\ legs \in [LVs \X {0, 1} -> {"A", "a", "D", "none"}]
              /\ layout \in [LVs -> {NoLv} \cup SUBSET PVs]
              /\ cache \in [Nodes -> {Unread} \cup SUBSET Disks]
              /\ held \in [LVs -> [PVs -> Nat]]
              /\ basis \in [LVs -> SUBSET LVs]
  BY DEF Init, Nowhere
<1>2. Init => current \in [fss : SUBSET Views, missing : SUBSET Fstab, lost : SUBSET PVs,
                           arrays : SUBSET Arrays, known : SUBSET LVs, raids : SUBSET LVs,
                           resyncs : SUBSET LVs]
  BY DEF Init
<1>3. Init => mounts \in Seq(Mounts)
  BY DEF Init
<1>4. Init => changes \in Nat
  BY DEF Init
<1>5. Init => torn \in BOOLEAN
  BY DEF Init
<1> HIDE LogicalAssumption DEF LogicalAssumption
<1> QED
  BY <1>1, <1>2, <1>3, <1>4, <1>5 DEF Init, TypeOK

\* The type invariant holds in every reachable state (storage_lvm.py L297-L333,
\* lvm.py L172-L285).
THEOREM TypeCorrect == Spec => []TypeOK
  BY InitTypes, TypeStep, PTL DEF Spec
-------------------------------------------------------------------------------
(***************************************************************************)
(* What a poll reports of the mounts.                                      *)
(***************************************************************************)

\* Nothing is mounted over another mount.
MountsApart ==
  \A i, j \in DOMAIN mounts : mounts[i].mnt = mounts[j].mnt => i = j

MountedNow == {mounts[i] : i \in DOMAIN mounts}

\* What stayed since the poll began is mounted, and what stayed away is not.
Tracked ==
  pc # "idle" => kept \subseteq MountedNow /\ away \cap MountedAt(mounts) = {}

\* What the poll found missing, of what stayed as it was.
MissingKnown ==
  pc \in {"vgs", "collect"} =>
    /\ \A m \in kept : m.mnt \notin missing
    /\ away \cap Fstab \subseteq missing

\* What the poll listed, of what stayed as it was.
ListedKnown ==
  pc # "idle" =>
    /\ \A m \in kept : m.root = "/" /\ m.fs \notin mute => \E k \in listed : k.fs = m.fs
    /\ \A k \in listed : k.mnt \notin away
    /\ \A k, n \in listed : k.fs = n.fs /\ k.fs \notin Btrfs => k = n

MountsInv == TypeOK /\ MountsApart /\ Tracked /\ MissingKnown /\ ListedKnown

\* A filesystem that is mounted whole, and answers, is listed.
LEMMA WholeListed ==
  ASSUME NEW ms \in Seq(Mounts), NEW failing, NEW i \in DOMAIN ms,
         ms[i].root = "/", ms[i].fs \notin failing
  PROVE  \E k \in ListedOf(ms, failing) : k.fs = ms[i].fs
<1> DEFINE T == {j \in DOMAIN ms : Eligible(ms[j]) /\ KeyOf(ms[j]) = KeyOf(ms[i])}
<1>1. T \in SUBSET Nat /\ i \in T
  BY DEF Eligible
<1>2. PICK j \in T : \A k \in T : j <= k
  <2> HIDE DEF T
  <2> QED
    BY <1>1, LeastNat
<1>3. ms[j].fs = ms[i].fs
  BY DEF KeyOf
<1>4. \A k \in 1 .. (j - 1) : Eligible(ms[k]) => KeyOf(ms[k]) # KeyOf(ms[j])
  <2> SUFFICES ASSUME NEW k \in 1 .. (j - 1), Eligible(ms[k]), KeyOf(ms[k]) = KeyOf(ms[j])
               PROVE  FALSE
    OBVIOUS
  <2>1. k \in DOMAIN ms /\ k < j
    OBVIOUS
  <2>2. k \in T
    BY <2>1
  <2> QED
    BY <1>1, <1>2, <2>1, <2>2
<1>5. ms[j] \in ListedOf(ms, failing)
  BY <1>3, <1>4 DEF ListedOf
<1> QED
  BY <1>3, <1>5

\* A filesystem that is not btrfs is listed once.
LEMMA ListedOnce ==
  ASSUME NEW ms \in Seq(Mounts), NEW failing,
         NEW k \in ListedOf(ms, failing), NEW n \in ListedOf(ms, failing),
         k.fs = n.fs, k.fs \notin Btrfs
  PROVE  k = n
<1> DEFINE First(i) == \A h \in 1 .. (i - 1) : Eligible(ms[h]) => KeyOf(ms[h]) # KeyOf(ms[i])
<1>1. PICK i \in DOMAIN ms : ms[i] = k /\ Eligible(ms[i]) /\ First(i)
  BY DEF ListedOf
<1>2. PICK j \in DOMAIN ms : ms[j] = n /\ Eligible(ms[j]) /\ First(j)
  BY DEF ListedOf
<1>3. KeyOf(ms[i]) = KeyOf(ms[j])
  BY <1>1, <1>2 DEF KeyOf
<1>4. ~(i < j) /\ ~(j < i)
  BY <1>1, <1>2, <1>3
<1> QED
  BY <1>1, <1>2, <1>4

\* Changes of disks and volumes leave the mounts alone.
LEMMA MountsUntouched ==
  ASSUME MountsInv,
         UNCHANGED << mounts, pc, kept, away, mute, listed, missing >>
  PROVE  /\ MountsApart' /\ Tracked' /\ MissingKnown' /\ ListedKnown'
BY DEF MountsInv, MountsApart, Tracked, MissingKnown, ListedKnown, MountedNow, MountedAt

\* A new mount takes its mount point off those that stayed away.
LEMMA AttachMounts ==
  ASSUME MountsInv, NEW m \in Mounts, Attach(m)
  PROVE  /\ MountsApart' /\ Tracked' /\ MissingKnown' /\ ListedKnown'
<1>1. mounts \in Seq(Mounts)
  BY DEF MountsInv, TypeOK
<1>2. /\ mounts' = Append(mounts, m)
      /\ away' = away \ {m.mnt}
      /\ UNCHANGED << pc, kept, mute, listed, missing >>
  BY DEF Attach, Change, pollVars
<1>3. \A i \in DOMAIN mounts : mounts[i].mnt # m.mnt
  BY DEF Attach, MountedAt
<1>4. /\ DOMAIN mounts' = DOMAIN mounts \cup {Len(mounts) + 1}
      /\ mounts'[Len(mounts) + 1] = m
      /\ \A i \in DOMAIN mounts : mounts'[i] = mounts[i]
  BY <1>1, <1>2
<1>5. MountsApart'
  <2> SUFFICES ASSUME NEW i \in DOMAIN mounts', NEW j \in DOMAIN mounts',
                      mounts'[i].mnt = mounts'[j].mnt
               PROVE  i = j
    BY DEF MountsApart
  <2>1. CASE i \in DOMAIN mounts /\ j \in DOMAIN mounts
    BY <1>4, <2>1 DEF MountsInv, MountsApart
  <2>2. CASE i \notin DOMAIN mounts \/ j \notin DOMAIN mounts
    BY <1>3, <1>4, <2>2
  <2> QED
    BY <2>1, <2>2
<1>6. Tracked'
  <2>1. MountedNow \subseteq MountedNow'
    BY <1>4 DEF MountedNow
  <2>2. MountedAt(mounts)' \subseteq MountedAt(mounts) \cup {m.mnt}
    BY <1>4 DEF MountedAt
  <2> QED
    BY <1>2, <2>1, <2>2 DEF MountsInv, Tracked
<1>7. MissingKnown' /\ ListedKnown'
  BY <1>2 DEF MountsInv, MissingKnown, ListedKnown
<1> QED
  BY <1>5, <1>6, <1>7

\* The mounts that are left of those there were.
LEMMA UmountLeaves ==
  ASSUME TypeOK, NEW i \in DOMAIN mounts, Umount(i)
  PROVE  /\ Len(mounts') = Len(mounts) - 1
         /\ mounts' \in Seq(Mounts)
         /\ \A j \in 1 .. Len(mounts') : mounts'[j] = mounts[IF j < i THEN j ELSE j + 1]
<1>1. mounts \in Seq(Mounts) /\ i \in 1 .. Len(mounts)
  BY DEF TypeOK
<1> DEFINE before == SubSeq(mounts, 1, i - 1)
           after  == SubSeq(mounts, i + 1, Len(mounts))
<1>2. /\ before \in Seq(Mounts) /\ Len(before) = i - 1
      /\ \A j \in 1 .. (i - 1) : before[j] = mounts[j]
  BY <1>1
<1>3. /\ after \in Seq(Mounts) /\ Len(after) = Len(mounts) - i
      /\ \A j \in 1 .. (Len(mounts) - i) : after[j] = mounts[i + j]
  BY <1>1
<1>4. mounts' = before \o after
  BY DEF Umount
<1> HIDE DEF before, after
<1>5. mounts' \in Seq(Mounts) /\ Len(mounts') = Len(mounts) - 1
  BY <1>1, <1>2, <1>3, <1>4
<1>6. ASSUME NEW j \in 1 .. Len(mounts')
      PROVE  mounts'[j] = mounts[IF j < i THEN j ELSE j + 1]
  <2>1. CASE j < i
    BY <1>1, <1>2, <1>3, <1>4, <1>5, <2>1
  <2>2. CASE j >= i
    <3> DEFINE k == j - Len(before)
    <3>1. k \in 1 .. (Len(mounts) - i) /\ i + k = j + 1
      BY <1>1, <1>2, <1>5, <2>2
    <3>2. j \in 1 .. (Len(before) + Len(after)) /\ ~(j <= Len(before))
      BY <1>1, <1>2, <1>3, <1>5, <2>2
    <3>3. (before \o after)[j] = after[k]
      BY <1>2, <1>3, <3>2
    <3>4. after[k] = mounts[j + 1]
      BY <1>3, <3>1
    <3> QED
      BY <1>1, <1>4, <1>5, <2>2, <3>3, <3>4
  <2> QED
    BY <1>1, <1>5, <2>1, <2>2
<1> QED
  BY <1>5, <1>6

\* What is unmounted has not stayed.
LEMMA UmountMounts ==
  ASSUME MountsInv, NEW i \in DOMAIN mounts, Umount(i)
  PROVE  /\ MountsApart' /\ Tracked' /\ MissingKnown' /\ ListedKnown'
<1>1. mounts \in Seq(Mounts) /\ i \in 1 .. Len(mounts)
  BY DEF MountsInv, TypeOK
<1>2. /\ mounts' = SubSeq(mounts, 1, i - 1) \o SubSeq(mounts, i + 1, Len(mounts))
      /\ kept' = kept \ {mounts[i]}
      /\ UNCHANGED << pc, away, mute, listed, missing >>
  BY DEF Umount, Change, pollVars
<1>3. /\ Len(mounts') = Len(mounts) - 1
      /\ mounts' \in Seq(Mounts)
      /\ \A j \in 1 .. Len(mounts') : mounts'[j] = mounts[IF j < i THEN j ELSE j + 1]
  BY UmountLeaves DEF MountsInv
<1>4. MountsApart'
  <2> SUFFICES ASSUME NEW j \in 1 .. Len(mounts'), NEW k \in 1 .. Len(mounts'),
                      mounts'[j].mnt = mounts'[k].mnt
               PROVE  j = k
    BY <1>3 DEF MountsApart
  <2> DEFINE Was(n) == IF n < i THEN n ELSE n + 1
  <2>1. Was(j) \in DOMAIN mounts /\ Was(k) \in DOMAIN mounts
    BY <1>1, <1>3
  <2>2. mounts[Was(j)].mnt = mounts[Was(k)].mnt
    BY <1>3
  <2>3. Was(j) = Was(k)
    BY <2>1, <2>2 DEF MountsInv, MountsApart
  <2> QED
    BY <1>1, <1>3, <2>3
<1>5. Tracked'
  <2>1. ASSUME NEW m \in MountedNow, m # mounts[i] PROVE m \in MountedNow'
    <3>1. PICK j \in 1 .. Len(mounts) : m = mounts[j]
      BY <1>1 DEF MountedNow
    <3> DEFINE h == IF j < i THEN j ELSE j - 1
    <3>2. j # i
      BY <2>1, <3>1
    <3>3. h \in 1 .. Len(mounts') /\ (IF h < i THEN h ELSE h + 1) = j
      BY <1>1, <1>3, <3>2
    <3>4. mounts'[h] = m
      BY <1>3, <3>1, <3>3
    <3> HIDE DEF h
    <3> QED
      BY <1>3, <3>3, <3>4 DEF MountedNow
  <2>2. ASSUME NEW j \in 1 .. Len(mounts') PROVE mounts'[j].mnt \in MountedAt(mounts)
    <3>1. (IF j < i THEN j ELSE j + 1) \in DOMAIN mounts
      BY <1>1, <1>3
    <3> QED
      BY <1>3, <3>1 DEF MountedAt
  <2>3. MountedAt(mounts)' \subseteq MountedAt(mounts)
    BY <1>3, <2>2 DEF MountedAt
  <2> QED
    BY <1>2, <2>1, <2>3 DEF MountsInv, Tracked
<1>6. MissingKnown' /\ ListedKnown'
  BY <1>2 DEF MountsInv, MissingKnown, ListedKnown
<1> QED
  BY <1>4, <1>5, <1>6

LEMMA PollMounts ==
  ASSUME MountsInv, Poll
  PROVE  /\ MountsApart' /\ Tracked' /\ MissingKnown' /\ ListedKnown'
<1>1. CASE ReadFilesystems
  <2>1. mounts \in Seq(Mounts)
    BY DEF MountsInv, TypeOK
  <2>2. PICK failing : listed' = ListedOf(mounts, failing) /\ mute' = failing
    BY <1>1 DEF ReadFilesystems
  <2>3. /\ pc' = "fstab"
        /\ kept' = MountedNow
        /\ away' = MountPoints \ MountedAt(mounts)
        /\ mounts' = mounts
    BY <1>1 DEF ReadFilesystems, MountedNow
  <2>4. ListedKnown'
    <3>1. \A k \in listed' : k \in MountedNow
      BY <2>2 DEF ListedOf, MountedNow
    <3>2. \A k \in listed' : k.mnt \in MountedAt(mounts)
      BY <3>1 DEF MountedNow, MountedAt
    <3>3. \A m \in kept' : m.root = "/" /\ m.fs \notin mute' => \E k \in listed' : k.fs = m.fs
      BY <2>1, <2>2, <2>3, WholeListed DEF MountedNow
    <3>4. \A k, n \in listed' : k.fs = n.fs /\ k.fs \notin Btrfs => k = n
      BY <2>1, <2>2, ListedOnce
    <3> QED
      BY <2>3, <3>2, <3>3, <3>4 DEF ListedKnown
  <2> QED
    BY <2>3, <2>4 DEF MountsInv, MountsApart, Tracked, MissingKnown, MountedNow, MountedAt
<1>2. CASE ReadMissing
  <2>1. /\ pc = "fstab" /\ pc' = "vgs"
        /\ missing' = Fstab \ MountedAt(mounts)
        /\ UNCHANGED << mounts, kept, away, mute, listed >>
    BY <1>2 DEF ReadMissing
  <2>2. \A m \in kept : m.mnt \in MountedAt(mounts)
    BY <2>1 DEF MountsInv, Tracked, MountedNow, MountedAt
  <2>3. away \cap MountedAt(mounts) = {}
    BY <2>1 DEF MountsInv, Tracked
  <2>4. MissingKnown'
    BY <2>1, <2>2, <2>3 DEF MissingKnown
  <2> QED
    BY <2>1, <2>4 DEF MountsInv, MountsApart, Tracked, ListedKnown, MountedNow, MountedAt
<1>3. CASE ReadVgs
  <2>1. /\ pc = "vgs" /\ pc' = "collect"
        /\ UNCHANGED << mounts, missing, kept, away, mute, listed >>
    BY <1>3 DEF ReadVgs
  <2> QED
    BY <2>1 DEF MountsInv, MountsApart, Tracked, MissingKnown, ListedKnown, MountedNow, MountedAt
<1>4. CASE Collect
  <2>1. pc' = "idle" /\ mounts' = mounts
    BY <1>4 DEF Collect
  <2> QED
    BY <2>1 DEF MountsInv, MountsApart, Tracked, MissingKnown, ListedKnown
<1> QED
  BY <1>1, <1>2, <1>3, <1>4 DEF Poll

\* LVM has no hand in mounts, nor in what the poll has read.
LEMMA LvmElsewhere ==
  ASSUME Lvm
  PROVE  UNCHANGED << mounts, pollVars, kept, away, mute >> /\ torn' = (pc = "collect")
<1>1. ASSUME NEW l, NEW new, NEW on, NEW lies, Write(l, new, on, lies)
      PROVE  UNCHANGED << mounts, pollVars, kept, away, mute >> /\ torn' = (pc = "collect")
  BY <1>1 DEF Write, Change
<1>2. ASSUME NEW l, NEW new, NEW on, NEW lies, Command(l, new, on, lies)
      PROVE  UNCHANGED << mounts, pollVars, kept, away, mute >> /\ torn' = (pc = "collect")
  BY <1>1, <1>2 DEF Command
<1>3. ASSUME NEW l \in LVs, NEW p \in PVs, CreateLinear(l, p) \/ Extend(l, p)
      PROVE  UNCHANGED << mounts, pollVars, kept, away, mute >> /\ torn' = (pc = "collect")
  BY <1>2, <1>3 DEF CreateLinear, Extend
<1>4. ASSUME NEW l \in LVs, NEW p \in PVs, NEW q \in PVs,
             CreateStriped(l, p, q) \/ CreateRaid(l, p, q) \/ CreatePool(l, p, q)
      PROVE  UNCHANGED << mounts, pollVars, kept, away, mute >> /\ torn' = (pc = "collect")
  BY <1>1, <1>2, <1>4 DEF CreateStriped, CreateRaid, CreatePool
<1>5. ASSUME NEW l \in LVs, NEW k \in LVs, CreateThin(l, k) \/ Snapshot(l, k) \/ Cache(l, k)
      PROVE  UNCHANGED << mounts, pollVars, kept, away, mute >> /\ torn' = (pc = "collect")
  BY <1>2, <1>5 DEF CreateThin, Snapshot, Cache
<1>6. ASSUME NEW l \in LVs, Remove(l) \/ Refresh(l) \/ Synced(l)
      PROVE  UNCHANGED << mounts, pollVars, kept, away, mute >> /\ torn' = (pc = "collect")
  BY <1>6 DEF Remove, Refresh, Synced, Change
<1> QED
  BY <1>3, <1>4, <1>5, <1>6 DEF Lvm

LEMMA MountsStep ==
  ASSUME MountsInv, [Next]_vars PROVE MountsInv'
<1>1. TypeOK'
  BY TypeStep DEF MountsInv
<1>2. CASE Poll
  BY <1>1, <1>2, PollMounts DEF MountsInv
<1>3. CASE Host
  <2>1. ASSUME NEW d \in Disks, Unplug(d) \/ Plug(d) PROVE MountsInv'
    <3>1. UNCHANGED << mounts, pc, kept, away, mute, listed, missing >>
      BY <2>1 DEF Unplug, Plug, Change, pollVars
    <3> QED
      BY <1>1, <3>1, MountsUntouched DEF MountsInv
  <2>2. ASSUME NEW fs \in FsHolders, NEW mnt \in MountPoints, Mount(fs, mnt) PROVE MountsInv'
    <3>1. [fs |-> fs, root |-> "/", mnt |-> mnt] \in Mounts
      BY DEF Mounts
    <3> QED
      BY <1>1, <2>2, <3>1, AttachMounts DEF Mount, MountsInv
  <2>3. ASSUME NEW i \in DOMAIN mounts, NEW mnt \in MountPoints, Bind(i, mnt) PROVE MountsInv'
    <3>1. [fs |-> mounts[i].fs, root |-> "dir", mnt |-> mnt] \in Mounts
      BY MountTypes DEF Mounts, MountsInv
    <3> QED
      BY <1>1, <2>3, <3>1, AttachMounts DEF Bind, MountsInv
  <2>4. ASSUME NEW i \in DOMAIN mounts, Umount(i) PROVE MountsInv'
    BY <1>1, <2>4, UmountMounts DEF MountsInv
  <2> QED
    BY <1>3, <2>1, <2>2, <2>3, <2>4 DEF Host
<1>4. CASE Lvm
  <2>1. UNCHANGED << mounts, pc, kept, away, mute, listed, missing >>
    BY <1>4, LvmElsewhere DEF pollVars
  <2> QED
    BY <1>1, <2>1, MountsUntouched DEF MountsInv
<1>5. CASE UNCHANGED vars
  <2>1. UNCHANGED << mounts, pc, kept, away, mute, listed, missing >>
    BY <1>5 DEF vars, pollVars
  <2> QED
    BY <1>1, <2>1, MountsUntouched DEF MountsInv
<1> QED
  BY <1>2, <1>3, <1>4, <1>5 DEF Next

\* A poll reports a mount point that stayed as it was while mountinfo was read
\* twice as it is (storage_lvm.py L297-L303), and a filesystem once.
THEOREM MountsReportedHolds == Spec => MountsReported
<1>1. Init => MountsInv
  <2>1. Init => TypeOK
    BY InitTypes
  <2> QED
    BY <2>1 DEF Init, MountsInv, MountsApart, Tracked, MissingKnown, ListedKnown
<1>2. MountsInv /\ Collect =>
       /\ \A m \in kept : /\ m.mnt \notin current'.missing
                          /\ m.root = "/" /\ m.fs \notin mute =>
                               \E v \in current'.fss : v.fs = m.fs
       /\ \A mnt \in away : /\ mnt \in Fstab => mnt \in current'.missing
                            /\ \A v \in current'.fss : v.mnt # mnt
       /\ \A v, w \in current'.fss : v.fs = w.fs /\ v.fs \notin Btrfs => v = w
  <2> SUFFICES ASSUME MountsInv, Collect
               PROVE  /\ \A m \in kept : /\ m.mnt \notin current'.missing
                                         /\ m.root = "/" /\ m.fs \notin mute =>
                                              \E v \in current'.fss : v.fs = m.fs
                      /\ \A mnt \in away : /\ mnt \in Fstab => mnt \in current'.missing
                                           /\ \A v \in current'.fss : v.mnt # mnt
                      /\ \A v, w \in current'.fss :
                           v.fs = w.fs /\ v.fs \notin Btrfs => v = w
    OBVIOUS
  <2>1. pc = "collect"
    BY DEF Collect
  <2>2. current'.fss = {ViewOf(m) : m \in listed} /\ current'.missing = missing
    BY DEF Collect
  <2>3. \A m \in listed : ViewOf(m).fs = m.fs /\ ViewOf(m).mnt = m.mnt
    BY ViewTypes DEF MountsInv
  <2>4. MissingKnown /\ ListedKnown
    BY DEF MountsInv
  <2> QED
    BY <2>1, <2>2, <2>3, <2>4 DEF MissingKnown, ListedKnown
<1> QED
  BY <1>1, <1>2, MountsStep, PTL DEF Spec, MountsReported
-------------------------------------------------------------------------------
(***************************************************************************)
(* What a poll reports of the disks.                                       *)
(***************************************************************************)

\* Until something changes, what was read of PVs and arrays holds.
AsRead ==
  pc = "collect" /\ ~torn =>
    /\ attached = {p \in PVs : VgListed /\ Present(p)}
    /\ degraded = {n \in Arrays : \E d \in Members[n] : ~Alive(d)}

\* What is alive goes by the disks that are gone.
LEMMA AliveUnchanged ==
  ASSUME gone' = gone
  PROVE  /\ \A p \in PVs : Present(p)' = Present(p)
         /\ VgListed' = VgListed
         /\ \A d : Alive(d)' = Alive(d)
BY DEF Present, VgListed, Alive

LEMMA AsReadStep ==
  ASSUME AsRead, [Next]_vars PROVE AsRead'
<1>1. ASSUME UNCHANGED << gone, pc, attached, degraded >>, torn' = torn PROVE AsRead'
  BY <1>1, AliveUnchanged DEF AsRead
<1>2. ASSUME torn' = (pc = "collect"), pc' = pc PROVE AsRead'
  BY <1>2 DEF AsRead
<1>3. CASE Poll
  <2>1. CASE ReadVgs
    BY <2>1, AliveUnchanged DEF ReadVgs, AsRead, hostVars
  <2>2. CASE ReadFilesystems \/ ReadMissing \/ Collect
    BY <2>2 DEF ReadFilesystems, ReadMissing, Collect, AsRead
  <2> QED
    BY <1>3, <2>1, <2>2 DEF Poll
<1>4. CASE Lvm
  BY <1>2, <1>4, LvmElsewhere DEF pollVars
<1>5. CASE Host
  <2>1. ASSUME NEW d \in Disks, Unplug(d) \/ Plug(d) PROVE AsRead'
    BY <1>2, <2>1 DEF Unplug, Plug, Change, pollVars
  <2>2. ASSUME NEW m, Attach(m) PROVE AsRead'
    BY <1>1, <2>2 DEF Attach, Change, pollVars, hostVars
  <2>3. ASSUME NEW i \in DOMAIN mounts, Umount(i) PROVE AsRead'
    BY <1>1, <2>3 DEF Umount, Change, pollVars, hostVars
  <2> QED
    BY <1>5, <2>1, <2>2, <2>3 DEF Host, Mount, Bind
<1>6. CASE UNCHANGED vars
  BY <1>1, <1>6 DEF vars, pollVars, hostVars
<1> QED
  BY <1>3, <1>4, <1>5, <1>6 DEF Next

\* A device that has lost a disk and is there is an array without a member.
LEMMA LostMember ==
  ASSUME NEW p \in PVs, Present(p), DisksUnder(DeviceOf[p]) \cap gone # {}
  PROVE  DeviceOf[p] \in Arrays /\ \E d \in Members[DeviceOf[p]] : ~Alive(d)
<1> DEFINE Below(d) == IF d \in Partitions THEN {ParentDisk[d]} ELSE {d}
<1>1. DeviceOf[p] \in Arrays
  <2> SUFFICES ASSUME DeviceOf[p] \notin Arrays PROVE FALSE
    OBVIOUS
  <2>1. DisksUnder(DeviceOf[p]) = Below(DeviceOf[p])
    BY DEF DisksUnder
  <2>2. PICK x : Below(DeviceOf[p]) = {x}
    OBVIOUS
  <2> QED
    BY <2>1, <2>2 DEF Present, Alive
<1>2. DisksUnder(DeviceOf[p]) = UNION {Below(d) : d \in Members[DeviceOf[p]]}
  BY <1>1 DEF DisksUnder
<1>3. PICK d \in Members[DeviceOf[p]] : Below(d) \cap gone # {}
  BY <1>2
<1>4. d \notin Arrays
  BY <1>1
<1>5. DisksUnder(d) = Below(d)
  BY <1>4 DEF DisksUnder
<1>6. ~Alive(d)
  BY <1>3, <1>5 DEF Alive
<1> QED
  BY <1>1, <1>3, <1>6

\* An LV that has lost a disk, or an image that is not in sync, raises an alarm in
\* every poll that nothing tore (lvm.py L283, storage_lvm.py L155-L170, L206-L242).
THEOREM LossAlarmedHolds == Spec => LossAlarmed
<1>1. Init => TypeOK /\ AsRead
  <2>1. Init => AsRead
    BY DEF Init, AsRead
  <2> QED
    BY <2>1, InitTypes
<1>2. ASSUME TypeOK, AsRead, Collect, ~torn, NEW l \in LVs, Visible(l)
      PROVE  /\ l \in current'.known /\ HealthOf(l) \cap {"a", "D"} # {} =>
                  l \in current'.raids \cup current'.resyncs
             /\ AnyPresent => \A p \in PvsUnder(l) : DisksUnder(DeviceOf[p]) \cap gone # {} =>
                  p \in current'.lost \/ DeviceOf[p] \in current'.arrays
  <2>1. PICK known \in {{}, {k \in LVs : IsRaid(k)}} :
          /\ current'.known = known
          /\ current'.lost = Lost /\ current'.arrays = degraded
          /\ current'.raids = {k \in known : Failed(k)}
          /\ current'.resyncs = {k \in known : Resyncing(k)}
    BY <1>2 DEF Collect
  <2>2. ASSUME l \in current'.known, HealthOf(l) \cap {"a", "D"} # {}
        PROVE  l \in current'.raids \cup current'.resyncs
    BY <2>1, <2>2 DEF Failed, Resyncing
  <2>3. ASSUME AnyPresent, NEW p \in PvsUnder(l), DisksUnder(DeviceOf[p]) \cap gone # {}
        PROVE  p \in current'.lost \/ DeviceOf[p] \in current'.arrays
    <3>1. /\ attached = {q \in PVs : VgListed /\ Present(q)}
          /\ degraded = {n \in Arrays : \E d \in Members[n] : ~Alive(d)}
      BY <1>2 DEF AsRead, Collect
    <3>2. p \in PVs /\ VgListed
      BY <2>3 DEF PvsUnder, AnyPresent, VgListed
    <3>3. CASE Present(p)
      BY <2>1, <2>3, <3>1, <3>2, <3>3, LostMember
    <3>4. CASE ~Present(p)
      BY <2>1, <2>3, <3>1, <3>2, <3>4 DEF Lost, AnyPresent
    <3> QED
      BY <3>3, <3>4
  <2> QED
    BY <2>2, <2>3
<1>3. TypeOK /\ AsRead /\ Collect /\ ~torn => \A l \in LVs : Visible(l) =>
       /\ l \in current'.known /\ HealthOf(l) \cap {"a", "D"} # {} =>
            l \in current'.raids \cup current'.resyncs
       /\ AnyPresent => \A p \in PvsUnder(l) : DisksUnder(DeviceOf[p]) \cap gone # {} =>
            p \in current'.lost \/ DeviceOf[p] \in current'.arrays
  BY <1>2
<1> QED
  BY <1>1, <1>3, TypeStep, AsReadStep, PTL DEF Spec, LossAlarmed
-------------------------------------------------------------------------------
(***************************************************************************)
(* What the readers make of the backup is what the LVM commands did.       *)
(***************************************************************************)
HIDE LogicalAssumption DEF LogicalAssumption

\* The extents of a volume on p, and what its segments name, by its record.
VolumeOn(v, p) ==
  Total([i \in DOMAIN v.segs |-> SegmentOn(v.segs[i], p)], DOMAIN v.segs)
RefsOf(v) == UNION {v.segs[i].refs : i \in DOMAIN v.segs}

\* The sums of the readers and of the commands, as sums of functions.
LEMMA OwnTotal ==
  ASSUME NEW n, NEW p
  PROVE  OwnOn(n, p) = VolumeOn(lvs[n], p)
BY DEF OwnOn, VolumeOn, Total, MapThenSumSet, MapThenFoldSet

LEMMA UsedTotal ==
  ASSUME NEW p
  PROVE  UsedOn(p) = Total([n \in {m \in Names : Exists(m)} |-> OwnOn(n, p)],
                           {m \in Names : Exists(m)})
BY DEF UsedOn, Total, MapThenSumSet, MapThenFoldSet

LEMMA HeldTotal ==
  ASSUME NEW p
  PROVE  Held(p) = Total([l \in LVs |-> held[l][p]], LVs)
BY DEF Held, Total, MapThenSumSet, MapThenFoldSet

LEMMA ExtentsTotal ==
  ASSUME NEW l, NEW p
  PROVE  ExtentsOn(l, p) = Total([b \in basis[l] |-> held[b][p]], basis[l])
BY DEF ExtentsOn, Total, MapThenSumSet, MapThenFoldSet

\* There are finitely many LVs and sub-LVs.
LEMMA NamesFinite ==
  /\ IsFiniteSet(Names)
  /\ \A S \in SUBSET Names : IsFiniteSet(S)
<1> DEFINE S == {<< l, r[1], r[2] >> : l \in LVs, r \in Subs}
           f == [x \in LVs \X Subs |-> << x[1], x[2][1], x[2][2] >>]
<1>1. IsFiniteSet(Subs)
  <2> DEFINE g == << << "rimage", 0 >>, << "rimage", 1 >>, << "rmeta", 0 >>, << "rmeta", 1 >>,
                     << "tdata", 0 >>, << "tmeta", 0 >>, << "corig", 0 >> >>
  <2>1. g \in [1 .. 7 -> Subs] /\ \A r \in Subs : \E i \in 1 .. 7 : g[i] = r
    BY DEF Subs
  <2> HIDE DEF g
  <2>2. g \in Surjection(1 .. 7, Subs)
    BY <2>1 DEF Surjection
  <2>3. IsFiniteSet(1 .. 7)
    <3>1. 1 \in Int /\ 7 \in Int
      OBVIOUS
    <3> QED
      BY <3>1, FS_Interval
  <2> QED
    BY <2>2, <2>3, FS_Surjection
<1>2. IsFiniteSet(LVs \X Subs)
  BY <1>1, LogicalAssumption, FS_Product DEF LogicalAssumption
<1>3. f \in Surjection(LVs \X Subs, S)
  <2>1. f \in [LVs \X Subs -> S]
    <3> SUFFICES ASSUME NEW x \in LVs \X Subs PROVE << x[1], x[2][1], x[2][2] >> \in S
      OBVIOUS
    <3>1. x[1] \in LVs /\ x[2] \in Subs
      OBVIOUS
    <3> QED
      BY <3>1
  <2>2. \A y \in S : \E x \in LVs \X Subs : f[x] = y
    <3> SUFFICES ASSUME NEW y \in S PROVE \E x \in LVs \X Subs : f[x] = y
      OBVIOUS
    <3>1. PICK l \in LVs, r \in Subs : y = << l, r[1], r[2] >>
      OBVIOUS
    <3>2. << l, r >> \in LVs \X Subs /\ f[<< l, r >>] = y
      BY <3>1
    <3> QED
      BY <3>2
  <2> HIDE DEF f, S
  <2> QED
    BY <2>1, <2>2 DEF Surjection
<1>4. IsFiniteSet(S)
  <2> HIDE DEF f, S
  <2> QED
    BY <1>2, <1>3, FS_Surjection
<1>5. IsFiniteSet(Names)
  <2>1. IsFiniteSet(LVs) /\ Names = LVs \cup S
    BY LogicalAssumption DEF Names, LogicalAssumption
  <2> HIDE DEF S
  <2> QED
    BY <1>4, <2>1, FS_Union
<1> QED
  BY <1>5, FS_Subset

\* What a segment takes.
LEMMA PartNat ==
  ASSUME NEW n \in Nat, NEW k \in Nat
  PROVE  n \div Max({1, k}) \in Nat
<1> DEFINE m == Max({1, k})
<1>1. m \in {1, k} /\ m >= 1
  <2>1. \E x \in {1, k} : \A y \in {1, k} : x >= y
    OBVIOUS
  <2> QED
    BY <2>1 DEF Max
<1>2. m \in Nat /\ m > 0
  BY <1>1
<1> HIDE DEF m
<1>3. n \div m \in Nat
  BY <1>2
<1> QED
  BY <1>3 DEF m

LEMMA SegmentNat ==
  ASSUME NEW seg \in Segments, NEW p
  PROVE  SegmentOn(seg, p) \in Nat
<1> DEFINE here == {i \in DOMAIN seg.areas : seg.areas[i] = p}
<1>1. seg.count \in Nat /\ Len(seg.areas) \in Nat /\ DOMAIN seg.areas = 1 .. Len(seg.areas)
  BY DEF Segments
<1>2. seg.count \div Max({1, Len(seg.areas)}) \in Nat
  BY <1>1, PartNat
<1>3. here \in SUBSET (1 .. Len(seg.areas))
  BY <1>1
<1> HIDE DEF here
<1>5. Cardinality(here) \in Nat
  <2>1. IsFiniteSet(1 .. Len(seg.areas))
    BY <1>1, FS_Interval
  <2>2. IsFiniteSet(here)
    BY <1>3, <2>1, FS_Subset
  <2> QED
    BY <2>2, FS_CardinalityType
<1>4. \A a, b \in Nat : a * b \in Nat
  OBVIOUS
<1> QED
  BY <1>2, <1>4, <1>5 DEF SegmentOn, here

LEMMA SegmentValues ==
  ASSUME NEW p \in PVs
  PROVE  /\ \A q \in PVs, n \in Nat : SegmentOn(OnAreas(n, << q >>), p) = IF p = q THEN n ELSE 0
         /\ \A q, r \in PVs : q # r =>
              SegmentOn(OnAreas(2, << q, r >>), p) = IF p \in {q, r} THEN 1 ELSE 0
         /\ \A n \in Nat : \A refs : SegmentOn(OnVolumes(n, refs), p) = 0
<1>1. Max({1, 1}) = 1 /\ Max({1, 2}) = 2 /\ Max({1, 0}) = 1
  <2>1. \A a \in {0, 1, 2} : \E x \in {1, a} : \A y \in {1, a} : x >= y
    OBVIOUS
  <2> QED
    BY <2>1 DEF Max
<1>2. ASSUME NEW q \in PVs, NEW n \in Nat
      PROVE  SegmentOn(OnAreas(n, << q >>), p) = IF p = q THEN n ELSE 0
  <2> DEFINE here == {i \in DOMAIN << q >> : << q >>[i] = p}
  <2>1. here = IF p = q THEN {1} ELSE {}
    OBVIOUS
  <2>2. Cardinality(here) = IF p = q THEN 1 ELSE 0
    BY <2>1, FS_EmptySet, FS_Singleton
  <2>3. Len(<< q >>) = 1
    OBVIOUS
  <2>4. SegmentOn(OnAreas(n, << q >>), p) = (n \div 1) * Cardinality(here)
    BY <1>1, <2>3 DEF SegmentOn, OnAreas
  <2>5. (n \div 1) = n
    OBVIOUS
  <2> HIDE DEF here
  <2> QED
    BY <2>2, <2>4, <2>5
<1>3. ASSUME NEW q \in PVs, NEW r \in PVs, q # r
      PROVE  SegmentOn(OnAreas(2, << q, r >>), p) = IF p \in {q, r} THEN 1 ELSE 0
  <2> DEFINE here == {i \in DOMAIN << q, r >> : << q, r >>[i] = p}
  <2>1. here = IF p = q THEN {1} ELSE IF p = r THEN {2} ELSE {}
    BY <1>3
  <2>2. Cardinality(here) = IF p \in {q, r} THEN 1 ELSE 0
    BY <2>1, FS_EmptySet, FS_Singleton
  <2>3. Len(<< q, r >>) = 2
    OBVIOUS
  <2>4. SegmentOn(OnAreas(2, << q, r >>), p) = (2 \div 2) * Cardinality(here)
    BY <1>1, <2>3 DEF SegmentOn, OnAreas
  <2>5. (2 \div 2) = 1
    OBVIOUS
  <2> HIDE DEF here
  <2> QED
    BY <2>2, <2>4, <2>5
<1>4. ASSUME NEW n \in Nat, NEW refs
      PROVE  SegmentOn(OnVolumes(n, refs), p) = 0
  <2> DEFINE here == {i \in DOMAIN << >> : << >>[i] = p}
  <2>1. here = {}
    OBVIOUS
  <2>2. Cardinality(here) = 0
    BY <2>1, FS_EmptySet
  <2>3. Len(<< >>) = 0
    OBVIOUS
  <2>4. SegmentOn(OnVolumes(n, refs), p) = (n \div 1) * Cardinality(here)
    BY <1>1, <2>3 DEF SegmentOn, OnVolumes
  <2>5. (n \div 1) \in Nat
    OBVIOUS
  <2> HIDE DEF here
  <2> QED
    BY <2>2, <2>4, <2>5
<1> QED
  BY <1>2, <1>3, <1>4

\* What a volume takes, and what it names.
LEMMA VolumeSegs ==
  ASSUME NEW v \in Volumes
  PROVE  /\ v.segs \in Seq(Segments) /\ v.visible \in BOOLEAN
         /\ IsFiniteSet(DOMAIN v.segs)
         /\ \A p : \A i \in DOMAIN v.segs : SegmentOn(v.segs[i], p) \in Nat
<1>1. v.segs \in Seq(Segments) /\ v.visible \in BOOLEAN
  BY DEF Volumes
<1>2. DOMAIN v.segs = 1 .. Len(v.segs) /\ Len(v.segs) \in Nat
  BY <1>1
<1>3. \A i \in DOMAIN v.segs : v.segs[i] \in Segments
  BY <1>1
<1>4. IsFiniteSet(DOMAIN v.segs)
  BY <1>2, FS_Interval
<1> QED
  BY <1>1, <1>3, <1>4, SegmentNat

LEMMA VolumeNat ==
  ASSUME NEW v \in Volumes, NEW p
  PROVE  VolumeOn(v, p) \in Nat
BY VolumeSegs, TotalElement DEF VolumeOn

LEMMA VolumeOne ==
  ASSUME NEW s \in Segments, NEW p
  PROVE  /\ VolumeOn(Volume(s), p) = SegmentOn(s, p)
         /\ VolumeOn(Hidden(s), p) = SegmentOn(s, p)
         /\ RefsOf(Volume(s)) = s.refs /\ RefsOf(Hidden(s)) = s.refs
<1>1. ASSUME NEW v, v.segs = << s >>
      PROVE  VolumeOn(v, p) = SegmentOn(s, p) /\ RefsOf(v) = s.refs
  <2>1. DOMAIN v.segs = {1} /\ v.segs[1] = s
    BY <1>1
  <2> DEFINE f == [i \in DOMAIN v.segs |-> SegmentOn(v.segs[i], p)]
  <2>2. f[1] = SegmentOn(s, p) /\ f[1] \in Nat
    BY <2>1, SegmentNat
  <2>3. VolumeOn(v, p) = Total(f, {1})
    BY <2>1 DEF VolumeOn
  <2>4. Total(f, {1}) = f[1]
    <3> HIDE DEF f
    <3> QED
      BY <2>2, TotalSmall
  <2>5. RefsOf(v) = s.refs
    BY <2>1 DEF RefsOf
  <2> QED
    BY <2>2, <2>3, <2>4, <2>5
<1> QED
  BY <1>1 DEF Volume, Hidden

LEMMA VolumeAppend ==
  ASSUME NEW v \in Volumes, NEW s \in Segments, NEW p, NEW w, w.segs = Append(v.segs, s)
  PROVE  /\ VolumeOn(w, p) = VolumeOn(v, p) + SegmentOn(s, p)
         /\ RefsOf(w) = RefsOf(v) \cup s.refs
<1> DEFINE n == Len(v.segs) + 1
           f == [i \in DOMAIN w.segs |-> SegmentOn(w.segs[i], p)]
           g == [i \in DOMAIN v.segs |-> SegmentOn(v.segs[i], p)]
<1>1. /\ DOMAIN w.segs = DOMAIN v.segs \cup {n} /\ n \notin DOMAIN v.segs
      /\ w.segs[n] = s /\ \A i \in DOMAIN v.segs : w.segs[i] = v.segs[i]
  BY VolumeSegs
<1>2. IsFiniteSet(DOMAIN v.segs) /\ \A i \in DOMAIN v.segs : f[i] = g[i] /\ g[i] \in Nat
  BY <1>1, VolumeSegs
<1>3. f[n] = SegmentOn(s, p) /\ f[n] \in Nat
  BY <1>1, SegmentNat
<1>4. VolumeOn(w, p) = Total(f, DOMAIN v.segs \cup {n}) /\ VolumeOn(v, p) = Total(g, DOMAIN v.segs)
  BY <1>1 DEF VolumeOn
<1>5. RefsOf(w) = RefsOf(v) \cup s.refs
  BY <1>1 DEF RefsOf
<1> HIDE DEF n, f, g
<1>6. Total(f, DOMAIN v.segs) = Total(g, DOMAIN v.segs)
  BY <1>2, TotalSame
<1>7. \A i \in DOMAIN v.segs \cup {n} : f[i] \in Nat
  BY <1>2, <1>3
<1>8. Total(f, DOMAIN v.segs \cup {n}) = Total(f, DOMAIN v.segs) + f[n]
  BY <1>1, <1>2, <1>7, TotalAdd
<1> QED
  BY <1>3, <1>4, <1>5, <1>6, <1>8

LEMMA VolumeSame ==
  ASSUME NEW v \in Volumes, NEW p, NEW w, DOMAIN w.segs = DOMAIN v.segs,
         \A i \in DOMAIN v.segs : /\ w.segs[i].count = v.segs[i].count
                                  /\ w.segs[i].areas = v.segs[i].areas
  PROVE  VolumeOn(w, p) = VolumeOn(v, p)
<1>1. \A i \in DOMAIN v.segs : SegmentOn(w.segs[i], p) = SegmentOn(v.segs[i], p)
  BY DEF SegmentOn
<1> QED
  BY <1>1, VolumeSegs, TotalSame DEF VolumeOn

\* The sub-LVs of an LV, and the two as one family; what of a set of names is there.
SubsOf(l)   == {<< l, r[1], r[2] >> : r \in Subs}
Family(l)   == {l} \cup SubsOf(l)
There(S)    == {n \in S : Exists(n)}
Refs(n)     == RefsOf(lvs[n])
Owns(p)     == [n \in Names |-> OwnOn(n, p)]
FamilyOn(l, p) == Total(Owns(p), There(Family(l)))

\* An LV made of its own parts; one in a pool; one with a cache.
Whole(l) == Refs(l) = There(SubsOf(l)) /\ basis[l] = {l}
ThinIn(l, pool) ==
  /\ Visible(l) /\ There(SubsOf(l)) = {} /\ held[l] = Nowhere
  /\ pool # l /\ IsPool(pool) /\ Whole(pool)
  /\ basis[l] = {pool} /\ pool \in Refs(l)
  /\ \A k \in Refs(l) \ {pool} : k \in LVs /\ Exists(k) /\ basis[k] = {pool}
CachedBy(l, fast) ==
  /\ fast # l /\ basis[l] = {l, fast}
  /\ There(SubsOf(l)) = {<< l, "corig", 0 >>}
  /\ Refs(l) = {<< l, "corig", 0 >>, fast}
  /\ Exists(fast) /\ ~Visible(fast) /\ Whole(fast) /\ Refs(fast) = {}
Shaped(l) ==
  Whole(l) \/ (\E k \in LVs : ThinIn(l, k)) \/ (\E k \in LVs : CachedBy(l, k))

\* Sub-LVs name nothing, and are there with their LV only.
SubsBare(l)   == \A n \in SubsOf(l) : Exists(n) => Refs(n) = {} /\ Exists(l)
\* What is not there lies on nothing.
AbsentBare(l) == ~Exists(l) => basis[l] = {}
\* What LVM holds for an LV on a PV is what the LV and its sub-LVs have there.
AreasHeld(l)  == \A p \in PVs : FamilyOn(l, p) = held[l][p]
Fits(l) == SubsBare(l) /\ AbsentBare(l) /\ (Exists(l) => Shaped(l)) /\ AreasHeld(l)

\* A hidden LV is the cache of one LV only.
FastOwn == \A l, k \in LVs : l # k => \A b \in (basis[l] \cap basis[k]) \ {l, k} : Visible(b)

LvmInv == TypeOK /\ (\A l \in LVs : Fits(l)) /\ FastOwn

\* Families are apart, and all the names are in one.
LEMMA Families ==
  /\ \A l \in LVs : Family(l) \subseteq Names /\ SubsOf(l) \cap LVs = {}
  /\ \A l, k \in LVs : l # k => Family(l) \cap Family(k) = {}
  /\ \A n \in Names : \E l \in LVs : n \in Family(l)
<1>1. \A l \in LVs : \A r \in Subs : << l, r[1], r[2] >> \notin LVs
  BY LogicalAssumption DEF LogicalAssumption
<1>2. ASSUME NEW l \in LVs PROVE Family(l) \subseteq Names /\ SubsOf(l) \cap LVs = {}
  BY <1>1 DEF Family, SubsOf, Names
<1>3. ASSUME NEW l \in LVs, NEW k \in LVs, l # k PROVE Family(l) \cap Family(k) = {}
  <2>1. \A r, s \in Subs : << l, r[1], r[2] >> # << k, s[1], s[2] >>
    BY <1>3
  <2> QED
    BY <1>1, <1>3, <2>1 DEF Family, SubsOf
<1>4. \A n \in Names : \E l \in LVs : n \in Family(l)
  BY DEF Family, SubsOf, Names
<1> QED
  BY <1>2, <1>3, <1>4

LEMMA OwnNat ==
  ASSUME TypeOK, NEW n \in Names, Exists(n), NEW p
  PROVE  /\ lvs[n] \in Volumes
         /\ Owns(p)[n] = OwnOn(n, p) /\ OwnOn(n, p) \in Nat
<1>1. lvs[n] \in Volumes
  BY DEF TypeOK, Exists
<1> QED
  BY <1>1, OwnTotal, VolumeNat DEF Owns

LEMMA ThereFinite ==
  ASSUME TypeOK, NEW S \in SUBSET Names, NEW p
  PROVE  /\ There(S) \in SUBSET Names /\ IsFiniteSet(There(S))
         /\ \A n \in There(S) : Owns(p)[n] = OwnOn(n, p) /\ OwnOn(n, p) \in Nat
         /\ Total(Owns(p), There(S)) \in Nat
<1>1. There(S) \in SUBSET Names
  BY DEF There
<1>2. IsFiniteSet(There(S))
  BY <1>1, NamesFinite
<1>3. \A n \in There(S) : Owns(p)[n] = OwnOn(n, p) /\ OwnOn(n, p) \in Nat
  BY OwnNat DEF There
<1> QED
  BY <1>1, <1>2, <1>3, TotalElement

\* The space that is used on a PV is what the LVs hold there, each once.
LEMMA UsedIsHeld ==
  ASSUME TypeOK, \A l \in LVs : AreasHeld(l), NEW p \in PVs
  PROVE  UsedOn(p) = Held(p)
<1> DEFINE Part == [l \in LVs |-> There(Family(l))]
           all == There(Names)
           holds == [l \in LVs |-> held[l][p]]
<1>1. IsFiniteSet(LVs)
  BY LogicalAssumption DEF LogicalAssumption
<1>2. \A l \in LVs : /\ IsFiniteSet(Part[l])
                     /\ \A n \in Part[l] : Owns(p)[n] \in Nat
  BY Families, ThereFinite
<1>3. \A l, k \in LVs : l # k => Part[l] \cap Part[k] = {}
  BY Families DEF There
<1>4. UNION {Part[l] : l \in LVs} = all
  BY Families DEF There
<1>5. \A l \in LVs : holds[l] = Total(Owns(p), Part[l])
  BY DEF AreasHeld, FamilyOn
<1>6. UsedOn(p) = Total(Owns(p), all)
  <2> DEFINE f == [n \in all |-> OwnOn(n, p)]
  <2>1. UsedOn(p) = Total(f, all)
    BY UsedTotal DEF There
  <2>2. \A n \in all : f[n] = Owns(p)[n]
    BY DEF Owns, There
  <2>3. IsFiniteSet(all)
    BY ThereFinite
  <2> HIDE DEF f, all
  <2> QED
    BY <2>1, <2>2, <2>3, TotalSame
<1> HIDE DEF Part, all, holds
<1>7. Total(holds, LVs) = Total(Owns(p), UNION {Part[l] : l \in LVs})
  BY <1>1, <1>2, <1>3, <1>5, TotalParts
<1> QED
  BY <1>4, <1>6, <1>7, HeldTotal DEF holds

-------------------------------------------------------------------------------
(***************************************************************************)
(* The tree of an LV.                                                      *)
(***************************************************************************)

\* What a node of the tree has on p, where those below it have what T says.
NodeOn(n, d, p, T) ==
  OwnOn(n, p) + IF d < MaxDepth THEN Total([r \in Kids(n) |-> T[d + 1][r]], Kids(n)) ELSE 0

\* T is the tree that lv_tree follows.
IsTree(p, T) == T = [d \in 0 .. MaxDepth |-> [n \in Names |-> NodeOn(n, d, p, T)]]

LEMMA TreeIs ==
  ASSUME NEW l, NEW p
  PROVE  TreeOn(l, p) = (CHOOSE T : IsTree(p, T))[0][l]
<1> DEFINE Node(T, d, n) ==
             OwnOn(n, p) + IF d < MaxDepth
                           THEN MapThenSumSet(LAMBDA r : T[d + 1][r], Kids(n)) ELSE 0
           Is(T) == T = [d \in 0 .. MaxDepth |-> [n \in Names |-> Node(T, d, n)]]
<1>1. TreeOn(l, p) = (CHOOSE T : Is(T))[0][l]
  BY DEF TreeOn
<1>2. ASSUME NEW T, NEW d, NEW n PROVE Node(T, d, n) = NodeOn(n, d, p, T)
  <2>1. MapThenSumSet(LAMBDA r : T[d + 1][r], Kids(n))
          = Total([r \in Kids(n) |-> T[d + 1][r]], Kids(n))
    BY DEF Total, MapThenSumSet, MapThenFoldSet
  <2> QED
    BY <2>1, Zenon DEF NodeOn
<1>3. \A T : Is(T) <=> IsTree(p, T)
  <2> HIDE DEF Node
  <2> QED
    BY <1>2 DEF IsTree
<1>4. (CHOOSE T : Is(T)) = (CHOOSE T : IsTree(p, T))
  <2> HIDE DEF Is
  <2> QED
    BY <1>3
<1> QED
  BY <1>1, <1>4

LEMMA KidsOf ==
  /\ \A n : Kids(n) \in SUBSET Names /\ IsFiniteSet(Kids(n))
  /\ TypeOK => \A n \in Names : Exists(n) => Refs(n) \in SUBSET Names /\ Kids(n) = There(Refs(n))
<1>1. \A n : Kids(n) \in SUBSET Names /\ IsFiniteSet(Kids(n))
  BY NamesFinite DEF Kids
<1>2. ASSUME TypeOK, NEW n \in Names, Exists(n)
      PROVE  Refs(n) \in SUBSET Names /\ Kids(n) = There(Refs(n))
  <2>1. lvs[n] \in Volumes
    BY <1>2, OwnNat
  <2>2. lvs[n].segs \in Seq(Segments)
    BY <2>1, VolumeSegs
  <2>3. \A i \in DOMAIN lvs[n].segs : lvs[n].segs[i].refs \in SUBSET Names
    <3>1. \A i \in DOMAIN lvs[n].segs : lvs[n].segs[i] \in Segments
      BY <2>2
    <3> QED
      BY <3>1 DEF Segments
  <2>4. Refs(n) \in SUBSET Names
    BY <2>3 DEF Refs, RefsOf
  <2> QED
    BY <2>4 DEF Kids, There, Refs, RefsOf
<1> QED
  BY <1>1, <1>2

\* A node goes by what those one level below it have.
LEMMA NodeSame ==
  ASSUME NEW n, NEW d, NEW p, NEW T, NEW U,
         d < MaxDepth => \A r \in Names : T[d + 1][r] = U[d + 1][r]
  PROVE  NodeOn(n, d, p, T) = NodeOn(n, d, p, U)
<1>1. CASE d < MaxDepth
  <2> DEFINE f == [r \in Kids(n) |-> T[d + 1][r]]
             g == [r \in Kids(n) |-> U[d + 1][r]]
  <2>1. f = g
    BY <1>1, KidsOf
  <2> HIDE DEF f, g
  <2>2. Total(f, Kids(n)) = Total(g, Kids(n))
    BY <2>1
  <2> QED
    BY <1>1, <2>2 DEF NodeOn, f, g
<1>2. CASE ~(d < MaxDepth)
  BY <1>2 DEF NodeOn
<1> QED
  BY <1>1, <1>2

\* There is a tree: level by level, from the leaves.
LEMMA TreeExists ==
  ASSUME NEW p
  PROVE  \E T : IsTree(p, T)
<1> DEFINE Levels(k, T) ==
             /\ T = [d \in 0 .. MaxDepth |-> [n \in Names |-> T[d][n]]]
             /\ \A n \in Names, d \in 0 .. MaxDepth :
                  d + k >= MaxDepth => T[d][n] = NodeOn(n, d, p, T)
           Without == {k \in 0 .. MaxDepth : ~\E T : Levels(k, T)}
<1>1. \E T : Levels(0, T)
  <2> DEFINE T == [d \in 0 .. MaxDepth |-> [n \in Names |-> OwnOn(n, p) + 0]]
  <2>1. \A n \in Names, d \in 0 .. MaxDepth : T[d][n] = OwnOn(n, p) + 0
    OBVIOUS
  <2>2. \A n \in Names, d \in 0 .. MaxDepth :
          d + 0 >= MaxDepth => NodeOn(n, d, p, T) = OwnOn(n, p) + 0
    <3> HIDE DEF T
    <3> QED
      BY DEF NodeOn, MaxDepth
  <2>3. T = [d \in 0 .. MaxDepth |-> [n \in Names |-> T[d][n]]]
    BY <2>1
  <2> HIDE DEF T
  <2>4. Levels(0, T)
    BY <2>1, <2>2, <2>3
  <2> QED
    BY <2>4
<1>2. ASSUME NEW k \in 0 .. MaxDepth, k < MaxDepth, NEW T, Levels(k, T)
      PROVE  \E U : Levels(k + 1, U)
  <2> DEFINE U == [d \in 0 .. MaxDepth |-> [n \in Names |->
                     IF d + k >= MaxDepth THEN T[d][n] ELSE NodeOn(n, d, p, T)]]
  <2>1. \A n \in Names, d \in 0 .. MaxDepth :
          U[d][n] = IF d + k >= MaxDepth THEN T[d][n] ELSE NodeOn(n, d, p, T)
    OBVIOUS
  <2>2. U = [d \in 0 .. MaxDepth |-> [n \in Names |-> U[d][n]]]
    BY <2>1
  <2> HIDE DEF U
  <2>3. ASSUME NEW n \in Names, NEW d \in 0 .. MaxDepth, d + (k + 1) >= MaxDepth
        PROVE  U[d][n] = NodeOn(n, d, p, U)
    <3>1. d < MaxDepth => \A r \in Names : U[d + 1][r] = T[d + 1][r]
      BY <2>1, <2>3 DEF MaxDepth
    <3>2. NodeOn(n, d, p, T) = NodeOn(n, d, p, U)
      BY <3>1, NodeSame
    <3>3. U[d][n] = NodeOn(n, d, p, T)
      BY <1>2, <2>1
    <3> QED
      BY <3>2, <3>3
  <2>4. Levels(k + 1, U)
    BY <2>2, <2>3
  <2> QED
    BY <2>4
<1>3. Without = {}
  <2> SUFFICES ASSUME Without # {} PROVE FALSE
    OBVIOUS
  <2>1. Without \in SUBSET Nat
    BY DEF MaxDepth
  <2>2. PICK k \in Without : \A j \in Without : k <= j
    <3> HIDE DEF Without
    <3> QED
      BY <2>1, LeastNat
  <2> HIDE DEF Levels
  <2>3. k # 0
    BY <1>1
  <2>4. k - 1 \in 0 .. MaxDepth /\ k - 1 < MaxDepth /\ k - 1 \notin Without /\ (k - 1) + 1 = k
    BY <2>2, <2>3 DEF MaxDepth
  <2>5. PICK T : Levels(k - 1, T)
    BY <2>4
  <2>6. \E U : Levels(k, U)
    BY <1>2, <2>4, <2>5
  <2> QED
    BY <2>6
<1>4. PICK T : Levels(MaxDepth, T)
  <2>1. MaxDepth \in 0 .. MaxDepth
    BY DEF MaxDepth
  <2> HIDE DEF Levels
  <2> QED
    BY <1>3, <2>1
<1>5. IsTree(p, T)
  <2>1. \A n \in Names, d \in 0 .. MaxDepth : T[d][n] = NodeOn(n, d, p, T)
    BY <1>4 DEF MaxDepth
  <2> QED
    BY <1>4, <2>1 DEF IsTree
<1> QED
  BY <1>5

\* What a tree has at each node.
LEMMA TreeNode ==
  ASSUME NEW p, NEW T, IsTree(p, T), NEW d \in 0 .. MaxDepth, NEW n \in Names
  PROVE  T[d][n] = NodeOn(n, d, p, T)
<1> DEFINE V == [e \in 0 .. MaxDepth |-> [m \in Names |-> NodeOn(m, e, p, T)]]
<1>1. V[d][n] = NodeOn(n, d, p, T)
  OBVIOUS
<1>2. T = V
  BY DEF IsTree
<1> HIDE DEF V
<1> QED
  BY <1>1, <1>2

LEMMA BareNode ==
  ASSUME TypeOK, NEW p, NEW T, IsTree(p, T), NEW d \in 0 .. MaxDepth,
         NEW n \in Names, Exists(n), Kids(n) = {}
  PROVE  T[d][n] = OwnOn(n, p)
<1>1. Total([r \in Kids(n) |-> T[d + 1][r]], Kids(n)) = 0
  BY TotalSmall
<1>2. OwnOn(n, p) \in Nat
  BY OwnNat
<1>3. T[d][n] = OwnOn(n, p) + IF d < MaxDepth
                            THEN Total([r \in Kids(n) |-> T[d + 1][r]], Kids(n)) ELSE 0
  BY TreeNode DEF NodeOn
<1>4. T[d][n] = OwnOn(n, p) + 0
  BY <1>1, <1>3, Zenon
<1> QED
  BY <1>2, <1>4

\* A node whose sub-LVs have none of their own.
LEMMA ShallowNode ==
  ASSUME TypeOK, NEW p, NEW T, IsTree(p, T), NEW d \in 0 .. MaxDepth, d < MaxDepth,
         NEW n \in Names, Exists(n), \A r \in Kids(n) : Kids(r) = {}
  PROVE  T[d][n] = OwnOn(n, p) + Total(Owns(p), Kids(n))
<1> DEFINE f == [r \in Kids(n) |-> T[d + 1][r]]
<1>1. d + 1 \in 0 .. MaxDepth
  BY DEF MaxDepth
<1>2. Kids(n) \in SUBSET Names /\ IsFiniteSet(Kids(n)) /\ \A r \in Kids(n) : Exists(r)
  BY KidsOf DEF Kids
<1>3. \A r \in Kids(n) : f[r] = Owns(p)[r]
  BY <1>1, <1>2, BareNode, OwnNat
<1> HIDE DEF f
<1>4. Total(f, Kids(n)) = Total(Owns(p), Kids(n))
  BY <1>2, <1>3, TotalSame
<1> QED
  BY <1>4, TreeNode DEF NodeOn, f

\* What an LV has with its sub-LVs.
LEMMA FamilySum ==
  ASSUME TypeOK, NEW l \in LVs, Exists(l), NEW p
  PROVE  /\ FamilyOn(l, p) = OwnOn(l, p) + Total(Owns(p), There(SubsOf(l)))
         /\ OwnOn(l, p) \in Nat /\ Total(Owns(p), There(SubsOf(l))) \in Nat
<1>1. l \in Names /\ SubsOf(l) \in SUBSET Names /\ l \notin SubsOf(l)
  BY Families, SubNames DEF Family
<1>2. There(Family(l)) = There(SubsOf(l)) \cup {l} /\ l \notin There(SubsOf(l))
  BY <1>1 DEF There, Family
<1>3. /\ IsFiniteSet(There(SubsOf(l))) /\ Total(Owns(p), There(SubsOf(l))) \in Nat
      /\ \A n \in There(SubsOf(l)) : Owns(p)[n] \in Nat
  BY <1>1, ThereFinite
<1>4. Owns(p)[l] = OwnOn(l, p) /\ OwnOn(l, p) \in Nat
  BY <1>1, OwnNat
<1>5. \A n \in There(SubsOf(l)) \cup {l} : Owns(p)[n] \in Nat
  BY <1>3, <1>4
<1>6. Total(Owns(p), There(SubsOf(l)) \cup {l}) = Total(Owns(p), There(SubsOf(l))) + Owns(p)[l]
  BY <1>2, <1>3, <1>5, TotalAdd
<1> QED
  BY <1>2, <1>3, <1>4, <1>6 DEF FamilyOn

\* Sub-LVs are leaves.
LEMMA SubLeaves ==
  ASSUME LvmInv, NEW l \in LVs, NEW n \in There(SubsOf(l))
  PROVE  n \in Names /\ Exists(n) /\ Kids(n) = {}
<1>1. n \in Names /\ Exists(n) /\ Refs(n) = {}
  BY Families DEF LvmInv, Fits, SubsBare, There, Family
<1> QED
  BY <1>1, KidsOf DEF LvmInv, There

\* An LV made of its own parts has what LVM holds for it.
LEMMA WholeTree ==
  ASSUME LvmInv, NEW p \in PVs, NEW T, IsTree(p, T), NEW d \in 0 .. MaxDepth,
         NEW l \in LVs, Exists(l), Whole(l)
  PROVE  /\ d < MaxDepth => T[d][l] = held[l][p]
         /\ T[d][l] \in Nat /\ T[d][l] <= held[l][p]
<1>1. TypeOK /\ l \in Names
  BY SubNames DEF LvmInv
<1>2. Kids(l) = There(SubsOf(l))
  BY <1>1, KidsOf DEF Whole, There
<1>3. \A r \in Kids(l) : Kids(r) = {}
  BY <1>2, SubLeaves
<1>4. /\ held[l][p] = OwnOn(l, p) + Total(Owns(p), There(SubsOf(l)))
      /\ OwnOn(l, p) \in Nat /\ Total(Owns(p), There(SubsOf(l))) \in Nat
  BY <1>1, FamilySum DEF LvmInv, Fits, AreasHeld
<1>5. CASE d < MaxDepth
  <2>1. T[d][l] = OwnOn(l, p) + Total(Owns(p), Kids(l))
    BY <1>1, <1>3, <1>5, ShallowNode
  <2> QED
    BY <1>2, <1>4, <2>1
<1>6. CASE ~(d < MaxDepth)
  <2>1. T[d][l] = OwnOn(l, p) + 0
    BY <1>1, <1>6, TreeNode DEF NodeOn
  <2> QED
    BY <1>4, <1>6, <2>1
<1> QED
  BY <1>5, <1>6

\* A thin LV has nothing of its own, and names others of its pool.
LEMMA ThinParts ==
  ASSUME LvmInv, NEW l \in LVs, NEW pool \in LVs, ThinIn(l, pool)
  PROVE  /\ l \in Names /\ Exists(l) /\ \A p \in PVs : OwnOn(l, p) = 0
         /\ Kids(l) = Refs(l) /\ IsFiniteSet(Kids(l))
         /\ pool \in Kids(l) /\ Exists(pool) /\ Whole(pool)
         /\ \A k \in Kids(l) \ {pool} : k \in LVs /\ ThinIn(k, pool)
<1>1. TypeOK /\ l \in Names /\ Exists(l)
  BY SubNames DEF LvmInv, ThinIn, Visible
<1>2. ASSUME NEW p \in PVs PROVE OwnOn(l, p) = 0
  <2>1. FamilyOn(l, p) = 0
    BY DEF LvmInv, Fits, AreasHeld, ThinIn, Nowhere
  <2> QED
    BY <1>1, <2>1, FamilySum
<1>3. Exists(pool) /\ Whole(pool) /\ basis[pool] = {pool}
  BY DEF ThinIn, IsPool, Visible, Whole
<1>4. Kids(l) = Refs(l)
  BY <1>1, <1>3, KidsOf DEF ThinIn, There
<1>5. ASSUME NEW k \in Refs(l) \ {pool} PROVE k \in LVs /\ ThinIn(k, pool)
  <2>1. k \in LVs /\ Exists(k) /\ basis[k] = {pool} /\ k # pool
    BY DEF ThinIn
  <2>2. ~Whole(k)
    BY <2>1 DEF Whole
  <2>3. \A f \in LVs : ~CachedBy(k, f)
    BY <2>1 DEF CachedBy
  <2>4. PICK q \in LVs : ThinIn(k, q)
    BY <2>1, <2>2, <2>3 DEF LvmInv, Fits, Shaped
  <2>5. q = pool
    BY <2>1, <2>4 DEF ThinIn
  <2> QED
    BY <2>1, <2>4, <2>5
<1> QED
  BY <1>1, <1>2, <1>3, <1>4, <1>5, KidsOf DEF ThinIn

\* At no depth does a thin LV reach a PV that its pool is not on.
LEMMA ThinTree ==
  ASSUME LvmInv, NEW p \in PVs, NEW T, IsTree(p, T)
  PROVE  \A d \in 0 .. MaxDepth : \A l, pool \in LVs : ThinIn(l, pool) =>
           T[d][l] \in Nat /\ (T[d][l] > 0 => held[pool][p] > 0)
<1> DEFINE Bounded(d) == \A l, pool \in LVs : ThinIn(l, pool) =>
                           T[d][l] \in Nat /\ (T[d][l] > 0 => held[pool][p] > 0)
           Over == {k \in 0 .. MaxDepth : ~Bounded(MaxDepth - k)}
<1>1. ASSUME NEW d \in 0 .. MaxDepth, d < MaxDepth => Bounded(d + 1) PROVE Bounded(d)
  <2> SUFFICES ASSUME NEW l \in LVs, NEW pool \in LVs, ThinIn(l, pool)
               PROVE  T[d][l] \in Nat /\ (T[d][l] > 0 => held[pool][p] > 0)
    OBVIOUS
  <2>1. /\ l \in Names /\ Exists(l) /\ OwnOn(l, p) = 0 /\ IsFiniteSet(Kids(l))
        /\ pool \in Kids(l) /\ Exists(pool) /\ Whole(pool)
        /\ \A k \in Kids(l) \ {pool} : k \in LVs /\ ThinIn(k, pool)
    BY ThinParts
  <2>2. held[pool][p] \in Nat
    BY DEF LvmInv, TypeOK
  <2>3. CASE d < MaxDepth
    <3> DEFINE f == [r \in Kids(l) |-> T[d + 1][r]]
    <3>1. d + 1 \in 0 .. MaxDepth
      BY <2>3 DEF MaxDepth
    <3>2. T[d + 1][pool] \in Nat /\ T[d + 1][pool] <= held[pool][p]
      BY <2>1, <3>1, WholeTree
    <3>3. \A r \in Kids(l) : f[r] \in Nat /\ (f[r] > 0 => held[pool][p] > 0)
      BY <1>1, <2>1, <2>2, <2>3, <3>2
    <3>4. T[d][l] = 0 + Total(f, Kids(l))
      BY <2>1, <2>3, TreeNode DEF NodeOn
    <3> HIDE DEF f
    <3>5. Total(f, Kids(l)) \in Nat /\ (Total(f, Kids(l)) > 0 => \E r \in Kids(l) : f[r] > 0)
      BY <2>1, <3>3, TotalElement, TotalPositive
    <3> QED
      BY <3>3, <3>4, <3>5
  <2>4. CASE ~(d < MaxDepth)
    <3>1. T[d][l] = 0 + 0
      BY <2>1, <2>4, TreeNode DEF NodeOn
    <3> QED
      BY <3>1
  <2> QED
    BY <2>3, <2>4
<1>2. Over = {}
  <2> SUFFICES ASSUME Over # {} PROVE FALSE
    OBVIOUS
  <2>1. Over \in SUBSET Nat
    BY DEF MaxDepth
  <2>2. PICK k \in Over : \A j \in Over : k <= j
    <3> HIDE DEF Over
    <3> QED
      BY <2>1, LeastNat
  <2> DEFINE d == MaxDepth - k
  <2>3. d \in 0 .. MaxDepth /\ ~Bounded(d)
    BY DEF MaxDepth
  <2>4. d < MaxDepth => Bounded(d + 1)
    <3> SUFFICES ASSUME d < MaxDepth PROVE Bounded(d + 1)
      OBVIOUS
    <3>1. k - 1 \in 0 .. MaxDepth /\ k - 1 < k /\ MaxDepth - (k - 1) = d + 1
      BY DEF MaxDepth
    <3>2. k - 1 \notin Over
      BY <2>1, <2>2, <3>1
    <3> HIDE DEF Bounded, d
    <3> QED
      BY <3>1, <3>2
  <2> HIDE DEF Bounded, d
  <2> QED
    BY <1>1, <2>3, <2>4
<1>3. ASSUME NEW d \in 0 .. MaxDepth PROVE Bounded(d)
  <2>1. MaxDepth - d \in 0 .. MaxDepth /\ MaxDepth - (MaxDepth - d) = d
    BY DEF MaxDepth
  <2> HIDE DEF Bounded
  <2> QED
    BY <1>2, <2>1
<1> QED
  BY <1>3

\* The layout that is read of an LV, in each of its shapes.
LEMMA WholeRead ==
  ASSUME LvmInv, NEW l \in LVs, Exists(l), Whole(l), NEW p \in PVs
  PROVE  /\ TreeOn(l, p) = ExtentsOn(l, p)
         /\ TreeOn(l, p) > 0 <=> \E b \in basis[l] : held[b][p] > 0
<1>1. PICK T : IsTree(p, T) /\ TreeOn(l, p) = T[0][l]
  BY TreeExists, TreeIs
<1>2. TreeOn(l, p) = held[l][p]
  BY <1>1, WholeTree DEF MaxDepth
<1>3. held[l][p] \in Nat /\ basis[l] = {l}
  BY DEF LvmInv, TypeOK, Whole
<1> DEFINE f == [b \in {l} |-> held[b][p]]
<1>4. f[l] = held[l][p]
  OBVIOUS
<1> HIDE DEF f
<1>5. Total(f, {l}) = held[l][p]
  BY <1>3, <1>4, TotalSmall
<1> QED
  BY <1>2, <1>3, <1>5, ExtentsTotal DEF f

LEMMA ThinRead ==
  ASSUME LvmInv, NEW l \in LVs, NEW pool \in LVs, ThinIn(l, pool), NEW p \in PVs
  PROVE  /\ ~ReachedTwice(l) => TreeOn(l, p) = ExtentsOn(l, p)
         /\ TreeOn(l, p) > 0 <=> \E b \in basis[l] : held[b][p] > 0
<1>1. PICK T : IsTree(p, T) /\ TreeOn(l, p) = T[0][l]
  BY TreeExists, TreeIs
<1>2. /\ l \in Names /\ OwnOn(l, p) = 0 /\ IsFiniteSet(Kids(l))
      /\ pool \in Kids(l) /\ Exists(pool) /\ Whole(pool)
      /\ \A k \in Kids(l) \ {pool} : k \in LVs /\ ThinIn(k, pool)
  BY ThinParts
<1>3. held[pool][p] \in Nat /\ basis[l] = {pool}
  BY DEF LvmInv, TypeOK, ThinIn
<1> DEFINE f == [r \in Kids(l) |-> T[0 + 1][r]]
           g == [b \in {pool} |-> held[b][p]]
<1>4. T[0][l] = 0 + Total(f, Kids(l))
  <2>1. T[0][l] = NodeOn(l, 0, p, T)
    BY <1>1, <1>2, TreeNode DEF MaxDepth
  <2>2. 0 < MaxDepth
    BY DEF MaxDepth
  <2> QED
    BY <1>2, <2>1, <2>2 DEF NodeOn
<1>5. f[pool] = held[pool][p]
  <2>1. T[1][pool] = held[pool][p]
    BY <1>1, <1>2, WholeTree DEF MaxDepth
  <2> QED
    BY <1>2, <2>1
<1>6. \A r \in Kids(l) : f[r] \in Nat /\ (f[r] > 0 => held[pool][p] > 0)
  <2>1. 1 \in 0 .. MaxDepth
    BY DEF MaxDepth
  <2>2. \A k \in Kids(l) \ {pool} : T[1][k] \in Nat /\ (T[1][k] > 0 => held[pool][p] > 0)
    BY <1>1, <1>2, <2>1, ThinTree
  <2> QED
    BY <1>3, <1>5, <2>2
<1>7. g[pool] = held[pool][p]
  OBVIOUS
<1>8. TreeOn(l, p) > 0 <=> held[pool][p] > 0
  <2> HIDE DEF f
  <2>1. Total(f, Kids(l)) > 0 <=> \E r \in Kids(l) : f[r] > 0
    BY <1>2, <1>6, TotalPositive
  <2>2. Total(f, Kids(l)) \in Nat
    BY <1>2, <1>6, TotalElement
  <2> QED
    BY <1>1, <1>2, <1>4, <1>5, <1>6, <2>1, <2>2
<1>9. ASSUME ~ReachedTwice(l) PROVE TreeOn(l, p) = ExtentsOn(l, p)
  <2>1. Kids(l) = {pool}
    <3> SUFFICES ASSUME NEW k \in Kids(l), k # pool PROVE FALSE
      BY <1>2
    <3>1. k \in LVs /\ ThinIn(k, pool)
      BY <1>2
    <3>2. pool \in Kids(k)
      BY <3>1, ThinParts
    <3> QED
      BY <1>2, <1>9, <3>2 DEF ReachedTwice
  <2> HIDE DEF f, g
  <2>2. Total(f, Kids(l)) = held[pool][p]
    BY <1>3, <1>5, <2>1, TotalSmall
  <2>3. Total(g, {pool}) = held[pool][p]
    BY <1>3, <1>7, TotalSmall
  <2>4. ExtentsOn(l, p) = Total(g, {pool})
    BY <1>3, ExtentsTotal DEF g
  <2> QED
    BY <1>1, <1>3, <1>4, <2>2, <2>3, <2>4
<1> QED
  BY <1>3, <1>8, <1>9

LEMMA CachedRead ==
  ASSUME LvmInv, NEW l \in LVs, Exists(l), NEW fast \in LVs, CachedBy(l, fast), NEW p \in PVs
  PROVE  /\ TreeOn(l, p) = ExtentsOn(l, p)
         /\ TreeOn(l, p) > 0 <=> \E b \in basis[l] : held[b][p] > 0
<1> DEFINE orig == << l, "corig", 0 >>
           kids == {orig, fast}
           both == {l, fast}
           f == [b \in both |-> held[b][p]]
<1>1. PICK T : IsTree(p, T) /\ TreeOn(l, p) = T[0][l]
  BY TreeExists, TreeIs
<1>2. TypeOK /\ l \in Names /\ fast \in Names /\ orig \in Names
  BY SubNames DEF LvmInv
<1>3. /\ basis[l] = both /\ l # fast
      /\ There(SubsOf(l)) = {orig} /\ Refs(l) = kids /\ Exists(fast)
      /\ Refs(fast) = {} /\ There(SubsOf(fast)) = {}
  BY DEF CachedBy, Whole
<1>4. Exists(orig) /\ orig \in SubsOf(l)
  BY <1>3 DEF There
<1>5. orig # fast
  BY <1>4, Families
<1>6. Kids(l) = kids /\ Kids(orig) = {} /\ Kids(fast) = {}
  <2>1. Kids(orig) = {}
    BY <1>3, SubLeaves
  <2>2. Kids(fast) = {} /\ Kids(l) = kids
    BY <1>2, <1>3, <1>4, KidsOf DEF There
  <2> QED
    BY <2>1, <2>2
<1>7. \A r \in Kids(l) : Kids(r) = {}
  BY <1>6
<1>8. f[l] = held[l][p] /\ f[fast] = held[fast][p]
  OBVIOUS
<1> HIDE DEF orig
<1>9. /\ Owns(p)[orig] = OwnOn(orig, p) /\ OwnOn(orig, p) \in Nat
      /\ Owns(p)[fast] = OwnOn(fast, p) /\ OwnOn(fast, p) \in Nat
  BY <1>2, <1>3, <1>4, OwnNat
<1>10. Total(Owns(p), kids) = OwnOn(orig, p) + OwnOn(fast, p)
  <2>1. orig \in kids /\ fast \in kids /\ \A x \in kids : x = orig \/ x = fast
    OBVIOUS
  <2> HIDE DEF kids
  <2> QED
    BY <1>5, <1>9, <2>1, TotalPair
<1>11. held[l][p] = OwnOn(l, p) + OwnOn(orig, p) /\ OwnOn(l, p) \in Nat
  <2> DEFINE subs == There(SubsOf(l))
  <2>1. held[l][p] = OwnOn(l, p) + Total(Owns(p), subs) /\ OwnOn(l, p) \in Nat
    BY <1>2, FamilySum DEF LvmInv, Fits, AreasHeld
  <2>2. subs = {orig}
    BY <1>3
  <2> HIDE DEF subs
  <2>3. Total(Owns(p), subs) = OwnOn(orig, p)
    BY <1>9, <2>2, TotalSmall
  <2> QED
    BY <2>1, <2>3
<1>12. held[fast][p] = OwnOn(fast, p)
  <2> DEFINE subs == There(SubsOf(fast))
  <2>1. held[fast][p] = OwnOn(fast, p) + Total(Owns(p), subs)
    BY <1>2, <1>3, FamilySum DEF LvmInv, Fits, AreasHeld
  <2>2. subs = {}
    BY <1>3
  <2> HIDE DEF subs
  <2> QED
    BY <1>9, <2>1, <2>2, TotalSmall
<1> HIDE DEF kids
<1>13. T[0][l] = OwnOn(l, p) + (OwnOn(orig, p) + OwnOn(fast, p))
  <2>1. 0 \in 0 .. MaxDepth /\ 0 < MaxDepth
    BY DEF MaxDepth
  <2>2. T[0][l] = OwnOn(l, p) + Total(Owns(p), Kids(l))
    BY <1>1, <1>2, <1>7, <2>1, ShallowNode
  <2> QED
    BY <1>6, <1>10, <2>2
<1>14. held[l][p] \in Nat /\ held[fast][p] \in Nat
  BY DEF LvmInv, TypeOK
<1>15. ExtentsOn(l, p) = held[l][p] + held[fast][p]
  <2>1. l \in both /\ fast \in both /\ \A x \in both : x = l \/ x = fast
    OBVIOUS
  <2> HIDE DEF both, f
  <2>2. Total(f, both) = held[l][p] + held[fast][p]
    BY <1>3, <1>8, <1>14, <2>1, TotalPair
  <2> QED
    BY <1>3, <2>2, ExtentsTotal DEF f
<1>16. TreeOn(l, p) = held[l][p] + held[fast][p]
  BY <1>1, <1>9, <1>11, <1>12, <1>13
<1> QED
  BY <1>3, <1>14, <1>15, <1>16

LEMMA LvmReads ==
  ASSUME LvmInv
  PROVE  LvmAccounted
<1>1. ASSUME NEW l \in LVs, Visible(l), NEW p \in PVs
      PROVE  /\ ~ReachedTwice(l) => TreeOn(l, p) = ExtentsOn(l, p)
             /\ TreeOn(l, p) > 0 <=> \E b \in basis[l] : held[b][p] > 0
  <2>1. Exists(l) /\ Shaped(l)
    BY <1>1 DEF LvmInv, Fits, Visible
  <2>2. CASE Whole(l)
    BY <2>1, <2>2, WholeRead
  <2>3. ASSUME NEW k \in LVs, ThinIn(l, k)
        PROVE  /\ ~ReachedTwice(l) => TreeOn(l, p) = ExtentsOn(l, p)
               /\ TreeOn(l, p) > 0 <=> \E b \in basis[l] : held[b][p] > 0
    BY <2>3, ThinRead
  <2>4. ASSUME NEW k \in LVs, CachedBy(l, k)
        PROVE  /\ ~ReachedTwice(l) => TreeOn(l, p) = ExtentsOn(l, p)
               /\ TreeOn(l, p) > 0 <=> \E b \in basis[l] : held[b][p] > 0
    BY <2>1, <2>4, CachedRead
  <2> QED
    BY <2>1, <2>2, <2>3, <2>4 DEF Shaped
<1>2. ASSUME NEW l \in LVs, Visible(l) PROVE LayoutOf(l) = PvsUnder(l)
  BY <1>1, <1>2 DEF LayoutOf, PvsUnder
<1>3. \A p \in PVs : UsedOn(p) = Held(p)
  BY UsedIsHeld DEF LvmInv, Fits
<1> QED
  BY <1>1, <1>2, <1>3 DEF LvmAccounted

-------------------------------------------------------------------------------
(***************************************************************************)
(* What the LVM commands keep.                                             *)
(***************************************************************************)

\* A name keeps what it has, and names what it named but X; an LV stays as it is
\* with its sub-LVs.
Lasts(n, X) ==
  /\ Exists(n)' = Exists(n)
  /\ Exists(n) => /\ Visible(n)' = Visible(n) /\ Refs(n)' = Refs(n) \ X
                  /\ \A p \in PVs : OwnOn(n, p)' = OwnOn(n, p)
Stays(l, X) ==
  /\ held'[l] = held[l] /\ basis'[l] = basis[l]
  /\ \A n \in Family(l) : Lasts(n, X)

\* No other LV lies on those of C, or names one of them that is not in X.
ApartFrom(C, X) ==
  \A l \in LVs \ C : basis[l] \cap C = {} /\ (Exists(l) => Refs(l) \cap C \subseteq X)

LEMMA OwnNow ==
  ASSUME NEW n, NEW p
  PROVE  OwnOn(n, p)' = VolumeOn(lvs'[n], p)
<1>1. OwnOn(n, p) = VolumeOn(lvs[n], p)
  BY OwnTotal
<1>2. (OwnOn(n, p) = VolumeOn(lvs[n], p))'
  BY <1>1, PTL
<1> QED
  BY <1>2 DEF VolumeOn

\* A name that is not written lasts.
LEMMA NameKept ==
  ASSUME NEW n, lvs'[n] = lvs[n]
  PROVE  Lasts(n, {})
<1>1. Exists(n)' = Exists(n) /\ Visible(n)' = Visible(n)
  BY DEF Exists, Visible
<1>2. Refs(n)' = Refs(n)
  BY DEF Refs, RefsOf
<1>3. ASSUME NEW p PROVE OwnOn(n, p)' = OwnOn(n, p)
  BY OwnTotal, OwnNow
<1> QED
  BY <1>1, <1>2, <1>3 DEF Lasts

\* What a family has goes by its members.
LEMMA FamilyOnNow ==
  ASSUME TypeOK', NEW l \in LVs, NEW p, NEW S, There(Family(l))' = S,
         NEW f, \A n \in S : f[n] = OwnOn(n, p)'
  PROVE  FamilyOn(l, p)' = Total(f, S)
<1> DEFINE g == [n \in Names |-> OwnOn(n, p)']
<1>1. Family(l) \subseteq Names
  BY Families
<1>2. S \in SUBSET Names
  BY <1>1 DEF There, Family, SubsOf
<1>3. FamilyOn(l, p)' = Total(g, S)
  BY DEF FamilyOn, Owns
<1>4. \A n \in S : g[n] = f[n]
  BY <1>2
<1> HIDE DEF g
<1> QED
  BY <1>2, <1>3, <1>4, NamesFinite, TotalSame

LEMMA FamilyKept ==
  ASSUME TypeOK, TypeOK', NEW l \in LVs, NEW X, Stays(l, X), AreasHeld(l)
  PROVE  AreasHeld(l)'
<1> SUFFICES ASSUME NEW p \in PVs PROVE FamilyOn(l, p)' = held'[l][p]
  BY DEF AreasHeld
<1> DEFINE S == There(Family(l))
<1>1. There(Family(l))' = S
  BY DEF There, Stays, Lasts, Family, SubsOf
<1>2. \A n \in S : Owns(p)[n] = OwnOn(n, p)'
  <2>1. \A n \in S : Owns(p)[n] = OwnOn(n, p)
    BY Families, ThereFinite
  <2>2. \A n \in S : OwnOn(n, p)' = OwnOn(n, p)
    BY DEF There, Stays, Lasts
  <2> QED
    BY <2>1, <2>2
<1>3. FamilyOn(l, p) = Total(Owns(p), S)
  BY DEF FamilyOn
<1> DEFINE f == Owns(p)
<1>4. \A n \in S : f[n] = OwnOn(n, p)'
  BY <1>2
<1>5. FamilyOn(l, p) = Total(f, S)
  BY <1>3
<1> HIDE DEF S, f
<1>6. FamilyOn(l, p)' = Total(f, S)
  BY <1>1, <1>4, FamilyOnNow
<1> QED
  BY <1>5, <1>6 DEF Stays, AreasHeld

\* The shapes of what stays.
LEMMA WholeKept ==
  ASSUME NEW l \in LVs, NEW X \in SUBSET LVs, Stays(l, X), Exists(l), Whole(l)
  PROVE  Whole(l)'
<1>1. There(SubsOf(l))' = There(SubsOf(l))
  BY DEF There, Stays, Lasts, Family, SubsOf
<1>2. Refs(l)' = Refs(l) \ X
  BY DEF Stays, Lasts, Family
<1>3. Refs(l) \cap X = {}
  BY Families DEF Whole, There
<1> QED
  BY <1>1, <1>2, <1>3 DEF Whole, Stays

LEMMA ThinKept ==
  ASSUME LvmInv, NEW C \in SUBSET LVs, NEW X \in SUBSET C, ApartFrom(C, X),
         \A k \in LVs \ C : Stays(k, X),
         NEW l \in LVs \ C, NEW pool \in LVs, ThinIn(l, pool)
  PROVE  ThinIn(l, pool)'
<1>1. Stays(l, X) /\ Exists(l) /\ Visible(l)
  BY DEF ThinIn, Visible
<1>2. pool \in LVs \ C /\ Stays(pool, X)
  BY DEF ThinIn, ApartFrom
<1>3. There(SubsOf(l))' = There(SubsOf(l))
  BY <1>1 DEF There, Stays, Lasts, Family, SubsOf
<1>4. Visible(l)' /\ Refs(l)' = Refs(l) \ X /\ held'[l] = held[l] /\ basis'[l] = basis[l]
  BY <1>1 DEF Stays, Lasts, Family
<1>5. IsPool(pool)'
  <2>1. << pool, "tdata", 0 >> \in Family(pool) /\ pool \in Family(pool)
    <3>1. << "tdata", 0 >> \in Subs
      BY DEF Subs
    <3> QED
      BY <3>1 DEF Family, SubsOf
  <2>2. Exists(<< pool, "tdata", 0 >>)' /\ Visible(pool)'
    BY <1>2, <2>1 DEF ThinIn, IsPool, Visible, Stays, Lasts
  <2> QED
    BY <2>2 DEF IsPool
<1>6. Whole(pool)'
  BY <1>2, WholeKept DEF ThinIn, IsPool, Visible
<1>7. pool \in Refs(l)'
  BY <1>2, <1>4 DEF ThinIn
<1>8. ASSUME NEW k \in Refs(l)', k # pool
      PROVE  k \in LVs /\ Exists(k)' /\ basis'[k] = {pool}
  <2>1. k \in Refs(l) \ {pool} /\ k \notin X
    BY <1>4, <1>8
  <2>2. k \in LVs /\ Exists(k) /\ basis[k] = {pool}
    BY <2>1 DEF ThinIn
  <2>3. k \notin C
    BY <1>1, <2>1 DEF ApartFrom
  <2>4. Stays(k, X)
    BY <2>2, <2>3
  <2> QED
    BY <2>2, <2>4 DEF Stays, Lasts, Family
<1> QED
  BY <1>3, <1>4, <1>5, <1>6, <1>7, <1>8 DEF ThinIn, Nowhere

LEMMA CachedKept ==
  ASSUME LvmInv, NEW C \in SUBSET LVs, NEW X \in SUBSET C, ApartFrom(C, X),
         \A k \in LVs \ C : Stays(k, X),
         NEW l \in LVs \ C, Exists(l), NEW fast \in LVs, CachedBy(l, fast)
  PROVE  CachedBy(l, fast)'
<1>1. Stays(l, X)
  OBVIOUS
<1>2. fast \in LVs \ C /\ Stays(fast, X)
  BY DEF CachedBy, ApartFrom
<1>3. There(SubsOf(l))' = There(SubsOf(l))
  BY <1>1 DEF There, Stays, Lasts, Family, SubsOf
<1>4. Refs(l)' = Refs(l) \ X /\ basis'[l] = basis[l]
  BY <1>1 DEF Stays, Lasts, Family
<1>5. Refs(l) \cap X = {}
  <2>1. << l, "corig", 0 >> \notin LVs
    <3>1. << "corig", 0 >> \in Subs
      BY DEF Subs
    <3> QED
      BY <3>1, Families DEF SubsOf
  <2> QED
    BY <1>2, <2>1 DEF CachedBy
<1>6. Exists(fast)' /\ ~Visible(fast)' /\ Refs(fast)' = {}
  BY <1>2 DEF CachedBy, Stays, Lasts, Family
<1>7. Whole(fast)'
  BY <1>2, WholeKept DEF CachedBy
<1> QED
  BY <1>3, <1>4, <1>5, <1>6, <1>7 DEF CachedBy

\* What a command does not touch fits as it did.
LEMMA OthersFit ==
  ASSUME LvmInv, TypeOK', NEW C \in SUBSET LVs, NEW X \in SUBSET C, ApartFrom(C, X),
         \A k \in LVs \ C : Stays(k, X), NEW l \in LVs \ C
  PROVE  Fits(l)'
<1>1. Fits(l) /\ TypeOK /\ Stays(l, X)
  BY DEF LvmInv
<1>2. SubsBare(l)'
  <2>1. \A n \in SubsOf(l) : Exists(n) => Refs(n) = {} /\ Exists(l)
    BY <1>1 DEF Fits, SubsBare
  <2>2. \A n \in SubsOf(l) : Lasts(n, X)
    BY <1>1 DEF Stays, Family
  <2>3. Lasts(l, X)
    BY <1>1 DEF Stays, Family
  <2>4. \A n \in SubsOf(l) : Exists(n)' => Refs(n)' = {} /\ Exists(l)'
    BY <2>1, <2>2, <2>3 DEF Lasts
  <2> QED
    BY <2>4 DEF SubsBare, SubsOf
<1>3. AbsentBare(l)'
  BY <1>1 DEF Fits, AbsentBare, Stays, Lasts, Family
<1>4. AreasHeld(l)'
  BY <1>1, FamilyKept DEF Fits
<1>5. Exists(l)' => Shaped(l)'
  <2> SUFFICES ASSUME Exists(l)' PROVE Shaped(l)'
    OBVIOUS
  <2>1. Exists(l) /\ Shaped(l)
    BY <1>1 DEF Fits, Stays, Lasts, Family
  <2>2. CASE Whole(l)
    <3>1. Whole(l)'
      BY <1>1, <2>1, <2>2, WholeKept
    <3> QED
      BY <3>1 DEF Shaped
  <2>3. CASE \E k \in LVs : ThinIn(l, k)
    <3>1. \E k \in LVs : ThinIn(l, k)'
      BY <2>3, ThinKept
    <3> QED
      BY <3>1 DEF Shaped
  <2>4. CASE \E k \in LVs : CachedBy(l, k)
    <3>1. \E k \in LVs : CachedBy(l, k)'
      BY <2>1, <2>4, CachedKept
    <3> QED
      BY <3>1 DEF Shaped
  <2> QED
    BY <2>1, <2>2, <2>3, <2>4 DEF Shaped
<1> QED
  BY <1>2, <1>3, <1>4, <1>5 DEF Fits

\* A command keeps the invariant if what it wrote fits.
LEMMA Rewritten ==
  ASSUME LvmInv, TypeOK', NEW C \in SUBSET LVs, NEW X \in SUBSET C, ApartFrom(C, X),
         \A k \in LVs \ C : Stays(k, X),
         \A c \in C : Fits(c)',
         \A c \in C : \A b \in basis'[c] \ {c} :
           Visible(b)' \/ (b \in C /\ \A d \in C \ {c, b} : b \notin basis'[d])
  PROVE  LvmInv'
<1>1. \A l \in LVs : Fits(l)'
  BY OthersFit
<1>2. ASSUME NEW l \in LVs, NEW k \in LVs, l # k,
             NEW b \in (basis'[l] \cap basis'[k]) \ {l, k}
      PROVE  Visible(b)'
  <2>1. CASE l \notin C /\ k \notin C
    <3>1. Stays(l, X) /\ Stays(k, X)
      BY <2>1
    <3>2. b \in (basis[l] \cap basis[k]) \ {l, k}
      BY <1>2, <3>1 DEF Stays
    <3>3. Visible(b) /\ b \in LVs
      BY <1>2, <3>2 DEF LvmInv, FastOwn, TypeOK
    <3>4. b \notin C
      BY <2>1, <3>2 DEF ApartFrom
    <3> QED
      BY <3>3, <3>4 DEF Stays, Lasts, Family, Visible
  <2>2. ASSUME NEW c \in C, NEW d \in LVs \ C, b \in basis'[c] \ {c}, b \in basis'[d]
        PROVE  Visible(b)'
    <3>1. Stays(d, X)
      BY <2>2
    <3>2. b \notin C
      BY <2>2, <3>1 DEF ApartFrom, Stays
    <3> QED
      BY <2>2, <3>2
  <2>3. CASE l \in C /\ k \notin C
    BY <1>2, <2>2, <2>3
  <2>4. CASE l \notin C /\ k \in C
    BY <1>2, <2>2, <2>4
  <2>5. CASE l \in C /\ k \in C
    BY <1>2, <2>5
  <2> QED
    BY <2>1, <2>3, <2>4, <2>5
<1>3. FastOwn'
  BY <1>2 DEF FastOwn
<1> QED
  BY <1>1, <1>3 DEF LvmInv

\* What is no LVM command keeps it.
LEMMA LvmUntouched ==
  ASSUME LvmInv, TypeOK', UNCHANGED << lvs, held, basis >>
  PROVE  LvmInv'
<1>1. \A k \in LVs : Stays(k, {})
  BY NameKept DEF Stays
<1>2. ApartFrom({}, {})
  BY DEF ApartFrom
<1> QED
  BY <1>1, <1>2, Rewritten

\* Nothing lies on an LV that is not there.
LEMMA AbsentApart ==
  ASSUME LvmInv, NEW l \in LVs, ~Exists(l)
  PROVE  ApartFrom({l}, {})
<1> SUFFICES ASSUME NEW k \in LVs \ {l}
             PROVE  l \notin basis[k] /\ (Exists(k) => l \notin Refs(k))
  BY DEF ApartFrom
<1>1. Fits(k)
  BY DEF LvmInv
<1>2. CASE ~Exists(k)
  BY <1>1, <1>2 DEF Fits, AbsentBare
<1>3. CASE Exists(k) /\ Whole(k)
  BY <1>3, Families DEF Whole, There
<1>4. CASE Exists(k) /\ \E j \in LVs : ThinIn(k, j)
  BY <1>4 DEF ThinIn, IsPool, Visible
<1>5. CASE Exists(k) /\ \E j \in LVs : CachedBy(k, j)
  BY <1>5, Families DEF CachedBy, There
<1> QED
  BY <1>1, <1>2, <1>3, <1>4, <1>5 DEF Fits, Shaped

\* Nor on one that is a volume on areas of its own.
LEMMA OwnApart ==
  ASSUME LvmInv, NEW l \in LVs, OwnAreas(l)
  PROVE  /\ Whole(l) /\ Refs(l) = {} /\ There(SubsOf(l)) = {} /\ Exists(l)
         /\ \A k \in LVs \ {l} : l \notin basis[k] /\ (Exists(k) => l \notin Refs(k))
<1>1. TypeOK /\ l \in Names /\ Exists(l) /\ Fits(l) /\ Kids(l) = {} /\ Visible(l)
  BY SubNames DEF LvmInv, OwnAreas, Visible
<1>2. ASSUME NEW k \in LVs, NEW j \in LVs, ThinIn(k, j) PROVE k # l /\ j # l /\ l \notin Refs(k)
  <2>1. \A i \in LVs : ThinIn(i, j) => i # l
    BY <1>1, ThinParts
  <2>2. j # l
    <3>1. << j, "tdata", 0 >> \in There(SubsOf(j))
      <4>1. << "tdata", 0 >> \in Subs
        BY DEF Subs
      <4> QED
        BY <1>2, <4>1 DEF ThinIn, IsPool, SubsOf, There
    <3>2. << j, "tdata", 0 >> \in Refs(j)
      BY <1>2, <3>1 DEF ThinIn, Whole
    <3>3. Kids(l) = There(Refs(l))
      BY <1>1, KidsOf
    <3> QED
      BY <1>1, <3>1, <3>2, <3>3 DEF There
  <2>3. \A i \in Refs(k) \ {j} : i \in LVs /\ ThinIn(i, j)
    BY <1>2, ThinParts
  <2> QED
    BY <1>2, <2>1, <2>2, <2>3
<1>3. \A k, j \in LVs : CachedBy(k, j) => k # l /\ j # l
  <2> SUFFICES ASSUME NEW k \in LVs, NEW j \in LVs, CachedBy(k, j) PROVE k # l /\ j # l
    OBVIOUS
  <2>1. j # l
    BY <1>1 DEF CachedBy
  <2>2. j \in Kids(k) \/ ~Exists(k)
    <3>1. Exists(k) => Kids(k) = There(Refs(k))
      BY <1>1, SubNames, KidsOf
    <3> QED
      BY <3>1 DEF CachedBy, There
  <2> QED
    BY <1>1, <2>1, <2>2
<1>4. Whole(l)
  BY <1>1, <1>2, <1>3 DEF Fits, Shaped
<1>5. Refs(l) = There(SubsOf(l)) /\ Refs(l) = {}
  <2>1. Refs(l) = There(SubsOf(l)) /\ Kids(l) = There(Refs(l))
    BY <1>1, <1>4, KidsOf DEF Whole
  <2> QED
    BY <1>1, <2>1 DEF There
<1>6. ASSUME NEW k \in LVs \ {l} PROVE l \notin basis[k] /\ (Exists(k) => l \notin Refs(k))
  <2>1. Fits(k)
    BY DEF LvmInv
  <2>2. CASE ~Exists(k)
    BY <2>1, <2>2 DEF Fits, AbsentBare
  <2>3. CASE Exists(k) /\ Whole(k)
    BY <2>3, Families DEF Whole, There
  <2>4. ASSUME Exists(k), NEW j \in LVs, ThinIn(k, j)
        PROVE  l \notin basis[k] /\ (Exists(k) => l \notin Refs(k))
    BY <1>2, <2>4 DEF ThinIn
  <2>5. ASSUME Exists(k), NEW j \in LVs, CachedBy(k, j)
        PROVE  l \notin basis[k] /\ (Exists(k) => l \notin Refs(k))
    <3>1. l # << k, "corig", 0 >>
      BY <2>5, Families DEF CachedBy, There
    <3> QED
      BY <1>3, <2>5, <3>1 DEF CachedBy
  <2> QED
    BY <2>1, <2>2, <2>3, <2>4, <2>5 DEF Fits, Shaped
<1> QED
  BY <1>1, <1>4, <1>5, <1>6

\* What the volumes that a command writes have on p.
WrittenOn(new, D, p) == Total([n \in D |-> VolumeOn(new[n], p)], D)

\* It writes those of D, and l then holds on and lies on lies.
Puts(l, new, D, on, lies) ==
  /\ lvs' = [n \in Names |-> IF n \in D THEN new[n] ELSE lvs[n]]
  /\ held' = [held EXCEPT ![l] = on] /\ basis' = [basis EXCEPT ![l] = lies]

\* It writes an LV with all of its parts, or a thin one in pool.
NewWhole(l, new, D, lies) == lies = {l} /\ RefsOf(new[l]) = D \ {l}
NewThin(l, new, D, on, lies, pool) ==
  /\ D = {l} /\ on = Nowhere
  /\ IsPool(pool) /\ Whole(pool) /\ lies = {pool} /\ pool \in RefsOf(new[l])
  /\ \A j \in RefsOf(new[l]) \ {pool} : j \in LVs /\ Exists(j) /\ basis[j] = {pool}

\* The LV of a volume that is created with its sub-LVs: whole, or thin in a pool.
LEMMA Created ==
  ASSUME LvmInv, TypeOK', NEW l \in LVs, ~Exists(l),
         NEW new, NEW D \in SUBSET Family(l), l \in D,
         \A n \in D : new[n] \in Volumes, new[l].visible,
         \A n \in D \ {l} : RefsOf(new[n]) = {},
         NEW on, NEW lies, Puts(l, new, D, on, lies),
         \A p \in PVs : WrittenOn(new, D, p) = on[p],
         NewWhole(l, new, D, lies) \/ \E k \in LVs : NewThin(l, new, D, on, lies, k)
  PROVE  LvmInv'
<1>1. /\ TypeOK /\ Fits(l) /\ l \in Names
      /\ held'[l] = on /\ basis'[l] = lies
      /\ \A k \in LVs \ {l} : held'[k] = held[k] /\ basis'[k] = basis[k]
  <2>1. TypeOK /\ Fits(l) /\ l \in Names
    BY SubNames DEF LvmInv
  <2>2. held = [k \in LVs |-> held[k]] /\ basis = [k \in LVs |-> basis[k]]
    BY <2>1 DEF TypeOK
  <2> QED
    BY <2>1, <2>2 DEF Puts
<1>2. /\ \A n \in Family(l) : n \in Names /\ ~Exists(n)
      /\ D \subseteq Names
  BY <1>1, Families DEF Fits, SubsBare, Family
<1>3. \A n \in D : lvs'[n] = new[n] /\ Exists(n)' /\ Refs(n)' = RefsOf(new[n])
  <2>1. NoLv \notin Volumes
    BY LogicalAssumption DEF LogicalAssumption
  <2>2. \A n \in D : lvs'[n] = new[n]
    BY <1>2 DEF Puts
  <2>3. \A n \in D : Exists(n)'
    BY <2>1, <2>2 DEF Exists
  <2> QED
    BY <2>2, <2>3 DEF Refs
<1>4. \A n \in Names \ D : lvs'[n] = lvs[n]
  BY DEF Puts
<1>5. ASSUME NEW k \in LVs \ {l} PROVE Stays(k, {})
  <2>1. \A n \in Family(k) : n \in Names \ D
    BY Families
  <2> QED
    BY <1>1, <1>4, <2>1, NameKept DEF Stays
<1>6. \A n \in Family(l) : Exists(n)' <=> n \in D
  <2>1. \A n \in Family(l) \ D : ~Exists(n)'
    BY <1>2, <1>4 DEF Exists
  <2> QED
    BY <1>3, <2>1
<1>7. There(Family(l))' = D /\ There(SubsOf(l))' = D \ {l}
  <2>1. l \notin SubsOf(l)
    BY Families
  <2> QED
    BY <1>6, <2>1 DEF There, Family, SubsOf
<1>8. SubsBare(l)'
  <2>1. \A n \in SubsOf(l) : Exists(n)' => Refs(n)' = {} /\ Exists(l)'
    <3>1. \A n \in SubsOf(l) : n \in Family(l) /\ n # l
      BY Families DEF Family
    <3> QED
      BY <1>3, <1>6, <3>1
  <2> QED
    BY <2>1 DEF SubsBare, SubsOf
<1>9. AbsentBare(l)'
  BY <1>3 DEF AbsentBare
<1>10. AreasHeld(l)'
  <2> SUFFICES ASSUME NEW p \in PVs PROVE FamilyOn(l, p)' = on[p]
    BY <1>1 DEF AreasHeld
  <2> DEFINE f == [n \in D |-> VolumeOn(new[n], p)]
  <2>1. \A n \in D : f[n] = OwnOn(n, p)'
    BY <1>3, OwnNow
  <2>2. Total(f, D) = on[p]
    BY DEF WrittenOn
  <2> HIDE DEF f
  <2>3. FamilyOn(l, p)' = Total(f, D)
    BY <1>7, <2>1, FamilyOnNow
  <2> QED
    BY <2>2, <2>3
<1>11. Shaped(l)'
  <2>1. CASE NewWhole(l, new, D, lies)
    <3>1. Refs(l)' = D \ {l}
      BY <1>3, <2>1 DEF NewWhole
    <3>2. Whole(l)'
      BY <1>1, <1>7, <2>1, <3>1 DEF Whole, NewWhole
    <3> QED
      BY <3>2 DEF Shaped
  <2>2. ASSUME NEW k \in LVs, NewThin(l, new, D, on, lies, k)
        PROVE  Shaped(l)'
    <3>0. /\ D = {l} /\ on = Nowhere
          /\ IsPool(k) /\ Whole(k) /\ lies = {k} /\ k \in RefsOf(new[l])
          /\ \A j \in RefsOf(new[l]) \ {k} : j \in LVs /\ Exists(j) /\ basis[j] = {k}
      BY <2>2 DEF NewThin
    <3>1. k # l
      BY <3>0 DEF IsPool, Visible
    <3>2. Visible(l)'
      BY <1>3 DEF Visible
    <3>3. There(SubsOf(l))' = {}
      BY <1>7, <3>0
    <3>4. Stays(k, {}) /\ Exists(k)
      BY <1>5, <3>0, <3>1 DEF IsPool, Visible
    <3>5. Whole(k)'
      BY <3>0, <3>4, WholeKept
    <3>6. IsPool(k)'
      <4>1. << k, "tdata", 0 >> \in Family(k) /\ k \in Family(k)
        <5>1. << "tdata", 0 >> \in Subs
          BY DEF Subs
        <5> QED
          BY <5>1 DEF Family, SubsOf
      <4> QED
        BY <3>0, <3>4, <4>1 DEF IsPool, Visible, Stays, Lasts
    <3>7. Refs(l)' = RefsOf(new[l])
      BY <1>3
    <3>8. ASSUME NEW j \in Refs(l)', j # k PROVE j \in LVs /\ Exists(j)' /\ basis'[j] = {k}
      <4>1. j \in LVs /\ Exists(j) /\ basis[j] = {k}
        BY <3>0, <3>7, <3>8
      <4>2. Stays(j, {})
        BY <1>5, <4>1
      <4> QED
        BY <4>1, <4>2 DEF Stays, Lasts, Family
    <3>9. ThinIn(l, k)'
      BY <1>1, <3>0, <3>1, <3>2, <3>3, <3>5, <3>6, <3>7, <3>8 DEF ThinIn, Nowhere
    <3> QED
      BY <3>9 DEF Shaped
  <2> QED
    BY <2>1, <2>2
<1>12. Fits(l)'
  BY <1>8, <1>9, <1>10, <1>11 DEF Fits
<1>13. ApartFrom({l}, {})
  BY AbsentApart
<1>14. \A b \in basis'[l] \ {l} : Visible(b)'
  <2>1. \A k \in LVs : IsPool(k) => k # l /\ Visible(k)
    BY DEF IsPool, Visible
  <2>2. \A k \in LVs : IsPool(k) => Visible(k)'
    <3> SUFFICES ASSUME NEW k \in LVs, IsPool(k) PROVE Visible(k)'
      OBVIOUS
    <3>1. Stays(k, {}) /\ Exists(k)
      BY <1>5, <2>1 DEF Visible
    <3> QED
      BY <2>1, <3>1 DEF Stays, Lasts, Family
  <2> QED
    BY <1>1, <2>2 DEF NewWhole, NewThin
<1> DEFINE C == {l}
           X == {}
<1>15. /\ C \in SUBSET LVs /\ X \in SUBSET C /\ ApartFrom(C, X)
       /\ \A k \in LVs \ C : Stays(k, X)
       /\ \A c \in C : Fits(c)'
       /\ \A c \in C : \A b \in basis'[c] \ {c} : Visible(b)'
  <2>1. \A c \in C : c = l
    OBVIOUS
  <2>2. \A c \in C : Fits(c)'
    <3> SUFFICES ASSUME NEW c \in C PROVE Fits(c)'
      OBVIOUS
    <3>1. c = l
      OBVIOUS
    <3> HIDE DEF C
    <3> QED
      BY <1>12, <3>1 
  <2> QED
    BY <1>5, <1>13, <1>14, <2>1, <2>2
<1> HIDE DEF C, X
<1> QED
  BY <1>15, Rewritten

\* What the commands write.
LEMMA Segs ==
  /\ \A n \in Nat, p \in PVs : OnAreas(n, << p >>) \in Segments /\ OnAreas(n, << p >>).refs = {}
  /\ \A n \in Nat, p, q \in PVs :
       OnAreas(n, << p, q >>) \in Segments /\ OnAreas(n, << p, q >>).refs = {}
  /\ \A n \in Nat, R \in SUBSET Names : OnVolumes(n, R) \in Segments /\ OnVolumes(n, R).refs = R
<1>1. \A p \in PVs : << p >> \in Seq(PVs)
  OBVIOUS
<1>2. \A p, q \in PVs : << p, q >> \in Seq(PVs)
  OBVIOUS
<1>3. << >> \in Seq(PVs)
  OBVIOUS
<1> QED
  BY <1>1, <1>2, <1>3 DEF OnAreas, OnVolumes, Segments

LEMMA Vols ==
  ASSUME NEW s \in Segments
  PROVE  /\ Volume(s) \in Volumes /\ Volume(s).visible
         /\ Hidden(s) \in Volumes /\ ~Hidden(s).visible
BY DEF Volume, Hidden, Volumes

\* A volume with one segment and no sub-LVs.
Alone(l, s, on, lies) ==
  \/ lies = {l} /\ s.refs = {}
  \/ /\ on = Nowhere
     /\ \E k \in LVs : /\ IsPool(k) /\ Whole(k) /\ lies = {k} /\ k \in s.refs
                       /\ \A j \in s.refs \ {k} : j \in LVs /\ Exists(j) /\ basis[j] = {k}

LEMMA CreatedAlone ==
  ASSUME LvmInv, TypeOK', NEW l \in LVs, ~Exists(l), NEW s \in Segments, NEW on, NEW lies,
         Write(l, [n \in {l} |-> Volume(s)], on, lies),
         \A p \in PVs : SegmentOn(s, p) = on[p],
         Alone(l, s, on, lies)
  PROVE  LvmInv'
<1> DEFINE new == [n \in {l} |-> Volume(s)]
           D == {l}
<1>1. Volume(s) \in Volumes /\ Volume(s).visible
  BY Vols
<1>2. Puts(l, new, D, on, lies)
  BY DEF Write, Puts
<1>3. new[l] = Volume(s)
  OBVIOUS
<1>4. RefsOf(new[l]) = s.refs
  <2>1. RefsOf(Volume(s)) = s.refs
    BY VolumeOne
  <2> QED
    BY <1>3, <2>1
<1>5. ASSUME NEW p \in PVs PROVE WrittenOn(new, D, p) = on[p]
  <2> DEFINE f == [n \in D |-> VolumeOn(new[n], p)]
  <2>1. f[l] = SegmentOn(s, p)
    BY <1>3, VolumeOne
  <2>2. SegmentOn(s, p) = on[p] /\ SegmentOn(s, p) \in Nat
    BY SegmentNat
  <2> HIDE DEF f
  <2>3. Total(f, {l}) = f[l]
    BY <2>1, <2>2, TotalSmall
  <2> QED
    BY <2>1, <2>2, <2>3 DEF f, WrittenOn
<1>6. D \in SUBSET Family(l) /\ l \in D /\ \A n \in D : n = l
  BY DEF Family
<1>7. NewWhole(l, new, D, lies) \/ \E k \in LVs : NewThin(l, new, D, on, lies, k)
  <2>1. CASE lies = {l} /\ s.refs = {}
    <3>1. RefsOf(new[l]) = {}
      BY <1>4, <2>1
    <3> QED
      BY <2>1, <3>1 DEF NewWhole
  <2>2. CASE /\ on = Nowhere
             /\ \E k \in LVs : /\ IsPool(k) /\ Whole(k) /\ lies = {k} /\ k \in s.refs
                               /\ \A j \in s.refs \ {k} :
                                    j \in LVs /\ Exists(j) /\ basis[j] = {k}
    <3>1. D = {l}
      OBVIOUS
    <3> HIDE DEF new, D
    <3> QED
      BY <1>4, <2>2, <3>1 DEF NewThin
  <2> QED
    BY <2>1, <2>2 DEF Alone
<1>8. /\ \A n \in D : new[n] \in Volumes
      /\ new[l].visible
      /\ \A n \in D \ {l} : RefsOf(new[n]) = {}
  BY <1>1, <1>3, <1>6
<1>9. /\ D \in SUBSET Family(l) /\ l \in D
      /\ \A p \in PVs : WrittenOn(new, D, p) = on[p]
  BY <1>5, <1>6
<1> HIDE DEF new, D
<1> QED
  BY <1>2, <1>7, <1>8, <1>9, Created

LEMMA LinearFits ==
  ASSUME LvmInv, TypeOK', NEW l \in LVs, NEW p \in PVs, CreateLinear(l, p)
  PROVE  LvmInv'
<1> DEFINE s == OnAreas(2, << p >>)
           on == On(p, 2)
           lies == {l}
<1>1. s \in Segments /\ s.refs = {}
  BY Segs
<1>2. Write(l, [n \in {l} |-> Volume(s)], on, lies) /\ ~Exists(l)
  BY DEF CreateLinear, Command
<1>3. \A q \in PVs : SegmentOn(s, q) = on[q]
  BY SegmentValues DEF On, Nowhere
<1>4. Alone(l, s, on, lies)
  BY <1>1 DEF Alone
<1> HIDE DEF s, on, lies
<1> QED
  BY <1>1, <1>2, <1>3, <1>4, CreatedAlone

LEMMA StripedFits ==
  ASSUME LvmInv, TypeOK', NEW l \in LVs, NEW p \in PVs, NEW q \in PVs, CreateStriped(l, p, q)
  PROVE  LvmInv'
<1> DEFINE s == OnAreas(2, << p, q >>)
           on == OnBoth(p, q, 1, 1)
           lies == {l}
<1>1. s \in Segments /\ s.refs = {}
  BY Segs
<1>2. Write(l, [n \in {l} |-> Volume(s)], on, lies) /\ ~Exists(l) /\ p # q
  BY DEF CreateStriped, Command
<1>3. \A r \in PVs : SegmentOn(s, r) = on[r]
  <2>1. \A r \in PVs : SegmentOn(s, r) = IF r \in {p, q} THEN 1 ELSE 0
    BY <1>2, SegmentValues
  <2>2. \A r \in PVs : on[r] = IF r \in {p, q} THEN 1 ELSE 0
    BY DEF OnBoth, Nowhere
  <2> QED
    BY <2>1, <2>2
<1>4. Alone(l, s, on, lies)
  BY <1>1 DEF Alone
<1> HIDE DEF s, on, lies
<1> QED
  BY <1>1, <1>2, <1>3, <1>4, CreatedAlone

\* A pool is an LV made of its own parts.
LEMMA PoolWhole ==
  ASSUME LvmInv, NEW k \in LVs, IsPool(k)
  PROVE  Whole(k)
<1>1. << k, "tdata", 0 >> \in There(SubsOf(k))
  <2>1. << "tdata", 0 >> \in Subs
    BY DEF Subs
  <2> QED
    BY <2>1 DEF IsPool, SubsOf, There
<1>2. << k, "tdata", 0 >> # << k, "corig", 0 >>
  OBVIOUS
<1>3. Shaped(k)
  BY DEF LvmInv, Fits, IsPool, Visible
<1> QED
  BY <1>1, <1>2, <1>3 DEF Shaped, ThinIn, CachedBy

LEMMA ThinFits ==
  ASSUME LvmInv, TypeOK', NEW l \in LVs, NEW pool \in LVs, CreateThin(l, pool)
  PROVE  LvmInv'
<1> DEFINE refs == {pool}
           s == OnVolumes(2, refs)
           lies == {pool}
<1>1. s \in Segments /\ s.refs = refs
  <2>1. refs \in SUBSET Names
    BY SubNames
  <2> QED
    BY <2>1, Segs
<1>2. Write(l, [n \in {l} |-> Volume(s)], Nowhere, lies) /\ ~Exists(l) /\ IsPool(pool)
  BY DEF CreateThin, Command
<1>3. \A q \in PVs : SegmentOn(s, q) = Nowhere[q]
  BY SegmentValues DEF Nowhere
<1>4. lies = {pool} /\ pool \in refs /\ \A j \in refs \ {pool} : FALSE
  OBVIOUS
<1> HIDE DEF s, refs, lies
<1>5. pool \in s.refs /\ \A j \in s.refs \ {pool} : j \in LVs /\ Exists(j) /\ basis[j] = {pool}
  BY <1>1, <1>4
<1>6. Whole(pool)
  BY <1>2, PoolWhole
<1>7. Alone(l, s, Nowhere, lies)
  BY <1>2, <1>4, <1>5, <1>6 DEF Alone
<1> QED
  BY <1>1, <1>2, <1>3, <1>7, CreatedAlone

\* The origin of a snapshot is thin.
LEMMA SnapshotFits ==
  ASSUME LvmInv, TypeOK', NEW l \in LVs, NEW origin \in LVs, Snapshot(l, origin)
  PROVE  LvmInv'
<1> DEFINE pool == CHOOSE k \in basis[origin] : TRUE
           refs == {pool, origin}
           s == OnVolumes(2, refs)
           lies == {pool}
<1>1. Write(l, [n \in {l} |-> Volume(s)], Nowhere, lies) /\ ~Exists(l) /\ IsThin(origin)
  BY DEF Snapshot, Command
<1>2. PICK k \in LVs : ThinIn(origin, k)
  <2>1. PICK k \in basis[origin] : IsPool(k) /\ k # origin
    BY <1>1 DEF IsThin
  <2>2. Shaped(origin)
    BY <1>1 DEF IsThin, LvmInv, Fits, Visible
  <2>3. ~Whole(origin)
    BY <2>1 DEF Whole
  <2>4. \A j \in LVs : ~CachedBy(origin, j)
    BY <2>1 DEF CachedBy, IsPool
  <2> QED
    BY <2>2, <2>3, <2>4 DEF Shaped
<1>3. basis[origin] = {k} /\ IsPool(k) /\ Whole(k) /\ Exists(origin)
  BY <1>2 DEF ThinIn, Visible
<1>4. pool = k
  BY <1>3
<1> HIDE DEF pool
<1>5. s \in Segments /\ s.refs = refs
  <2>1. refs \in SUBSET Names
    BY <1>4, SubNames
  <2> QED
    BY <2>1, Segs
<1>6. \A q \in PVs : SegmentOn(s, q) = Nowhere[q]
  BY SegmentValues DEF Nowhere
<1>7. lies = {k} /\ k \in refs /\ \A j \in refs \ {k} : j = origin
  BY <1>4
<1> HIDE DEF s, refs, lies
<1>8. k \in s.refs /\ \A j \in s.refs \ {k} : j \in LVs /\ Exists(j) /\ basis[j] = {k}
  BY <1>3, <1>5, <1>7
<1>9. Alone(l, s, Nowhere, lies)
  BY <1>3, <1>7, <1>8 DEF Alone
<1> QED
  BY <1>1, <1>5, <1>6, <1>9, CreatedAlone

\* A volume and the hidden sub-LVs it is made of.
LEMMA CreatedWhole ==
  ASSUME LvmInv, TypeOK', NEW l \in LVs, ~Exists(l),
         NEW new, NEW S \in SUBSET SubsOf(l), NEW on,
         Puts(l, new, S \cup {l}, on, {l}), new[l] = Volume(OnVolumes(2, S)),
         \A n \in S : \E s \in Segments : s.refs = {} /\ new[n] = Hidden(s),
         NEW g, \A p \in PVs : \A n \in S : g[p][n] = VolumeOn(new[n], p),
         \A p \in PVs : Total(g[p], S) = on[p]
  PROVE  LvmInv'
<1> DEFINE D == S \cup {l}
<1>1. D \in SUBSET Family(l) /\ l \in D /\ S \in SUBSET Names /\ IsFiniteSet(S) /\ l \notin S
  BY Families, NamesFinite DEF Family
<1>2. OnVolumes(2, S) \in Segments /\ OnVolumes(2, S).refs = S
  BY <1>1, Segs
<1>3. new[l] \in Volumes /\ new[l].visible /\ RefsOf(new[l]) = S
  <2>1. /\ Volume(OnVolumes(2, S)) \in Volumes /\ Volume(OnVolumes(2, S)).visible
        /\ RefsOf(Volume(OnVolumes(2, S))) = OnVolumes(2, S).refs
    BY <1>2, Vols, VolumeOne
  <2> QED
    BY <1>2, <2>1
<1>4. \A n \in S : new[n] \in Volumes /\ RefsOf(new[n]) = {}
  <2> SUFFICES ASSUME NEW n \in S PROVE new[n] \in Volumes /\ RefsOf(new[n]) = {}
    OBVIOUS
  <2>1. PICK s \in Segments : s.refs = {} /\ new[n] = Hidden(s)
    OBVIOUS
  <2> QED
    BY <2>1, Vols, VolumeOne
<1>5. ASSUME NEW p \in PVs PROVE WrittenOn(new, D, p) = on[p]
  <2> DEFINE f == [n \in D |-> VolumeOn(new[n], p)]
             h == g[p]
  <2>1. VolumeOn(new[l], p) = 0
    <3>1. SegmentOn(OnVolumes(2, S), p) = 0
      BY SegmentValues
    <3>2. VolumeOn(Volume(OnVolumes(2, S)), p) = SegmentOn(OnVolumes(2, S), p)
      BY <1>2, VolumeOne
    <3> QED
      BY <3>1, <3>2
  <2>2. f[l] = 0 /\ \A n \in S : f[n] = h[n]
    BY <1>1, <2>1
  <2>3. \A n \in S : f[n] \in Nat
    BY <1>4, VolumeNat
  <2>4. Total(h, S) = on[p]
    OBVIOUS
  <2> HIDE DEF f, h
  <2>5. Total(f, S) = on[p] /\ Total(f, S) \in Nat
    BY <1>1, <2>2, <2>3, <2>4, TotalSame, TotalElement
  <2>6. \A n \in S \cup {l} : f[n] \in Nat
    BY <2>2, <2>3
  <2>7. Total(f, S \cup {l}) = Total(f, S) + f[l]
    BY <1>1, <2>6, TotalAdd
  <2>8. Total(f, D) = on[p]
    BY <2>2, <2>5, <2>7
  <2> QED
    BY <2>8 DEF f, WrittenOn
<1> DEFINE lies == {l}
<1>6. Puts(l, new, D, on, lies) /\ NewWhole(l, new, D, lies)
  BY <1>1, <1>3 DEF NewWhole
<1>7. (\A n \in D : new[n] \in Volumes) /\ (\A n \in D \ {l} : RefsOf(new[n]) = {})
  BY <1>3, <1>4
<1> HIDE DEF lies, D
<1> QED
  BY <1>1, <1>3, <1>5, <1>6, <1>7, Created

LEMMA PoolFits ==
  ASSUME LvmInv, TypeOK', NEW l \in LVs, NEW p \in PVs, NEW q \in PVs, CreatePool(l, p, q)
  PROVE  LvmInv'
<1> DEFINE data == << l, "tdata", 0 >>
           meta == << l, "tmeta", 0 >>
           S == {data, meta}
           D == S \cup {l}
           sd == OnAreas(2, << p >>)
           sm == OnAreas(1, << q >>)
           new == [n \in {l, data, meta} |->
                      IF n = l THEN Volume(OnVolumes(2, {data, meta}))
                      ELSE IF n = data THEN Hidden(sd)
                      ELSE Hidden(sm)]
           on == OnBoth(p, q, 2, 1)
           g == [r \in PVs |-> [n \in S |-> VolumeOn(new[n], r)]]
<1>1. ~Exists(l) /\ p # q
  BY DEF CreatePool
<1>2. S \in SUBSET SubsOf(l) /\ data # meta
  BY DEF SubsOf, Subs
<1>3. data # l /\ meta # l
  BY <1>2, Families
<1>4. new[l] = Volume(OnVolumes(2, S)) /\ new[data] = Hidden(sd) /\ new[meta] = Hidden(sm)
  BY <1>2, <1>3
<1>5. Puts(l, new, D, on, {l})
  <2>1. Write(l, new, on, {l})
    BY DEF CreatePool, Command
  <2>2. DOMAIN new = D
    OBVIOUS
  <2> HIDE DEF new, D, on
  <2> QED
    BY <2>1, <2>2 DEF Write, Puts
<1>6. sd \in Segments /\ sd.refs = {} /\ sm \in Segments /\ sm.refs = {}
  BY Segs
<1>7. \A n \in S : \E s \in Segments : s.refs = {} /\ new[n] = Hidden(s)
  <2> HIDE DEF new, sd, sm
  <2> QED
    BY <1>4, <1>6
<1>8. \A r \in PVs : \A n \in S : g[r][n] = VolumeOn(new[n], r)
  <2> HIDE DEF new, S
  <2> QED
    OBVIOUS
<1>9. data \in S /\ meta \in S /\ \A x \in S : x = data \/ x = meta
  OBVIOUS
<1> HIDE DEF g, S, D, new, data, meta
<1>11. ASSUME NEW r \in PVs PROVE Total(g[r], S) = on[r]
  <2> DEFINE f == g[r]
  <2>1. f[data] = SegmentOn(sd, r) /\ f[meta] = SegmentOn(sm, r)
    BY <1>4, <1>6, <1>8, <1>9, VolumeOne
  <2>2. SegmentOn(sd, r) = (IF r = p THEN 2 ELSE 0) /\ SegmentOn(sm, r) = IF r = q THEN 1 ELSE 0
    BY SegmentValues
  <2>3. on[r] = IF r = q THEN 1 ELSE IF r = p THEN 2 ELSE 0
    BY DEF OnBoth, Nowhere
  <2> HIDE DEF f, sd, sm, on
  <2>4. f[data] \in Nat /\ f[meta] \in Nat
    BY <2>1, <2>2
  <2>5. Total(f, S) = f[data] + f[meta]
    BY <1>2, <1>9, <2>4, TotalPair
  <2>6. Total(f, S) = on[r]
    BY <1>1, <2>1, <2>2, <2>3, <2>5
  <2> QED
    BY <2>6 DEF f
<1> HIDE DEF on, sd, sm
<1>12. Puts(l, new, S \cup {l}, on, {l})
  BY <1>5 DEF D
<1> QED
  BY <1>1, <1>2, <1>4, <1>12, <1>7, <1>8, <1>11, CreatedWhole

LEMMA RaidFits ==
  ASSUME LvmInv, TypeOK', NEW l \in LVs, NEW p \in PVs, NEW q \in PVs, CreateRaid(l, p, q)
  PROVE  LvmInv'
<1> DEFINE Leg(i) == {<< l, "rimage", i >>, << l, "rmeta", i >>}
           S == Leg(0) \cup Leg(1)
           D == S \cup {l}
           new == [n \in {l} \cup Leg(0) \cup Leg(1) |->
                    IF n = l THEN Volume(OnVolumes(2, Leg(0) \cup Leg(1)))
                    ELSE Hidden(OnAreas(IF n[2] = "rimage" THEN 2 ELSE 1,
                                        << IF n[3] = 0 THEN p ELSE q >>))]
           on == OnBoth(p, q, 3, 3)
           g == [r \in PVs |-> [n \in S |-> VolumeOn(new[n], r)]]
           a == << l, "rimage", 0 >>
           b == << l, "rmeta", 0 >>
           c == << l, "rimage", 1 >>
           d == << l, "rmeta", 1 >>
<1>1. ~Exists(l) /\ p # q
  BY DEF CreateRaid
<1>2. S \in SUBSET SubsOf(l)
  BY DEF SubsOf, Subs
<1>3. l \notin S
  BY <1>2, Families
<1>4. /\ new[l] = Volume(OnVolumes(2, S))
      /\ new[a] = Hidden(OnAreas(2, << p >>)) /\ new[b] = Hidden(OnAreas(1, << p >>))
      /\ new[c] = Hidden(OnAreas(2, << q >>)) /\ new[d] = Hidden(OnAreas(1, << q >>))
  BY <1>3
<1>5. Puts(l, new, D, on, {l})
  <2>1. Write(l, new, on, {l})
    BY DEF CreateRaid
  <2>2. DOMAIN new = D
    OBVIOUS
  <2> HIDE DEF new, D, on
  <2> QED
    BY <2>1, <2>2 DEF Write, Puts
<1>6. \A k \in Nat, x \in PVs : OnAreas(k, << x >>) \in Segments /\ OnAreas(k, << x >>).refs = {}
  BY Segs
<1>7. /\ S = {a, b} \cup {c, d} /\ {a, b} \cap {c, d} = {} /\ a # b /\ c # d
  OBVIOUS
<1>8. \A n \in S : n = a \/ n = b \/ n = c \/ n = d
  OBVIOUS
<1> HIDE DEF new, S, D
<1>10. \A r \in PVs : \A n \in S : g[r][n] = VolumeOn(new[n], r)
  OBVIOUS
<1> HIDE DEF g, a, b, c, d
<1>11. \A n \in S : \E s \in Segments : s.refs = {} /\ new[n] = Hidden(s)
  BY <1>4, <1>6, <1>8
<1>12. a \in S /\ b \in S /\ c \in S /\ d \in S
  BY <1>7
<1>13. ASSUME NEW r \in PVs PROVE Total(g[r], S) = on[r]
  <2> DEFINE f == g[r]
             A == {a, b}
             B == {c, d}
  <2>1. /\ f[a] = SegmentOn(OnAreas(2, << p >>), r) /\ f[b] = SegmentOn(OnAreas(1, << p >>), r)
        /\ f[c] = SegmentOn(OnAreas(2, << q >>), r) /\ f[d] = SegmentOn(OnAreas(1, << q >>), r)
    BY <1>4, <1>6, <1>10, <1>12, VolumeOne
  <2>2. \A x \in PVs, k \in Nat : SegmentOn(OnAreas(k, << x >>), r) = IF r = x THEN k ELSE 0
    BY SegmentValues
  <2>3. on[r] = IF r = q THEN 3 ELSE IF r = p THEN 3 ELSE 0
    BY DEF OnBoth, Nowhere
  <2> HIDE DEF f, on
  <2>4. /\ f[a] = (IF r = p THEN 2 ELSE 0) /\ f[b] = (IF r = p THEN 1 ELSE 0)
        /\ f[c] = (IF r = q THEN 2 ELSE 0) /\ f[d] = (IF r = q THEN 1 ELSE 0)
    BY <2>1, <2>2
  <2>5. f[a] \in Nat /\ f[b] \in Nat /\ f[c] \in Nat /\ f[d] \in Nat
    BY <2>4
  <2>6. /\ a \in A /\ b \in A /\ \A x \in A : x = a \/ x = b
        /\ c \in B /\ d \in B /\ \A x \in B : x = c \/ x = d
    OBVIOUS
  <2>7. IsFiniteSet(A) /\ IsFiniteSet(B)
    <3>1. S \in SUBSET Names
      BY <1>2, Families DEF Family
    <3>2. A \in SUBSET Names /\ B \in SUBSET Names
      BY <1>7, <3>1
    <3> HIDE DEF A, B
    <3> QED
      BY <3>2, NamesFinite
  <2>8. S = A \cup B /\ A \cap B = {}
    BY <1>7
  <2> HIDE DEF A, B
  <2>9. Total(f, A) = f[a] + f[b] /\ Total(f, B) = f[c] + f[d]
    BY <1>7, <2>5, <2>6, TotalPair
  <2>10. \A x \in A \cup B : f[x] \in Nat
    BY <2>5, <2>6
  <2>11. Total(f, A \cup B) = Total(f, A) + Total(f, B)
    BY <2>7, <2>8, <2>10, TotalUnion
  <2>12. Total(f, S) = on[r]
    BY <1>1, <2>3, <2>4, <2>8, <2>9, <2>11
  <2> QED
    BY <2>12 DEF f
<1> HIDE DEF on
<1>14. Puts(l, new, S \cup {l}, on, {l})
  BY <1>5 DEF D
<1> QED
  BY <1>1, <1>2, <1>4, <1>14, <1>10, <1>11, <1>13, CreatedWhole

\* An LV that grows.
LEMMA ExtendFits ==
  ASSUME LvmInv, TypeOK', NEW l \in LVs, NEW q \in PVs, Extend(l, q)
  PROVE  LvmInv'
<1> DEFINE s == OnAreas(1, << q >>)
           w == [lvs[l] EXCEPT !.segs = Append(@, s)]
<1>1. /\ TypeOK /\ Fits(l) /\ l \in Names /\ OwnAreas(l) /\ Exists(l)
      /\ Whole(l) /\ Refs(l) = {} /\ There(SubsOf(l)) = {} /\ lvs[l] \in Volumes
  <2>1. OwnAreas(l)
    BY DEF Extend
  <2>2. Exists(l) /\ Whole(l) /\ Refs(l) = {} /\ There(SubsOf(l)) = {}
    BY <2>1, OwnApart
  <2> QED
    BY <2>1, <2>2, SubNames, OwnNat DEF LvmInv
<1>2. /\ lvs' = [n \in Names |-> IF n \in {l} THEN w ELSE lvs[n]]
      /\ held' = [held EXCEPT ![l] = [held[l] EXCEPT ![q] = @ + 1]]
      /\ basis' = [basis EXCEPT ![l] = {l}]
  <2> HIDE DEF w
  <2>1. Write(l, [n \in {l} |-> w], [held[l] EXCEPT ![q] = @ + 1], {l})
    BY DEF Extend, Command, w
  <2> QED
    BY <2>1 DEF Write
<1>3. /\ s \in Segments /\ s.refs = {}
      /\ w \in Volumes /\ w.segs = Append(lvs[l].segs, s) 
  <2>1. lvs[l] = [visible |-> lvs[l].visible, segs |-> lvs[l].segs]
    BY <1>1 DEF Volumes
  <2>2. s \in Segments /\ s.refs = {}
    BY Segs
  <2>3. Append(lvs[l].segs, s) \in Seq(Segments)
    BY <1>1, <2>2, VolumeSegs
  <2> HIDE DEF s
  <2> QED
    BY <1>1, <2>1, <2>2, <2>3 DEF Volumes
<1>4. /\ held'[l] = [held[l] EXCEPT ![q] = @ + 1] /\ basis'[l] = {l}
      /\ \A k \in LVs \ {l} : held'[k] = held[k] /\ basis'[k] = basis[k]
  <2>1. held = [k \in LVs |-> held[k]] /\ basis = [k \in LVs |-> basis[k]]
    BY <1>1 DEF TypeOK
  <2> QED
    BY <1>2, <2>1
<1>5. lvs'[l] = w /\ \A n \in Names \ {l} : lvs'[n] = lvs[n]
  BY <1>1, <1>2
<1> HIDE DEF w
<1>6. \A k \in LVs \ {l} : Stays(k, {})
  <2> SUFFICES ASSUME NEW k \in LVs \ {l} PROVE Stays(k, {})
    OBVIOUS
  <2>1. \A n \in Family(k) : n \in Names \ {l}
    BY Families DEF Family
  <2> QED
    BY <1>4, <1>5, <2>1, NameKept DEF Stays
<1>7. Exists(l)' /\ Refs(l)' = {}
  <2>1. w # NoLv
    BY <1>3, LogicalAssumption DEF LogicalAssumption
  <2>2. RefsOf(w) = RefsOf(lvs[l]) \cup s.refs
    BY <1>1, <1>3, VolumeAppend
  <2>3. RefsOf(w) = {}
    BY <1>1, <1>3, <2>2 DEF Refs
  <2> QED
    BY <1>5, <2>1, <2>3 DEF Exists, Refs
<1>8. There(Family(l))' = {l} /\ There(SubsOf(l))' = {}
  <2>1. \A n \in SubsOf(l) : n \in Names \ {l} /\ ~Exists(n)
    BY <1>1, Families DEF Family, There
  <2>2. \A n \in SubsOf(l) : ~Exists(n)'
    BY <1>5, <2>1 DEF Exists
  <2> QED
    BY <1>7, <2>2 DEF There, Family, SubsOf
<1>9. AreasHeld(l)'
  <2> SUFFICES ASSUME NEW p \in PVs PROVE FamilyOn(l, p)' = held'[l][p]
    BY DEF AreasHeld
  <2> DEFINE here == SegmentOn(s, p)
             f == [n \in {l} |-> VolumeOn(w, p)]
             none == There(SubsOf(l))
  <2>1. here = (IF p = q THEN 1 ELSE 0)
    BY SegmentValues
  <2>2. VolumeOn(w, p) = OwnOn(l, p) + here
    BY <1>1, <1>3, VolumeAppend, OwnTotal
  <2>3. OwnOn(l, p) = held[l][p] /\ OwnOn(l, p) \in Nat
    <3>1. /\ FamilyOn(l, p) = OwnOn(l, p) + Total(Owns(p), none)
          /\ OwnOn(l, p) \in Nat
      BY <1>1, FamilySum
    <3>2. none = {}
      BY <1>1
    <3> HIDE DEF none
    <3>3. Total(Owns(p), none) = 0
      BY <3>2, TotalSmall
    <3> QED
      BY <1>1, <3>1, <3>3 DEF Fits, AreasHeld
  <2>4. f[l] = OwnOn(l, p)'
    BY <1>5, OwnNow
  <2>5. f[l] = VolumeOn(w, p)
    OBVIOUS
  <2> HIDE DEF f, here
  <2>6. f[l] \in Nat
    BY <2>1, <2>2, <2>3, <2>5
  <2>7. FamilyOn(l, p)' = Total(f, {l}) /\ Total(f, {l}) = f[l]
    <3>1. FamilyOn(l, p)' = Total(f, {l})
      BY <1>8, <2>4, FamilyOnNow
    <3> QED
      BY <2>6, <3>1, TotalSmall
  <2>8. held'[l][p] = held[l][p] + here
    <3>1. held[l] \in [PVs -> Nat]
      BY <1>1 DEF TypeOK
    <3> QED
      BY <1>4, <2>1, <3>1
  <2> QED
    BY <2>2, <2>3, <2>5, <2>7, <2>8
<1>10. Fits(l)'
  <2>1. Whole(l)'
    BY <1>4, <1>7, <1>8 DEF Whole
  <2>2. SubsBare(l)'
    BY <1>8 DEF SubsBare, There, SubsOf
  <2> QED
    BY <1>7, <1>9, <2>1, <2>2 DEF Fits, AbsentBare, Shaped
<1> DEFINE C == {l}
<1>11. /\ C \in SUBSET LVs /\ ApartFrom(C, {})
       /\ \A k \in LVs \ C : Stays(k, {})
  BY <1>1, <1>6, OwnApart DEF ApartFrom
<1>12. \A c \in C : Fits(c)' /\ basis'[c] \ {c} = {}
  <2> SUFFICES ASSUME NEW c \in C PROVE Fits(c)' /\ basis'[c] \ {c} = {}
    OBVIOUS
  <2>1. c = l
    OBVIOUS
  <2> HIDE DEF C
  <2> QED
    BY <1>4, <1>10, <2>1
<1> HIDE DEF C
<1> QED
  BY <1>11, <1>12, Rewritten

\* A volume on areas of its own is all that its family has.
LEMMA OwnHeld ==
  ASSUME LvmInv, NEW l \in LVs, OwnAreas(l), NEW p \in PVs
  PROVE  OwnOn(l, p) = held[l][p] /\ OwnOn(l, p) \in Nat
<1> DEFINE none == There(SubsOf(l))
<1>1. TypeOK /\ Exists(l) /\ Fits(l)
  BY OwnApart DEF LvmInv
<1>2. none = {}
  BY OwnApart
<1>3. FamilyOn(l, p) = OwnOn(l, p) + Total(Owns(p), none) /\ OwnOn(l, p) \in Nat
  BY <1>1, FamilySum
<1> HIDE DEF none
<1>4. Total(Owns(p), none) = 0
  BY <1>2, TotalSmall
<1> QED
  BY <1>1, <1>3, <1>4 DEF Fits, AreasHeld

\* An LV and its cache: the LV's areas go to a sub-LV, and the cache is hidden.
LEMMA CacheFits ==
  ASSUME LvmInv, TypeOK', NEW l \in LVs, NEW fast \in LVs, Cache(l, fast)
  PROVE  LvmInv'
<1> DEFINE orig == << l, "corig", 0 >>
           refs == {orig, fast}
           s == OnVolumes(2, refs)
           v == [lvs[l] EXCEPT !.visible = FALSE]
           w == [lvs[fast] EXCEPT !.visible = FALSE]
           C == {l, fast}
<1>1. TypeOK /\ l # fast /\ OwnAreas(l) /\ OwnAreas(fast)
  BY DEF LvmInv, Cache
<1>2. /\ Exists(l) /\ Whole(l) /\ Refs(l) = {} /\ There(SubsOf(l)) = {}
      /\ Exists(fast) /\ Whole(fast) /\ Refs(fast) = {} /\ There(SubsOf(fast)) = {}
  BY <1>1, OwnApart
<1>3. ApartFrom(C, {})
  BY <1>1, OwnApart DEF ApartFrom
<1>4. /\ l \in Names /\ fast \in Names /\ orig \in Names
      /\ orig \in SubsOf(l) /\ orig # l /\ orig # fast
  <2>1. orig \in SubsOf(l)
    BY DEF SubsOf, Subs
  <2> QED
    BY <2>1, SubNames, Families
<1>5. lvs[l] \in Volumes /\ lvs[fast] \in Volumes
  BY <1>1, <1>2, <1>4, OwnNat
<1>6. /\ v \in Volumes /\ v.segs = lvs[l].segs
      /\ w \in Volumes /\ w.segs = lvs[fast].segs /\ ~w.visible
  BY <1>5 DEF Volumes
<1>7. s \in Segments /\ s.refs = refs
  BY <1>4, Segs
<1>8. /\ lvs'[l] = Volume(s) /\ lvs'[orig] = v /\ lvs'[fast] = w
      /\ \A n \in Names \ {l, orig, fast} : lvs'[n] = lvs[n]
      /\ held' = [held EXCEPT ![l] = held[l]] /\ basis' = [basis EXCEPT ![l] = {l, fast}]
  <2> DEFINE new == [n \in {l, orig, fast} |->
                       IF n = l THEN Volume(s) ELSE IF n = orig THEN v ELSE w]
             on == held[l]
             lies == {l, fast}
  <2>1. Write(l, new, on, lies)
    BY DEF Cache, Command
  <2>2. /\ DOMAIN new = {l, orig, fast}
        /\ new[l] = Volume(s) /\ new[orig] = v /\ new[fast] = w
    BY <1>1, <1>4
  <2> HIDE DEF orig, s, v, w, new, on, lies
  <2>3. /\ lvs' = [n \in Names |-> IF n \in DOMAIN new THEN new[n] ELSE lvs[n]]
        /\ held' = [held EXCEPT ![l] = on] /\ basis' = [basis EXCEPT ![l] = lies]
    BY <2>1 DEF Write
  <2>4. /\ lvs'[l] = Volume(s) /\ lvs'[orig] = v /\ lvs'[fast] = w
        /\ \A n \in Names \ {l, orig, fast} : lvs'[n] = lvs[n]
    BY <1>4, <2>2, <2>3
  <2> QED
    BY <2>3, <2>4 DEF on, lies
<1>9. /\ \A k \in LVs : held'[k] = held[k]
      /\ basis'[l] = {l, fast} /\ \A k \in LVs \ {l} : basis'[k] = basis[k]
  <2>1. held = [k \in LVs |-> held[k]] /\ basis = [k \in LVs |-> basis[k]]
    BY <1>1 DEF TypeOK
  <2> QED
    BY <1>8, <2>1
<1> HIDE DEF s, v, w
<1>10. \A k \in LVs \ C : Stays(k, {})
  <2> SUFFICES ASSUME NEW k \in LVs \ C PROVE Stays(k, {})
    OBVIOUS
  <2>1. \A n \in Family(k) : n \in Names \ {l, orig, fast}
    BY <1>4, Families DEF Family
  <2> QED
    BY <1>8, <1>9, <2>1, NameKept DEF Stays
<1>11. /\ Volume(s) \in Volumes /\ NoLv \notin Volumes
       /\ RefsOf(Volume(s)) = refs /\ RefsOf(v) = {} /\ RefsOf(w) = {}
  <2>1. RefsOf(Volume(s)) = s.refs /\ Volume(s) \in Volumes
    BY <1>7, Vols, VolumeOne
  <2>2. RefsOf(v) = RefsOf(lvs[l]) /\ RefsOf(w) = RefsOf(lvs[fast])
    BY <1>6 DEF RefsOf
  <2> QED
    BY <1>2, <1>7, <2>1, <2>2, LogicalAssumption DEF Refs, LogicalAssumption
<1>12. /\ Exists(l)' /\ Exists(orig)' /\ Exists(fast)' /\ ~Visible(fast)'
       /\ Refs(l)' = refs /\ Refs(orig)' = {} /\ Refs(fast)' = {}
  BY <1>6, <1>8, <1>11 DEF Exists, Visible, Refs
<1>13. /\ \A n \in SubsOf(l) : Exists(n)' <=> n = orig
       /\ \A n \in SubsOf(fast) : ~Exists(n)'
  <2>1. \A n \in SubsOf(l) \ {orig} : n \in Names \ {l, orig, fast} /\ ~Exists(n)
    BY <1>2, Families DEF Family, There
  <2>2. \A n \in SubsOf(fast) : n \in Names \ {l, orig, fast} /\ ~Exists(n)
    BY <1>1, <1>2, <1>4, Families DEF Family, There
  <2>3. \A n \in SubsOf(l) \ {orig} : ~Exists(n)'
    BY <1>8, <2>1 DEF Exists
  <2>4. \A n \in SubsOf(fast) : ~Exists(n)'
    BY <1>8, <2>2 DEF Exists
  <2> QED
    BY <1>12, <2>3, <2>4
<1>14. /\ There(SubsOf(l))' = {orig} /\ There(Family(l))' = {l, orig}
       /\ There(SubsOf(fast))' = {} /\ There(Family(fast))' = {fast}
  BY <1>4, <1>12, <1>13 DEF There, Family, SubsOf
<1>15. AreasHeld(l)'
  <2> SUFFICES ASSUME NEW p \in PVs PROVE FamilyOn(l, p)' = held'[l][p]
    BY DEF AreasHeld
  <2> DEFINE S == {l, orig}
             f == [n \in S |-> IF n = l THEN VolumeOn(Volume(s), p) ELSE VolumeOn(v, p)]
  <2>1. OwnOn(l, p)' = VolumeOn(Volume(s), p) /\ OwnOn(orig, p)' = VolumeOn(v, p)
    BY <1>8, OwnNow
  <2>2. f[l] = VolumeOn(Volume(s), p) /\ f[orig] = VolumeOn(v, p)
    BY <1>4
  <2>3. VolumeOn(Volume(s), p) = 0
    <3>1. SegmentOn(s, p) = 0
      BY SegmentValues DEF s
    <3> QED
      BY <1>7, <3>1, VolumeOne
  <2>4. VolumeOn(v, p) = held[l][p] /\ held[l][p] \in Nat
    <3>1. VolumeOn(v, p) = VolumeOn(lvs[l], p)
      BY <1>5, <1>6, VolumeSame
    <3> QED
      BY <1>1, <3>1, OwnHeld, OwnTotal
  <2>5. l \in S /\ orig \in S /\ \A n \in S : n = l \/ n = orig
    OBVIOUS
  <2>6. There(Family(l))' = S
    BY <1>14
  <2> HIDE DEF S, f, orig
  <2>7. \A n \in S : f[n] = OwnOn(n, p)'
    BY <2>1, <2>2, <2>5
  <2>8. FamilyOn(l, p)' = Total(f, S)
    BY <2>6, <2>7, FamilyOnNow
  <2>9. f[l] = 0 /\ f[orig] = held[l][p] /\ f[l] \in Nat /\ f[orig] \in Nat
    BY <2>2, <2>3, <2>4
  <2>10. Total(f, S) = f[l] + f[orig]
    BY <1>4, <2>5, <2>9, TotalPair
  <2> QED
    BY <1>9, <2>4, <2>8, <2>9, <2>10
<1>16. AreasHeld(fast)'
  <2> SUFFICES ASSUME NEW p \in PVs PROVE FamilyOn(fast, p)' = held'[fast][p]
    BY DEF AreasHeld
  <2> DEFINE f == [n \in {fast} |-> VolumeOn(w, p)]
  <2>1. f[fast] = OwnOn(fast, p)'
    BY <1>8, OwnNow
  <2>2. VolumeOn(w, p) = VolumeOn(lvs[fast], p)
    BY <1>5, <1>6, VolumeSame
  <2>3. f[fast] = held[fast][p] /\ f[fast] \in Nat
    BY <1>1, <2>2, OwnHeld, OwnTotal
  <2> HIDE DEF f
  <2>4. FamilyOn(fast, p)' = Total(f, {fast})
    BY <1>14, <2>1, FamilyOnNow
  <2>5. Total(f, {fast}) = f[fast]
    BY <2>3, TotalSmall
  <2> QED
    BY <1>9, <2>3, <2>4, <2>5
<1>17. Whole(fast)'
  BY <1>1, <1>2, <1>9, <1>12, <1>14 DEF Whole
<1>18. Fits(fast)'
  <2>1. SubsBare(fast)'
    BY <1>13 DEF SubsBare, SubsOf
  <2> QED
    BY <1>12, <1>16, <1>17, <2>1 DEF Fits, AbsentBare, Shaped
<1>19. Fits(l)'
  <2>1. SubsBare(l)'
    <3>1. \A n \in SubsOf(l) : Exists(n)' => Refs(n)' = {} /\ Exists(l)'
      BY <1>12, <1>13
    <3> QED
      BY <3>1 DEF SubsBare, SubsOf
  <2>2. CachedBy(l, fast)'
    BY <1>1, <1>9, <1>12, <1>14, <1>17 DEF CachedBy
  <2>3. Shaped(l)'
    BY <2>2 DEF Shaped
  <2> QED
    BY <1>12, <1>15, <2>1, <2>3 DEF Fits, AbsentBare
<1>20. \A c \in C : Fits(c)'
  <2> SUFFICES ASSUME NEW c \in C PROVE Fits(c)'
    OBVIOUS
  <2>1. c = l \/ c = fast
    OBVIOUS
  <2> HIDE DEF C
  <2>2. CASE c = l
    BY <1>19, <2>2
  <2>3. CASE c = fast
    BY <1>18, <2>3
  <2> QED
    BY <2>1, <2>2, <2>3
<1>21. \A c \in C : \A b \in basis'[c] \ {c} : b \in C /\ C \ {c, b} = {}
  BY <1>1, <1>2, <1>9 DEF Whole
<1>22. C \in SUBSET LVs
  OBVIOUS
<1> HIDE DEF C, orig
<1>23. \A c \in C : \A b \in basis'[c] \ {c} :
         Visible(b)' \/ (b \in C /\ \A d \in C \ {c, b} : b \notin basis'[d])
  BY <1>21
<1> QED
  BY <1>3, <1>10, <1>20, <1>22, <1>23, Rewritten


\* What a name that lasts has when an LV that it may name is removed.
LEMMA NameLess ==
  ASSUME TypeOK, NEW l, NEW n \in Names, Exists(n), lvs'[n] = Less(lvs[n], l)
  PROVE  Lasts(n, {l})
<1>1. lvs[n] \in Volumes /\ Less(lvs[n], l) \in Volumes /\ NoLv \notin Volumes
  BY OwnNat, LessTypes, LogicalAssumption DEF LogicalAssumption
<1>2. Exists(n)' /\ Visible(n)' = Visible(n)
  BY <1>1, LessTypes DEF Exists, Visible
<1> DEFINE v == lvs[n]
           w == Less(v, l)
<1>3. /\ DOMAIN w.segs = DOMAIN v.segs
      /\ \A i \in DOMAIN v.segs : w.segs[i] = Unnamed(v.segs[i], l)
      /\ v \in Volumes /\ \A i \in DOMAIN v.segs : v.segs[i] \in Segments
  BY <1>1, LessTypes, VolumeSegs
<1>4. lvs'[n] = w
  OBVIOUS
<1> HIDE DEF v, w
<1>5. \A i \in DOMAIN v.segs : /\ w.segs[i].count = v.segs[i].count
                              /\ w.segs[i].areas = v.segs[i].areas
                              /\ w.segs[i].refs = v.segs[i].refs \ {l}
  BY <1>3 DEF Segments, Unnamed
<1>6. RefsOf(w) = RefsOf(v) \ {l}
  BY <1>3, <1>5 DEF RefsOf
<1>7. \A p : VolumeOn(w, p) = VolumeOn(v, p)
  BY <1>3, <1>5, VolumeSame
<1>8. Refs(n)' = Refs(n) \ {l}
  BY <1>4, <1>6 DEF Refs, v
<1>9. \A p : OwnOn(n, p)' = OwnOn(n, p)
  BY <1>4, <1>7, OwnTotal, OwnNow DEF v
<1> QED
  BY <1>2, <1>8, <1>9 DEF Lasts

\* An LV that goes with its sub-LVs and its cache.
LEMMA RemoveFits ==
  ASSUME LvmInv, TypeOK', NEW l \in LVs, Remove(l)
  PROVE  LvmInv'
<1> DEFINE out == {l} \cup {k \in basis[l] : ~Visible(k)}
           X == {l}
<1>1. TypeOK /\ Visible(l) /\ Exists(l) /\ \A k \in LVs \ {l} : l \notin basis[k]
  BY DEF LvmInv, Remove, Visible
<1>2. out \in SUBSET LVs /\ X \in SUBSET out
  BY <1>1 DEF TypeOK
<1>3. /\ \A k \in out : \A n \in Family(k) : n \in Names => lvs'[n] = NoLv
      /\ \A n \in Names : Exists(n) /\ (\A k \in out : n \notin Family(k)) =>
           lvs'[n] = Less(lvs[n], l)
      /\ \A n \in Names : ~Exists(n) => lvs'[n] = NoLv
      /\ \A k \in out : held'[k] = Nowhere /\ basis'[k] = {}
      /\ \A k \in LVs \ out : held'[k] = held[k] /\ basis'[k] = basis[k]
  <2> DEFINE family == out \cup {<< k, r[1], r[2] >> : k \in out, r \in Subs}
  <2>1. \A n : n \in family <=> \E k \in out : n \in Family(k)
    BY DEF Family, SubsOf
  <2>2. /\ lvs' = [n \in Names |-> IF n \in family \/ ~Exists(n) THEN NoLv ELSE Less(lvs[n], l)]
        /\ held' = [k \in LVs |-> IF k \in out THEN Nowhere ELSE held[k]]
        /\ basis' = [k \in LVs |-> IF k \in out THEN {} ELSE basis[k]]
    BY DEF Remove, Less, Unnamed
  <2> HIDE DEF family, out
  <2> QED
    BY <1>2, <2>1, <2>2
<1>4. \A j \in out : j = l \/ (j \in basis[l] /\ ~Visible(j))
  OBVIOUS
<1>5. l \in out /\ \A j \in basis[l] : ~Visible(j) => j \in out
  OBVIOUS
<1> HIDE DEF out
<1>6. ASSUME NEW k \in LVs \ out PROVE basis[k] \cap out = {}
  <2> SUFFICES ASSUME NEW j \in out, j \in basis[k] PROVE FALSE
    OBVIOUS
  <2>1. j # l /\ k # l /\ j # k
    BY <1>1, <1>5, <1>6
  <2>2. j \in (basis[l] \cap basis[k]) \ {l, k} /\ ~Visible(j)
    BY <1>4, <2>1
  <2> QED
    BY <2>1, <2>2 DEF LvmInv, FastOwn
<1>7. ASSUME NEW k \in LVs \ out, Exists(k) PROVE Refs(k) \cap out \subseteq X
  <2> SUFFICES ASSUME NEW j \in out, j \in Refs(k), j # l PROVE FALSE
    OBVIOUS
  <2>1. j \in LVs /\ ~Visible(j) /\ Shaped(k)
    BY <1>2, <1>4, <1>7 DEF LvmInv, Fits
  <2>2. CASE Whole(k)
    BY <2>1, <2>2, Families DEF Whole, There
  <2>3. ASSUME NEW pool \in LVs, ThinIn(k, pool) PROVE FALSE
    <3>1. j # pool
      BY <1>6, <2>3 DEF ThinIn
    <3>2. ThinIn(j, pool)
      BY <2>3, <3>1, ThinParts
    <3> QED
      BY <2>1, <3>2 DEF ThinIn
  <2>4. ASSUME NEW fast \in LVs, CachedBy(k, fast) PROVE FALSE
    <3>1. j # fast
      BY <1>6, <2>4 DEF CachedBy
    <3>2. << k, "corig", 0 >> \in SubsOf(k)
      BY DEF SubsOf, Subs
    <3>3. j # << k, "corig", 0 >>
      BY <2>1, <3>2, Families
    <3> QED
      BY <2>4, <3>1, <3>3 DEF CachedBy
  <2> QED
    BY <2>1, <2>2, <2>3, <2>4 DEF Shaped
<1>8. ApartFrom(out, X)
  BY <1>6, <1>7 DEF ApartFrom
<1>9. ASSUME NEW k \in LVs \ out PROVE Stays(k, X)
  <2>1. ASSUME NEW n \in Family(k) PROVE Lasts(n, X)
    <3>1. n \in Names /\ \A c \in out : n \notin Family(c)
      BY <1>2, Families
    <3>2. CASE Exists(n)
      BY <1>1, <1>3, <3>1, <3>2, NameLess
    <3>3. CASE ~Exists(n)
      BY <1>3, <3>1, <3>3 DEF Lasts, Exists
    <3> QED
      BY <3>2, <3>3
  <2> QED
    BY <1>3, <2>1 DEF Stays
<1>10. ASSUME NEW c \in out PROVE Fits(c)'
  <2>1. c \in LVs /\ \A n \in Family(c) : n \in Names /\ ~Exists(n)'
    BY <1>2, <1>3, Families DEF Exists
  <2>2. ~Exists(c)' /\ \A n \in SubsOf(c) : ~Exists(n)'
    BY <2>1 DEF Family
  <2>3. There(Family(c))' = {}
    BY <2>1 DEF There, Family, SubsOf
  <2>4. AreasHeld(c)'
    <3> SUFFICES ASSUME NEW p \in PVs PROVE FamilyOn(c, p)' = held'[c][p]
      BY DEF AreasHeld
    <3> DEFINE S == {}
               f == [n \in S |-> 0]
    <3>1. \A n \in S : f[n] = OwnOn(n, p)'
      OBVIOUS
    <3>2. There(Family(c))' = S
      BY <2>3
    <3> HIDE DEF f
    <3>3. Total(f, S) = 0
      BY TotalSmall
    <3> HIDE DEF S
    <3>4. FamilyOn(c, p)' = Total(f, S)
      BY <2>1, <3>1, <3>2, FamilyOnNow
    <3>5. held'[c][p] = 0
      BY <1>3 DEF Nowhere
    <3> QED
      BY <3>3, <3>4, <3>5
  <2>5. SubsBare(c)'
    BY <2>2 DEF SubsBare, SubsOf
  <2> QED
    BY <1>3, <2>2, <2>4, <2>5 DEF Fits, AbsentBare
<1>11. \A c \in out : \A b \in basis'[c] \ {c} : Visible(b)'
  BY <1>3
<1> HIDE DEF X
<1> QED
  BY <1>2, <1>8, <1>9, <1>10, <1>11, Rewritten

LEMMA LvmStep ==
  ASSUME LvmInv, [Next]_vars
  PROVE  LvmInv'
<1>1. TypeOK'
  BY TypeStep DEF LvmInv
<1>2. CASE UNCHANGED << lvs, held, basis >>
  BY <1>1, <1>2, LvmUntouched
<1>3. CASE Lvm
  <2>1. ASSUME NEW l \in LVs, NEW p \in PVs, CreateLinear(l, p) \/ Extend(l, p) PROVE LvmInv'
    BY <1>1, <2>1, LinearFits, ExtendFits
  <2>2. ASSUME NEW l \in LVs, NEW p \in PVs, NEW q \in PVs,
               CreateStriped(l, p, q) \/ CreateRaid(l, p, q) \/ CreatePool(l, p, q)
        PROVE  LvmInv'
    BY <1>1, <2>2, StripedFits, RaidFits, PoolFits
  <2>3. ASSUME NEW l \in LVs, NEW k \in LVs, CreateThin(l, k) \/ Snapshot(l, k) \/ Cache(l, k)
        PROVE  LvmInv'
    BY <1>1, <2>3, ThinFits, SnapshotFits, CacheFits
  <2>4. ASSUME NEW l \in LVs, Remove(l) PROVE LvmInv'
    BY <1>1, <2>4, RemoveFits
  <2>5. ASSUME NEW l \in LVs, Refresh(l) \/ Synced(l) PROVE LvmInv'
    <3>1. UNCHANGED << lvs, held, basis >>
      BY <2>5 DEF Refresh, Synced
    <3> QED
      BY <1>2, <3>1
  <2> QED
    BY <1>3, <2>1, <2>2, <2>3, <2>4, <2>5 DEF Lvm
<1>4. CASE Poll
  <2>1. UNCHANGED << lvs, held, basis >>
    BY <1>4 DEF Poll, ReadFilesystems, ReadMissing, ReadVgs, Collect, hostVars
  <2> QED
    BY <1>2, <2>1
<1>5. CASE Host
  <2>1. UNCHANGED << lvs, held, basis >>
    BY <1>5 DEF Host, Unplug, Plug, Mount, Bind, Attach, Umount, hostVars
  <2> QED
    BY <1>2, <2>1
<1>6. CASE UNCHANGED vars
  <2>1. UNCHANGED << lvs, held, basis >>
    BY <1>6 DEF vars, hostVars
  <2> QED
    BY <1>2, <2>1
<1> QED
  BY <1>3, <1>4, <1>5, <1>6 DEF Next

LEMMA LvmInit == Init => LvmInv
<1> SUFFICES ASSUME Init PROVE LvmInv
  OBVIOUS
<1>1. TypeOK
  BY InitTypes
<1>2. \A n \in Names : ~Exists(n)
  BY DEF Init, Exists
<1>3. \A l \in LVs : held[l] = Nowhere /\ basis[l] = {}
  BY DEF Init
<1>4. ASSUME NEW l \in LVs PROVE Fits(l)
  <2>1. \A n \in Family(l) : ~Exists(n)
    BY <1>2, Families
  <2>2. ~Exists(l) /\ \A n \in SubsOf(l) : ~Exists(n)
    BY <2>1 DEF Family
  <2>3. There(Family(l)) = {}
    BY <2>1 DEF There
  <2>4. ASSUME NEW p \in PVs PROVE FamilyOn(l, p) = held[l][p]
    <3> DEFINE none == There(Family(l))
    <3>1. none = {}
      BY <2>3
    <3> HIDE DEF none
    <3>2. Total(Owns(p), none) = 0
      BY <3>1, TotalSmall
    <3> QED
      BY <1>3, <3>2 DEF FamilyOn, Nowhere, none
  <2> QED
    BY <1>3, <2>2, <2>4 DEF Fits, SubsBare, AbsentBare, AreasHeld
<1> QED
  BY <1>1, <1>3, <1>4 DEF LvmInv, FastOwn

\* Whatever LVM commands were run on the volume group, the space that is allocated
\* on each PV, the PVs of an LV's layout and the extents on each are what LVM holds
\* there (lvm.py L172-L256).
THEOREM LvmAccountedHolds == Spec => []LvmAccounted
<1>1. Spec => []LvmInv
  BY LvmInit, LvmStep, PTL DEF Spec
<1> QED
  BY <1>1, LvmReads, PTL

-------------------------------------------------------------------------------
(***************************************************************************)
(* The disks under a device.                                               *)
(***************************************************************************)

\* What can be reached from S: what is in everything that S is in and that holds
\* its own slaves.
Closure(S) ==
  {n \in Nodes : \A T \in SUBSET Nodes : S \subseteq T /\ WithSlaves(T) = T => n \in T}

\* f finds what can be reached, step by step.
Follows(f) ==
  f = [S \in SUBSET Nodes |-> IF WithSlaves(S) = S THEN S ELSE f[WithSlaves(S)]]

LEMMA BottomIs ==
  ASSUME NEW dev
  PROVE  Bottom(dev) = {n \in (CHOOSE f : Follows(f))[{DiskOf(dev)}] : SlavesOf(n) = {}}
BY DEF Bottom, Follows

\* Slaves are devices.
LEMMA SlaveNodes ==
  /\ \A n : SlavesOf(n) \in SUBSET Nodes
  /\ \A n \in Nodes : DiskOf(n) \in Nodes
  /\ \A S \in SUBSET Nodes : WithSlaves(S) \in SUBSET Nodes /\ S \subseteq WithSlaves(S)
  /\ \A S, T : S \subseteq T => WithSlaves(S) \subseteq WithSlaves(T)
<1>1. ASSUME NEW n PROVE SlavesOf(n) \in SUBSET Nodes
  <2>1. \A p \in PVs : DeviceOf[p] \in Nodes
    BY LogicalAssumption DEF LogicalAssumption, Nodes
  <2>2. PvsUnder(n) \in SUBSET PVs
    BY DEF PvsUnder
  <2>3. \A a \in Arrays : Members[a] \in SUBSET Nodes
    BY LogicalAssumption DEF LogicalAssumption, Nodes, Devs
  <2> QED
    BY <2>1, <2>2, <2>3 DEF SlavesOf
<1>2. ASSUME NEW n \in Nodes PROVE DiskOf(n) \in Nodes
  BY LogicalAssumption DEF LogicalAssumption, DiskOf, Nodes, Devs
<1>3. \A S \in SUBSET Nodes : WithSlaves(S) \in SUBSET Nodes /\ S \subseteq WithSlaves(S)
  BY <1>1, <1>2 DEF WithSlaves
<1>4. \A S, T : S \subseteq T => WithSlaves(S) \subseteq WithSlaves(T)
  BY DEF WithSlaves
<1> QED
  BY <1>1, <1>2, <1>3, <1>4

LEMMA FollowsExists == \E f : Follows(f)
<1> DEFINE f == [S \in SUBSET Nodes |-> Closure(S)]
<1>1. ASSUME NEW S \in SUBSET Nodes, WithSlaves(S) = S PROVE Closure(S) = S
  BY <1>1 DEF Closure
<1>2. ASSUME NEW S \in SUBSET Nodes PROVE Closure(S) = Closure(WithSlaves(S))
  <2>1. \A T \in SUBSET Nodes :
          WithSlaves(T) = T => (S \subseteq T <=> WithSlaves(S) \subseteq T)
    BY SlaveNodes
  <2> QED
    BY <2>1 DEF Closure
<1>3. \A S \in SUBSET Nodes : f[S] = IF WithSlaves(S) = S THEN S ELSE f[WithSlaves(S)]
  BY <1>1, <1>2, SlaveNodes
<1>4. f = [S \in SUBSET Nodes |-> f[S]]
  OBVIOUS
<1> HIDE DEF f
<1> QED
  BY <1>3, <1>4 DEF Follows

\* What is under a device whose slaves have none.
LEMMA ShallowBottom ==
  ASSUME NEW dev \in Nodes, NEW D, D = DiskOf(dev),
         \A d \in SlavesOf(D) : SlavesOf(DiskOf(d)) = {}
  PROVE  Bottom(dev) = IF SlavesOf(D) = {} THEN {D} ELSE {DiskOf(d) : d \in SlavesOf(D)}
<1> DEFINE f == CHOOSE g : Follows(g)
           W == {D} \cup {DiskOf(d) : d \in SlavesOf(D)}
           S == {D}
<1>1. Follows(f)
  BY FollowsExists
<1>2. S \in SUBSET Nodes
  BY SlaveNodes
<1>3. WithSlaves(S) = W
  BY DEF WithSlaves
<1>4. WithSlaves(W) = W
  BY DEF WithSlaves
<1>5. Bottom(dev) = {n \in f[S] : SlavesOf(n) = {}}
  BY BottomIs
<1>6. W \in SUBSET Nodes
  BY <1>2, <1>3, SlaveNodes
<1>7. W = {D} \cup {DiskOf(d) : d \in SlavesOf(D)} /\ S = {D}
  OBVIOUS
<1> HIDE DEF f, W, S
<1>8. \A R \in SUBSET Nodes : f[R] = IF WithSlaves(R) = R THEN R ELSE f[WithSlaves(R)]
  <2> DEFINE g == [R \in SUBSET Nodes |-> IF WithSlaves(R) = R THEN R ELSE f[WithSlaves(R)]]
  <2>1. f = g
    BY <1>1 DEF Follows
  <2>2. \A R \in SUBSET Nodes : g[R] = IF WithSlaves(R) = R THEN R ELSE f[WithSlaves(R)]
    OBVIOUS
  <2> HIDE DEF g
  <2> QED
    BY <2>1, <2>2
<1>9. f[S] = W
  BY <1>2, <1>3, <1>4, <1>6, <1>8
<1>10. Bottom(dev) = {n \in W : SlavesOf(n) = {}}
  BY <1>5, <1>9
<1> QED
  BY <1>7, <1>10

\* The disks that a reader finds under a block device that is there are those it is
\* on, but the ones that are gone.
LEMMA DisksFound ==
  ASSUME NEW dev \in Devs, Alive(dev)
  PROVE  WholeDisks(dev) = DisksUnder(dev) \ gone
<1> DEFINE Base(d) == IF d \in Partitions THEN ParentDisk[d] ELSE d
<1>0. LogicalAssumption
  BY LogicalAssumption
<1>1. \A d \in Disks : SlavesOf(d) = {}
  BY <1>0 DEF LogicalAssumption, SlavesOf, Devs
<1>2. \A d \in Disks \cup Partitions : Base(d) \in Disks /\ DisksUnder(d) = {Base(d)}
  BY <1>0 DEF LogicalAssumption, DisksUnder
<1>3. \A d \in Disks \cup Partitions : (Alive(d) <=> Base(d) \notin gone)
                                      /\ (Alive(d) => DiskOf(d) = Base(d))
  BY <1>2 DEF Alive, DiskOf
<1>4. CASE dev \in Disks \cup Partitions
  <2> DEFINE D == DiskOf(dev)
  <2>1. D = Base(dev) /\ D \in Disks /\ D \notin gone /\ SlavesOf(D) = {} /\ dev \in Nodes
    BY <1>1, <1>2, <1>3, <1>4 DEF Nodes
  <2> HIDE DEF Base
  <2>2. Bottom(dev) = {D}
    <3>1. \A d \in SlavesOf(D) : SlavesOf(DiskOf(d)) = {}
      BY <2>1
    <3>2. D = DiskOf(dev)
      OBVIOUS
    <3> HIDE DEF D
    <3> QED
      BY <2>1, <3>1, <3>2, ShallowBottom
  <2> HIDE DEF D
  <2> QED
    BY <1>2, <1>4, <2>1, <2>2 DEF WholeDisks
<1>5. CASE dev \in Arrays
  <2> DEFINE here == {d \in Members[dev] : Alive(d)}
  <2>1. /\ dev \notin Partitions /\ dev \notin LVs /\ dev \in Nodes
        /\ Members[dev] \in SUBSET (Disks \cup Partitions)
    BY <1>0, <1>5 DEF LogicalAssumption, Nodes, Devs
  <2>2. DiskOf(dev) = dev /\ SlavesOf(dev) = here
    BY <1>5, <2>1 DEF DiskOf, SlavesOf
  <2>3. DisksUnder(dev) = {Base(d) : d \in Members[dev]}
    BY <1>5 DEF DisksUnder
  <2>4. \A d \in here : Base(d) = DiskOf(d) /\ Base(d) \in Disks /\ SlavesOf(DiskOf(d)) = {}
    BY <1>1, <1>2, <1>3, <2>1
  <2>5. DisksUnder(dev) \ gone = {DiskOf(d) : d \in here}
    BY <1>3, <2>1, <2>3, <2>4
  <2>6. here # {}
    BY <2>5 DEF Alive
  <2>7. \A d \in here : DiskOf(d) \in Disks \ gone
    BY <1>3, <2>1, <2>4
  <2> HIDE DEF Base, here
  <2>8. Bottom(dev) = {DiskOf(d) : d \in here}
    BY <2>1, <2>2, <2>4, <2>6, ShallowBottom
  <2> QED
    BY <2>5, <2>7, <2>8 DEF WholeDisks
<1> QED
  BY <1>4, <1>5 DEF Devs

\* Under an LV none of whose PVs is there it finds none.
LEMMA NoDisksFound ==
  ASSUME NEW l \in LVs, ~AnyPresent
  PROVE  WholeDisks(l) = {}
<1>1. l \in Nodes /\ l \notin Partitions /\ l \notin Disks
  BY LogicalAssumption DEF LogicalAssumption, Nodes, Devs
<1>2. SlavesOf(l) = {} /\ DiskOf(l) = l
  BY <1>1 DEF SlavesOf, DiskOf, AnyPresent, PvsUnder
<1>3. Bottom(l) = {l}
  BY <1>1, <1>2, ShallowBottom
<1> QED
  BY <1>1, <1>3 DEF WholeDisks

-------------------------------------------------------------------------------
(***************************************************************************)
(* What a poll reports of the filesystems.                                 *)
(***************************************************************************)

\* What is mounted is a volume that LVM shows.
MountsLive == \A m \in MountedNow : m.fs \in LVs => Visible(m.fs)

\* What the poll listed is the mount that stayed at its mount point, if one did.
ListedStays == pc # "idle" => \A m \in listed, n \in kept : m.mnt = n.mnt => m = n

\* Until something changes, the layouts that were read hold.
LayoutRead ==
  pc = "collect" /\ ~torn =>
    \A l \in LVs : layout[l] = IF VgListed /\ Visible(l) THEN PvsUnder(l) ELSE NoLv

\* No device has been looked up yet in this poll.
CacheClear == pc \in {"vgs", "collect"} => \A n \in Nodes : cache[n] = Unread

BackingInv ==
  LvmInv /\ MountsInv /\ AsRead /\ MountsLive /\ ListedStays /\ LayoutRead /\ CacheClear

\* A command that writes new, with l only if it shows it.
LEMMA WriteShows ==
  ASSUME NEW l, NEW new, NEW on, NEW lies, Write(l, new, on, lies),
         NEW k \in LVs, Visible(k),
         k \in DOMAIN new => new[k] # NoLv /\ new[k].visible
  PROVE  Visible(k)'
<1>1. lvs' = [n \in Names |-> IF n \in DOMAIN new THEN new[n] ELSE lvs[n]]
  BY DEF Write
<1>2. k \in Names
  BY SubNames
<1>3. lvs'[k] = IF k \in DOMAIN new THEN new[k] ELSE lvs[k]
  BY <1>1, <1>2
<1> QED
  BY <1>3 DEF Visible, Exists

\* The commands that make an LV write no other.
LEMMA NewShows ==
  ASSUME NEW l \in LVs, NEW subs, subs \cap LVs = {}, NEW new, DOMAIN new = {l} \cup subs,
         NEW on, NEW lies, Write(l, new, on, lies), ~Exists(l), NEW k \in LVs, Visible(k)
  PROVE  Visible(k)'
<1>1. k \notin DOMAIN new
  BY DEF Visible
<1> QED
  BY <1>1, WriteShows

\* No command takes from what is mounted.
LEMMA MountedShown ==
  ASSUME TypeOK, Lvm, NEW k \in LVs, Visible(k), \E m \in MountedNow : m.fs = k
  PROVE  Visible(k)'
<1>0. \A l \in LVs : /\ << l, "rimage", 0 >> \notin LVs /\ << l, "rmeta", 0 >> \notin LVs
                     /\ << l, "rimage", 1 >> \notin LVs /\ << l, "rmeta", 1 >> \notin LVs
                     /\ << l, "tdata", 0 >> \notin LVs /\ << l, "tmeta", 0 >> \notin LVs
                     /\ << l, "corig", 0 >> \notin LVs
  <2>1. ASSUME NEW l \in LVs, NEW r \in Subs PROVE << l, r[1], r[2] >> \notin LVs
    BY LogicalAssumption DEF LogicalAssumption
  <2> QED
    BY <2>1 DEF Subs
<1>1. \A v \in Volumes : v # NoLv
  BY LogicalAssumption DEF LogicalAssumption
<1>2. ASSUME NEW l \in LVs, NEW p \in PVs, CreateLinear(l, p) PROVE Visible(k)'
  <2> DEFINE new == [n \in {l} |-> Volume(OnAreas(2, << p >>))]
  <2>1. Write(l, new, On(p, 2), {l}) /\ ~Exists(l)
    BY <1>2 DEF CreateLinear, Command
  <2>2. DOMAIN new = {l} \cup {}
    OBVIOUS
  <2> HIDE DEF new
  <2> QED
    BY <2>1, <2>2, NewShows
<1>3. ASSUME NEW l \in LVs, NEW p \in PVs, Extend(l, p) PROVE Visible(k)'
  <2> DEFINE v == [lvs[l] EXCEPT !.segs = Append(@, OnAreas(1, << p >>))]
             new == [n \in {l} |-> v]
             on == [held[l] EXCEPT ![p] = @ + 1]
  <2>1. lvs[l] \in Volumes /\ lvs[l].visible
    BY <1>3, SubNames DEF Extend, OwnAreas, Visible, Exists, TypeOK
  <2>2. lvs[l].segs \in Seq(Segments) /\ OnAreas(1, << p >>) \in Segments
    BY <2>1, AreaTypes DEF Volumes
  <2>3. Append(lvs[l].segs, OnAreas(1, << p >>)) \in Seq(Segments)
    BY <2>2
  <2>4. v \in Volumes /\ v.visible
    BY <2>1, <2>3 DEF Volumes
  <2>5. Write(l, new, on, {l})
    BY <1>3 DEF Extend, Command
  <2>6. \A n \in DOMAIN new : new[n] = v
    OBVIOUS
  <2> HIDE DEF new, v, on
  <2> QED
    BY <1>1, <2>4, <2>5, <2>6, WriteShows
<1>4. ASSUME NEW l \in LVs, NEW p \in PVs, NEW q \in PVs,
             CreateStriped(l, p, q) \/ CreateRaid(l, p, q) \/ CreatePool(l, p, q)
      PROVE  Visible(k)'
  <2>1. CASE CreateStriped(l, p, q)
    <3> DEFINE new == [n \in {l} |-> Volume(OnAreas(2, << p, q >>))]
    <3>1. Write(l, new, OnBoth(p, q, 1, 1), {l}) /\ ~Exists(l)
      BY <2>1 DEF CreateStriped, Command
    <3>2. DOMAIN new = {l} \cup {}
      OBVIOUS
    <3> HIDE DEF new
    <3> QED
      BY <3>1, <3>2, NewShows
  <2>2. CASE CreateRaid(l, p, q)
    <3> DEFINE Leg(i) == {<< l, "rimage", i >>, << l, "rmeta", i >>}
               subs == Leg(0) \cup Leg(1)
               new == [n \in {l} \cup Leg(0) \cup Leg(1) |->
                         IF n = l THEN Volume(OnVolumes(2, Leg(0) \cup Leg(1)))
                         ELSE Hidden(OnAreas(IF n[2] = "rimage" THEN 2 ELSE 1,
                                             << IF n[3] = 0 THEN p ELSE q >>))]
    <3>1. Write(l, new, OnBoth(p, q, 3, 3), {l}) /\ ~Exists(l)
      BY <2>2 DEF CreateRaid
    <3>2. DOMAIN new = {l} \cup subs
      OBVIOUS
    <3>3. subs \cap LVs = {}
      BY <1>0
    <3> HIDE DEF new, subs
    <3> QED
      BY <3>1, <3>2, <3>3, NewShows
  <2>3. CASE CreatePool(l, p, q)
    <3> DEFINE data == << l, "tdata", 0 >>
               meta == << l, "tmeta", 0 >>
               subs == {data, meta}
               new == [n \in {l, data, meta} |->
                         IF n = l THEN Volume(OnVolumes(2, {data, meta}))
                         ELSE IF n = data THEN Hidden(OnAreas(2, << p >>))
                         ELSE Hidden(OnAreas(1, << q >>))]
    <3>1. Write(l, new, OnBoth(p, q, 2, 1), {l}) /\ ~Exists(l)
      BY <2>3 DEF CreatePool, Command
    <3>2. DOMAIN new = {l} \cup subs
      OBVIOUS
    <3>3. subs \cap LVs = {}
      BY <1>0
    <3> HIDE DEF new, subs
    <3> QED
      BY <3>1, <3>2, <3>3, NewShows
  <2> QED
    BY <1>4, <2>1, <2>2, <2>3
<1>5. ASSUME NEW l \in LVs, NEW j \in LVs, CreateThin(l, j) \/ Snapshot(l, j)
      PROVE  Visible(k)'
  <2>1. ASSUME NEW s, NEW lies, Command(l, [n \in {l} |-> s], Nowhere, lies), ~Exists(l)
        PROVE  Visible(k)'
    <3> DEFINE new == [n \in {l} |-> s]
    <3>1. Write(l, new, Nowhere, lies)
      BY <2>1 DEF Command
    <3>2. DOMAIN new = {l} \cup {}
      OBVIOUS
    <3> HIDE DEF new
    <3> QED
      BY <2>1, <3>1, <3>2, NewShows
  <2>2. CASE CreateThin(l, j)
    BY <2>1, <2>2 DEF CreateThin
  <2>3. CASE Snapshot(l, j)
    <3> DEFINE pool == CHOOSE i \in basis[j] : TRUE
    <3>1. ~Exists(l) /\ Command(l, [n \in {l} |-> Volume(OnVolumes(2, {pool, j}))], Nowhere, {pool})
      BY <2>3 DEF Snapshot
    <3> HIDE DEF pool
    <3> QED
      BY <2>1, <3>1
  <2> QED
    BY <1>5, <2>2, <2>3
<1>6. ASSUME NEW l \in LVs, NEW fast \in LVs, Cache(l, fast) PROVE Visible(k)'
  <2> DEFINE orig == << l, "corig", 0 >>
             new == [n \in {l, orig, fast} |->
                       IF n = l THEN Volume(OnVolumes(2, {orig, fast}))
                       ELSE IF n = orig THEN [lvs[l] EXCEPT !.visible = FALSE]
                       ELSE [lvs[fast] EXCEPT !.visible = FALSE]]
             lies == {l, fast}
  <2>1. Write(l, new, held[l], lies)
    BY <1>6 DEF Cache, Command
  <2>2. k # fast
    BY <1>6 DEF Cache, MountedNow
  <2>3. DOMAIN new = {l, orig, fast} /\ new[l] = Volume(OnVolumes(2, {orig, fast}))
    OBVIOUS
  <2>4. {orig, fast} \in SUBSET Names
    BY SubNames
  <2>5. Volume(OnVolumes(2, {orig, fast})) \in Volumes /\ Volume(OnVolumes(2, {orig, fast})).visible
    BY <2>4, Segs, Vols
  <2>6. k # orig
    BY <1>0
  <2> HIDE DEF new, orig, lies
  <2> QED
    BY <1>1, <2>1, <2>2, <2>3, <2>5, <2>6, WriteShows
<1>7. ASSUME NEW l \in LVs, Remove(l) PROVE Visible(k)'
  <2> DEFINE out == {l} \cup {j \in basis[l] : ~Visible(j)}
             family == out \cup {<< j, r[1], r[2] >> : j \in out, r \in Subs}
  <2>1. lvs' = [n \in Names |-> IF n \in family \/ ~Exists(n) THEN NoLv ELSE Less(lvs[n], l)]
    BY <1>7 DEF Remove, Less, Unnamed
  <2>2. k \notin out
    BY <1>7 DEF Remove, MountedNow
  <2>3. k \notin family
    <3>1. out \in SUBSET LVs
      BY DEF TypeOK
    <3> HIDE DEF out
    <3>2. \A j \in out, r \in Subs : << j, r[1], r[2] >> # k
      BY <3>1, LogicalAssumption DEF LogicalAssumption
    <3> QED
      BY <2>2, <3>2
  <2> HIDE DEF family, out
  <2>4. k \in Names /\ Exists(k) /\ lvs[k].visible
    BY SubNames DEF Visible
  <2>5. lvs'[k] = Less(lvs[k], l)
    BY <2>1, <2>3, <2>4
  <2>6. lvs[k] \in Volumes
    BY <2>4, OwnNat
  <2>7. Less(lvs[k], l) \in Volumes /\ Less(lvs[k], l).visible
    BY <2>4, <2>6, LessTypes
  <2> QED
    BY <1>1, <2>5, <2>7 DEF Visible, Exists
<1>8. ASSUME NEW l \in LVs, Refresh(l) \/ Synced(l) PROVE Visible(k)'
  BY <1>8 DEF Refresh, Synced, Visible, Exists
<1> QED
  BY <1>2, <1>3, <1>4, <1>5, <1>6, <1>7, <1>8 DEF Lvm

LEMMA UmountLess ==
  ASSUME TypeOK, NEW i \in DOMAIN mounts, Umount(i)
  PROVE  MountedNow' \subseteq MountedNow
<1>1. mounts \in Seq(Mounts) /\ i \in 1 .. Len(mounts)
  BY DEF TypeOK
<1>2. ASSUME NEW j \in 1 .. Len(mounts') PROVE mounts'[j] \in MountedNow
  <2>1. (IF j < i THEN j ELSE j + 1) \in DOMAIN mounts
    BY <1>1, UmountLeaves
  <2> QED
    BY <2>1, UmountLeaves DEF MountedNow
<1>3. DOMAIN mounts' = 1 .. Len(mounts')
  BY UmountLeaves
<1> QED
  BY <1>2, <1>3 DEF MountedNow

LEMMA MountsLiveStep ==
  ASSUME TypeOK, MountsLive, [Next]_vars
  PROVE  MountsLive'
<1>1. ASSUME UNCHANGED lvs, NEW m \in MountedNow, m.fs \in LVs PROVE Visible(m.fs)'
  BY <1>1 DEF MountsLive, Visible, Exists
<1>2. ASSUME UNCHANGED lvs, MountedNow' \subseteq MountedNow PROVE MountsLive'
  BY <1>1, <1>2 DEF MountsLive
<1>3. mounts \in Seq(Mounts)
  BY DEF TypeOK
<1>4. CASE Poll
  <2>1. UNCHANGED << lvs, mounts >>
    BY <1>4 DEF Poll, ReadFilesystems, ReadMissing, ReadVgs, Collect, hostVars
  <2> QED
    BY <1>2, <2>1 DEF MountedNow
<1>5. CASE Lvm
  <2>1. mounts' = mounts
    BY <1>5, LvmElsewhere
  <2>2. ASSUME NEW m \in MountedNow, m.fs \in LVs PROVE Visible(m.fs)'
    BY <1>5, <2>2, MountedShown DEF MountsLive
  <2>3. MountedNow' = MountedNow
    BY <2>1 DEF MountedNow
  <2> QED
    BY <2>2, <2>3 DEF MountsLive
<1>6. ASSUME NEW m, Attach(m), m.fs \in LVs => Visible(m.fs) PROVE MountsLive'
  <2>1. mounts' = Append(mounts, m) /\ UNCHANGED lvs
    BY <1>6 DEF Attach, hostVars
  <2>2. \A n \in MountedNow' : n \in MountedNow \/ n = m
    BY <1>3, <2>1 DEF MountedNow
  <2>3. m.fs \in LVs => Visible(m.fs)'
    BY <1>6, <2>1 DEF Visible, Exists
  <2> QED
    BY <1>1, <2>1, <2>2, <2>3 DEF MountsLive
<1>7. CASE Host
  <2>1. ASSUME NEW d \in Disks, Unplug(d) \/ Plug(d) PROVE MountsLive'
    BY <1>2, <2>1 DEF Unplug, Plug, MountedNow
  <2>2. ASSUME NEW fs \in FsHolders, NEW mnt \in MountPoints, Mount(fs, mnt) PROVE MountsLive'
    <3> DEFINE m == [fs |-> fs, root |-> "/", mnt |-> mnt]
    <3>1. Attach(m) /\ (fs \in LVs => Visible(fs)) /\ m.fs = fs
      BY <2>2 DEF Mount
    <3> HIDE DEF m
    <3> QED
      BY <1>6, <3>1
  <2>3. ASSUME NEW i \in DOMAIN mounts, NEW mnt \in MountPoints, Bind(i, mnt) PROVE MountsLive'
    <3> DEFINE m == [fs |-> mounts[i].fs, root |-> "dir", mnt |-> mnt]
    <3>1. Attach(m) /\ m.fs = mounts[i].fs
      BY <2>3 DEF Bind
    <3>2. mounts[i] \in MountedNow
      BY DEF MountedNow
    <3> HIDE DEF m
    <3> QED
      BY <1>6, <3>1, <3>2 DEF MountsLive
  <2>4. ASSUME NEW i \in DOMAIN mounts, Umount(i) PROVE MountsLive'
    <3>1. UNCHANGED lvs
      BY <2>4 DEF Umount, hostVars
    <3> QED
      BY <1>2, <2>4, <3>1, UmountLess
  <2> QED
    BY <1>7, <2>1, <2>2, <2>3, <2>4 DEF Host
<1>8. CASE UNCHANGED vars
  <2>1. UNCHANGED << lvs, mounts >>
    BY <1>8 DEF vars, hostVars
  <2> QED
    BY <1>2, <2>1 DEF MountedNow
<1> QED
  BY <1>4, <1>5, <1>7, <1>8 DEF Next

LEMMA ListedStaysStep ==
  ASSUME MountsInv, ListedStays, [Next]_vars
  PROVE  ListedStays'
<1>1. ASSUME UNCHANGED << pc, listed >>, kept' \subseteq kept PROVE ListedStays'
  BY <1>1 DEF ListedStays
<1>2. CASE ReadFilesystems
  <2>1. PICK failing : listed' = ListedOf(mounts, failing)
    BY <1>2 DEF ReadFilesystems
  <2>2. kept' = MountedNow
    BY <1>2 DEF ReadFilesystems, MountedNow
  <2>3. listed' \subseteq MountedNow
    BY <2>1 DEF ListedOf, MountedNow
  <2>4. \A m, n \in MountedNow : m.mnt = n.mnt => m = n
    BY DEF MountsInv, MountsApart, MountedNow
  <2> QED
    BY <2>2, <2>3, <2>4 DEF ListedStays
<1>3. CASE ReadMissing \/ ReadVgs
  <2>1. pc # "idle" /\ UNCHANGED << listed, kept >>
    BY <1>3 DEF ReadMissing, ReadVgs
  <2> QED
    BY <2>1 DEF ListedStays
<1>4. CASE Collect
  BY <1>4 DEF Collect, ListedStays
<1>5. CASE Lvm
  BY <1>1, <1>5, LvmElsewhere DEF pollVars
<1>6. CASE Host
  BY <1>1, <1>6 DEF Host, Unplug, Plug, Mount, Bind, Attach, Umount, Change, pollVars
<1>7. CASE UNCHANGED vars
  BY <1>1, <1>7 DEF vars, pollVars
<1> QED
  BY <1>2, <1>3, <1>4, <1>5, <1>6, <1>7 DEF Next, Poll

LEMMA LayoutReadStep ==
  ASSUME LvmInv, LayoutRead, [Next]_vars
  PROVE  LayoutRead'
<1>1. ASSUME gone' = gone, lvs' = lvs, held' = held, basis' = basis
      PROVE  VgListed' = VgListed /\ \A l \in LVs : /\ Visible(l)' = Visible(l)
                                                   /\ PvsUnder(l)' = PvsUnder(l)
  BY <1>1, AliveUnchanged DEF Visible, Exists, PvsUnder
<1>2. ASSUME UNCHANGED << hostVars, pc, layout >>, torn' = torn PROVE LayoutRead'
  BY <1>1, <1>2 DEF LayoutRead, hostVars
<1>3. ASSUME torn' = (pc = "collect"), pc' = pc PROVE LayoutRead'
  BY <1>3 DEF LayoutRead
<1>4. CASE ReadVgs
  <2>1. /\ layout' = [l \in LVs |-> IF VgListed /\ Visible(l) THEN LayoutOf(l) ELSE NoLv]
        /\ UNCHANGED hostVars
    BY <1>4 DEF ReadVgs
  <2>2. \A l \in LVs : Visible(l) => LayoutOf(l) = PvsUnder(l)
    BY LvmReads DEF LvmAccounted
  <2>3. \A l \in LVs : layout'[l] = IF VgListed /\ Visible(l) THEN PvsUnder(l) ELSE NoLv
    BY <2>1, <2>2
  <2> QED
    BY <1>1, <2>1, <2>3 DEF LayoutRead, hostVars
<1>5. CASE ReadFilesystems \/ ReadMissing \/ Collect
  BY <1>5 DEF ReadFilesystems, ReadMissing, Collect, LayoutRead
<1>6. CASE Lvm
  BY <1>3, <1>6, LvmElsewhere DEF pollVars
<1>7. CASE Host
  <2>1. ASSUME NEW d \in Disks, Unplug(d) \/ Plug(d) PROVE LayoutRead'
    BY <1>3, <2>1 DEF Unplug, Plug, Change, pollVars
  <2>2. ASSUME NEW m, Attach(m) PROVE LayoutRead'
    BY <1>2, <2>2 DEF Attach, Change, pollVars
  <2>3. ASSUME NEW i \in DOMAIN mounts, Umount(i) PROVE LayoutRead'
    BY <1>2, <2>3 DEF Umount, Change, pollVars
  <2> QED
    BY <1>7, <2>1, <2>2, <2>3 DEF Host, Mount, Bind
<1>8. CASE UNCHANGED vars
  BY <1>2, <1>8 DEF vars, pollVars
<1> QED
  BY <1>4, <1>5, <1>6, <1>7, <1>8 DEF Next, Poll

LEMMA CacheClearStep ==
  ASSUME CacheClear, [Next]_vars
  PROVE  CacheClear'
<1>1. ASSUME UNCHANGED << pc, cache >> PROVE CacheClear'
  BY <1>1 DEF CacheClear
<1>2. CASE Poll
  BY <1>2 DEF Poll, ReadFilesystems, ReadMissing, ReadVgs, Collect, CacheClear
<1>3. CASE Lvm
  BY <1>1, <1>3, LvmElsewhere DEF pollVars
<1>4. CASE Host
  BY <1>1, <1>4 DEF Host, Unplug, Plug, Mount, Bind, Attach, Umount, Change, pollVars
<1>5. CASE UNCHANGED vars
  BY <1>1, <1>5 DEF vars, pollVars
<1> QED
  BY <1>2, <1>3, <1>4, <1>5 DEF Next

\* The disks that a poll that nothing tore shows under an LV: those of its PVs.
LEMMA LvDisks ==
  ASSUME BackingInv, pc = "collect", ~torn, NEW m \in listed, m.fs \in LVs \ Btrfs,
         Visible(m.fs)
  PROVE  /\ ViewOf(m).lv = m.fs
         /\ AnyPresent => ViewOf(m).pvs = PvsUnder(m.fs)
         /\ ViewOf(m).disks = UNION {DisksUnder(DeviceOf[p]) \ gone : p \in PvsUnder(m.fs)}
<1> DEFINE l == m.fs
           shown(p) == DisksUnder(DeviceOf[p]) \ gone
<1>1. /\ l \in LVs /\ l # NoLv /\ DeviceThere(l)
      /\ PvsUnder(l) \in SUBSET PVs /\ PvsUnder(l) # NoLv
  <2>1. PvsUnder(l) \in SUBSET PVs
    BY DEF PvsUnder
  <2> QED
    BY <2>1, LogicalAssumption DEF LogicalAssumption, DeviceThere, Visible
<1>2. \A n \in Nodes : DisksOf(n) = WholeDisks(n)
  BY DEF BackingInv, CacheClear, DisksOf
<1>3. VgListed <=> AnyPresent
  BY DEF VgListed, AnyPresent
<1>4. layout[l] = IF AnyPresent THEN PvsUnder(l) ELSE NoLv
  BY <1>1, <1>3 DEF BackingInv, LayoutRead
<1>5. /\ ViewOf(m).lv = l
      /\ ViewOf(m).pvs = IF layout[l] # NoLv THEN layout[l] ELSE {}
      /\ ViewOf(m).disks = IF layout[l] # NoLv
                           THEN UNION {DisksOf(DeviceOf[p]) : p \in layout[l] \cap attached}
                           ELSE DisksOf(l)
  BY <1>1 DEF ViewOf
<1>6. CASE AnyPresent
  <2>1. attached = {p \in PVs : Present(p)}
    BY <1>3, <1>6 DEF BackingInv, AsRead
  <2>2. ASSUME NEW p \in PVs, Present(p) PROVE DisksOf(DeviceOf[p]) = shown(p)
    <3>1. DeviceOf[p] \in Devs /\ DeviceOf[p] \in Nodes /\ Alive(DeviceOf[p])
      BY <2>2, LogicalAssumption DEF LogicalAssumption, Nodes, Present
    <3> QED
      BY <1>2, <3>1, DisksFound
  <2>3. \A p \in PVs : ~Present(p) => shown(p) = {}
    BY DEF Present, Alive
  <2>4. ViewOf(m).disks = UNION {DisksOf(DeviceOf[p]) : p \in PvsUnder(l) \cap attached}
    BY <1>1, <1>4, <1>5, <1>6
  <2> HIDE DEF l, shown
  <2>5. ViewOf(m).disks = UNION {shown(p) : p \in PvsUnder(l)}
    BY <1>1, <2>1, <2>2, <2>3, <2>4
  <2> QED
    BY <1>1, <1>4, <1>5, <1>6, <2>5 DEF l, shown
<1>7. CASE ~AnyPresent
  <2>1. \A p \in PVs : shown(p) = {}
    BY <1>7 DEF AnyPresent, Present, Alive
  <2>2. DisksOf(l) = {}
    BY <1>1, <1>2, <1>7, NoDisksFound DEF Nodes
  <2>3. ViewOf(m).disks = {}
    BY <1>4, <1>5, <1>7, <2>2
  <2> HIDE DEF l, shown
  <2>4. ViewOf(m).disks = UNION {shown(p) : p \in PvsUnder(l)}
    BY <1>1, <2>1, <2>3
  <2> QED
    BY <1>5, <1>7, <2>4 DEF l, shown
<1> QED
  BY <1>6, <1>7

\* Those of a partition that holds a filesystem.
LEMMA PlainDisks ==
  ASSUME BackingInv, pc = "collect", NEW m \in listed, m.fs \in FsHolders,
         m.fs \notin LVs, m.fs \notin Btrfs
  PROVE  ViewOf(m).lv = NoLv /\ ViewOf(m).disks = DisksUnder(m.fs) \ gone
<1>1. m.fs \in Devs /\ m.fs \in Nodes
  BY LogicalAssumption DEF LogicalAssumption, FsHolders, Devs, Nodes
<1>2. DisksOf(m.fs) = WholeDisks(m.fs)
  BY <1>1 DEF BackingInv, CacheClear, DisksOf
<1>3. /\ ViewOf(m).lv = NoLv
      /\ ViewOf(m).disks = IF Alive(m.fs) THEN DisksOf(m.fs) ELSE {}
  BY DEF ViewOf, DeviceThere
<1>4. ~Alive(m.fs) => DisksUnder(m.fs) \ gone = {}
  BY DEF Alive
<1> QED
  BY <1>1, <1>2, <1>3, <1>4, DisksFound

\* What a view says of a filesystem, where the mount has stayed.
ShownRight(v) ==
  IF v.fs \in Btrfs THEN v.lv = NoLv /\ v.disks = {}
  ELSE IF v.fs \in LVs
  THEN /\ v.lv = v.fs
       /\ AnyPresent => v.pvs = PvsUnder(v.fs)
       /\ v.disks = UNION {DisksUnder(DeviceOf[p]) \ gone : p \in PvsUnder(v.fs)}
  ELSE v.lv = NoLv /\ v.disks = DisksUnder(v.fs) \ gone

LEMMA ViewRight ==
  ASSUME BackingInv, Collect, ~torn, NEW v \in current'.fss, NEW n \in kept, n.mnt = v.mnt
  PROVE  ShownRight(v)
<1>1. pc = "collect" /\ current'.fss = {ViewOf(m) : m \in listed}
  BY DEF Collect
<1>2. PICK m \in listed : v = ViewOf(m)
  BY <1>1
<1>3. v.fs = m.fs /\ v.mnt = m.mnt
  BY <1>2, ViewTypes DEF BackingInv, LvmInv
<1>4. m = n
  BY <1>1, <1>3 DEF BackingInv, ListedStays
<1>5. m \in MountedNow /\ m.fs \in FsHolders
  <2>1. m \in MountedNow
    BY <1>1, <1>4 DEF BackingInv, MountsInv, Tracked
  <2>2. m \in Mounts
    BY DEF BackingInv, LvmInv, TypeOK
  <2> QED
    BY <2>1, <2>2 DEF Mounts
<1>6. CASE m.fs \in Btrfs
  <2>1. ViewOf(m).lv = NoLv /\ ViewOf(m).disks = {}
    BY <1>6 DEF ViewOf, DeviceThere
  <2> QED
    BY <1>2, <1>3, <1>6, <2>1 DEF ShownRight
<1>7. CASE m.fs \in LVs /\ m.fs \notin Btrfs
  <2>1. Visible(m.fs)
    BY <1>5, <1>7 DEF BackingInv, MountsLive
  <2>2. m.fs \in LVs \ Btrfs
    BY <1>7
  <2> QED
    BY <1>1, <1>2, <1>3, <1>7, <2>1, <2>2, LvDisks DEF ShownRight
<1>8. CASE m.fs \notin LVs /\ m.fs \notin Btrfs
  BY <1>1, <1>2, <1>3, <1>5, <1>8, PlainDisks DEF ShownRight
<1> QED
  BY <1>6, <1>7, <1>8

\* A filesystem that stays mounted is shown on the LV, the PVs and the disks that it
\* is on, in every poll that nothing tore, and nothing under a btrfs
\* (storage_lvm.py L132-L147, L304-L333, drives.py L226-L247).
THEOREM BackingShownHolds == Spec => BackingShown
<1>1. Init => BackingInv
  <2>1. Init => MountsInv
    BY InitTypes DEF Init, MountsInv, MountsApart, Tracked, MissingKnown, ListedKnown
  <2>2. Init => AsRead /\ MountsLive /\ ListedStays /\ LayoutRead /\ CacheClear
    BY DEF Init, AsRead, MountsLive, MountedNow, ListedStays, LayoutRead, CacheClear
  <2> QED
    BY <2>1, <2>2, LvmInit DEF BackingInv
<1>2. BackingInv /\ [Next]_vars => BackingInv'
  <2> SUFFICES ASSUME BackingInv, [Next]_vars PROVE BackingInv'
    OBVIOUS
  <2>1. LvmInv' /\ MountsInv' /\ AsRead'
    BY LvmStep, MountsStep, AsReadStep DEF BackingInv
  <2>2. MountsLive'
    BY MountsLiveStep DEF BackingInv, LvmInv
  <2>3. ListedStays' /\ LayoutRead' /\ CacheClear'
    BY ListedStaysStep, LayoutReadStep, CacheClearStep DEF BackingInv
  <2> QED
    BY <2>1, <2>2, <2>3 DEF BackingInv
<1>3. BackingInv /\ Collect /\ ~torn => \A v \in current'.fss :
        (\E m \in kept : m.mnt = v.mnt) =>
          IF v.fs \in Btrfs THEN v.lv = NoLv /\ v.disks = {}
          ELSE IF v.fs \in LVs
          THEN /\ v.lv = v.fs
               /\ AnyPresent => v.pvs = PvsUnder(v.fs)
               /\ v.disks = UNION {DisksUnder(DeviceOf[p]) \ gone : p \in PvsUnder(v.fs)}
          ELSE v.lv = NoLv /\ v.disks = DisksUnder(v.fs) \ gone
  BY ViewRight, Zenon DEF ShownRight
<1> QED
  BY <1>1, <1>2, <1>3, PTL DEF Spec, BackingShown
===============================================================================
