--------------------------------- MODULE Sums ---------------------------------
(* Sums over a finite set: what the fold of the community modules computes,   *)
(* by well-founded induction on the subsets of the set.                       *)
EXTENDS Integers, FiniteSets, FiniteSetsExt, FiniteSetTheorems, TLAPS

\* The sum of the values w[x] of the elements x of S.
SumOf(w, S) == MapThenSumSet(LAMBDA x : w[x], S)

Chosen(s) == CHOOSE x \in s : TRUE

\* What the fold says of the function whose value at S is the sum.
IsTable(w, g, S) ==
  g = [s \in SUBSET S |->
         IF s = {} THEN 0 ELSE w[Chosen(s)] + g[s \ {Chosen(s)}]]

-----------------------------------------------------------------------------
(* Induction *)

\* A set of subsets of a finite set has a minimal element.
LEMMA MinimalSubset ==
  ASSUME NEW S, IsFiniteSet(S), NEW T, T \subseteq SUBSET S, T # {}
  PROVE  \E x \in T : \A y \in T : y \subseteq x => y = x
<1>1. IsWellFoundedOn(StrictSubsetOrdering(S), SUBSET S)
  BY FS_StrictSubsetOrderingWellFounded, FS_FiniteSubsetsOfFinite
<1>2. PICK x \in T : \A y \in T : ~(<<y, x>> \in StrictSubsetOrdering(S))
  BY <1>1, WFMin
<1> QED BY <1>2 DEF StrictSubsetOrdering

\* Two functions that add up the same values agree where both are defined.
LEMMA SumsAgree ==
  ASSUME NEW w, NEW S, NEW T, IsFiniteSet(S), NEW g, NEW h,
         IsTable(w, g, S), IsTable(w, h, T)
  PROVE  \A s \in SUBSET S : s \in SUBSET T => g[s] = h[s]
<1> DEFINE Bad == {s \in SUBSET S : s \in SUBSET T /\ g[s] # h[s]}
<1> SUFFICES ASSUME Bad # {} PROVE FALSE
  OBVIOUS
<1>1. PICK x \in Bad : \A y \in Bad : y \subseteq x => y = x
  <2>1. Bad \subseteq SUBSET S
    OBVIOUS
  <2> HIDE DEF Bad
  <2> QED BY <2>1, MinimalSubset
<1>2. /\ g[x] = IF x = {} THEN 0 ELSE w[Chosen(x)] + g[x \ {Chosen(x)}]
      /\ h[x] = IF x = {} THEN 0 ELSE w[Chosen(x)] + h[x \ {Chosen(x)}]
  BY DEF IsTable
<1>3. x # {}
  BY <1>2
<1>4. Chosen(x) \in x
  BY <1>3 DEF Chosen
<1>5. x \ {Chosen(x)} \notin Bad
  BY <1>1, <1>4
<1> QED BY <1>2, <1>3, <1>5

\* There is such a function for every finite set.
LEMMA SumsExist ==
  ASSUME NEW w, NEW S, IsFiniteSet(S)
  PROVE  \E g : IsTable(w, g, S)
<1> DEFINE Bad == {s \in SUBSET S : ~\E g : IsTable(w, g, s)}
<1> SUFFICES ASSUME Bad # {} PROVE FALSE
  OBVIOUS
<1>1. PICK x \in Bad : \A y \in Bad : y \subseteq x => y = x
  <2>1. Bad \subseteq SUBSET S
    OBVIOUS
  <2> HIDE DEF Bad
  <2> QED BY <2>1, MinimalSubset
<1> DEFINE H(s) == CHOOSE g : IsTable(w, g, s)
           Next(s) == s \ {Chosen(s)}
           G == [s \in SUBSET x |->
                   IF s = {} THEN 0 ELSE w[Chosen(s)] + H(Next(s))[Next(s)]]
<1>2. \A s \in SUBSET x : s # x => IsTable(w, H(s), s)
  <2>1. \A s \in SUBSET x : s # x => \E g : IsTable(w, g, s)
    BY <1>1
  <2> QED BY <2>1
<1>3. \A s \in SUBSET x : s # {} => Chosen(s) \in s /\ Next(s) \in SUBSET x /\ Next(s) # x
  BY DEF Chosen
<1>4. ASSUME NEW s \in SUBSET x, s # x
      PROVE  G[s] = H(s)[s]
  <2>1. H(s)[s] = IF s = {} THEN 0 ELSE w[Chosen(s)] + H(s)[Next(s)]
    <3>1. IsTable(w, H(s), s)
      BY <1>2, <1>4
    <3> HIDE DEF H
    <3> QED BY <3>1 DEF IsTable
  <2>2. CASE s = {}
    BY <2>1, <2>2
  <2>3. CASE s # {}
    <3>1. IsTable(w, H(Next(s)), Next(s)) /\ IsTable(w, H(s), s)
      BY <1>2, <1>3, <1>4, <2>3
    <3>2. IsFiniteSet(Next(s))
      BY FS_Subset
    <3>3. H(Next(s))[Next(s)] = H(s)[Next(s)]
      <4> HIDE DEF H
      <4> QED BY <3>1, <3>2, SumsAgree
    <3> QED BY <2>1, <2>3, <3>3
  <2> QED BY <2>2, <2>3
<1>5. IsTable(w, G, x)
  <2>1. \A s \in SUBSET x : s # {} => G[Next(s)] = H(Next(s))[Next(s)]
    BY <1>3, <1>4
  <2>2. G = [s \in SUBSET x |->
               IF s = {} THEN 0 ELSE w[Chosen(s)] + G[Next(s)]]
    <3>1. \A s \in SUBSET x : G[s] =
            IF s = {} THEN 0 ELSE w[Chosen(s)] + H(Next(s))[Next(s)]
      OBVIOUS
    <3>2. \A s \in SUBSET x : G[s] =
            IF s = {} THEN 0 ELSE w[Chosen(s)] + G[Next(s)]
      <4> HIDE DEF G, H, Next
      <4> QED BY <2>1, <3>1
    <3>3. G = [s \in SUBSET x |-> G[s]]
      OBVIOUS
    <3> HIDE DEF G
    <3> QED BY <3>2, <3>3
  <2> QED BY <2>2 DEF IsTable
<1> QED BY <1>5

-----------------------------------------------------------------------------
(* What the sum is *)

LEMMA SumIsFold ==
  ASSUME NEW w, NEW S
  PROVE  SumOf(w, S) = (CHOOSE g : IsTable(w, g, S))[S]
  BY DEF SumOf, MapThenSumSet, MapThenFoldSet, IsTable, Chosen

LEMMA SumUnfolds ==
  ASSUME NEW w, NEW S, IsFiniteSet(S)
  PROVE  SumOf(w, S) =
           IF S = {} THEN 0 ELSE w[Chosen(S)] + SumOf(w, S \ {Chosen(S)})
<1> DEFINE H(s) == CHOOSE g : IsTable(w, g, s)
           R == S \ {Chosen(S)}
<1>1. IsFiniteSet(R)
  BY FS_Subset
<1>2. IsTable(w, H(S), S) /\ IsTable(w, H(R), R)
  BY <1>1, SumsExist
<1>3. SumOf(w, S) = H(S)[S] /\ SumOf(w, R) = H(R)[R]
  BY SumIsFold
<1> HIDE DEF H
<1>4. H(S)[S] = IF S = {} THEN 0 ELSE w[Chosen(S)] + H(S)[R]
  BY <1>2 DEF IsTable
<1>5. H(R)[R] = H(S)[R]
  BY <1>1, <1>2, SumsAgree
<1> QED BY <1>3, <1>4, <1>5

LEMMA SumEmpty == \A w : SumOf(w, {}) = 0
  BY SumUnfolds, FS_EmptySet

\* A sum of integers is an integer.
LEMMA SumInt ==
  ASSUME NEW w, NEW S, IsFiniteSet(S), \A x \in S : w[x] \in Int
  PROVE  SumOf(w, S) \in Int
<1> DEFINE Bad == {s \in SUBSET S : SumOf(w, s) \notin Int}
<1> SUFFICES ASSUME Bad # {} PROVE FALSE
  OBVIOUS
<1>1. PICK x \in Bad : \A y \in Bad : y \subseteq x => y = x
  <2>1. Bad \subseteq SUBSET S
    OBVIOUS
  <2> HIDE DEF Bad
  <2> QED BY <2>1, MinimalSubset
<1>2. SumOf(w, x) = IF x = {} THEN 0 ELSE w[Chosen(x)] + SumOf(w, x \ {Chosen(x)})
  BY SumUnfolds, FS_Subset
<1>3. x # {}
  BY <1>2
<1>4. Chosen(x) \in x
  BY <1>3 DEF Chosen
<1>5. SumOf(w, x \ {Chosen(x)}) \in Int
  BY <1>1, <1>4
<1> QED BY <1>2, <1>4, <1>5

\* Any element can be taken out of a sum first.
LEMMA SumRemove ==
  ASSUME NEW w, NEW S, IsFiniteSet(S), \A x \in S : w[x] \in Int, NEW x \in S
  PROVE  SumOf(w, S) = w[x] + SumOf(w, S \ {x})
<1> DEFINE Bad == {s \in SUBSET S :
             \E y \in s : SumOf(w, s) # w[y] + SumOf(w, s \ {y})}
<1> SUFFICES ASSUME Bad # {} PROVE FALSE
  OBVIOUS
<1>1. PICK s \in Bad : \A t \in Bad : t \subseteq s => t = s
  <2>1. Bad \subseteq SUBSET S
    OBVIOUS
  <2> HIDE DEF Bad
  <2> QED BY <2>1, MinimalSubset
<1>2. PICK y \in s : SumOf(w, s) # w[y] + SumOf(w, s \ {y})
  OBVIOUS
<1> DEFINE p == Chosen(s)
<1>3. p \in s
  BY DEF Chosen
<1> HIDE DEF p
<1>4. SumOf(w, s) = w[p] + SumOf(w, s \ {p})
  BY SumUnfolds, FS_Subset DEF p
<1>5. y # p
  BY <1>2, <1>4
<1>6. SumOf(w, s \ {p}) = w[y] + SumOf(w, (s \ {p}) \ {y})
  <2>1. s \ {p} \notin Bad
    BY <1>1, <1>3
  <2> QED BY <1>3, <1>5, <2>1
<1>7. SumOf(w, s \ {y}) = w[p] + SumOf(w, (s \ {y}) \ {p})
  <2>1. s \ {y} \notin Bad
    BY <1>1
  <2> QED BY <1>3, <1>5, <2>1
<1>8. (s \ {p}) \ {y} = (s \ {y}) \ {p}
  OBVIOUS
<1>9. SumOf(w, (s \ {y}) \ {p}) \in Int /\ w[p] \in Int /\ w[y] \in Int
  BY <1>3, SumInt, FS_Subset
<1>10. SumOf(w, (s \ {p}) \ {y}) = SumOf(w, (s \ {y}) \ {p})
  BY <1>8
<1> HIDE DEF Bad
<1> QED BY <1>2, <1>4, <1>6, <1>7, <1>9, <1>10

-----------------------------------------------------------------------------
(* Monotonicity, union, update *)

\* A sum of naturals does not shrink when elements are added.
LEMMA SumMonotone ==
  ASSUME NEW w, NEW S, NEW T, IsFiniteSet(S), T \subseteq S,
         \A x \in S : w[x] \in Nat
  PROVE  SumOf(w, T) \in Nat /\ SumOf(w, T) <= SumOf(w, S)
<1>1. SumOf(w, T) \in Nat
  <2> DEFINE Bad == {s \in SUBSET S : SumOf(w, s) \notin Nat}
  <2> SUFFICES ASSUME Bad # {} PROVE FALSE
    OBVIOUS
  <2>1. PICK x \in Bad : \A y \in Bad : y \subseteq x => y = x
    <3>1. Bad \subseteq SUBSET S
      OBVIOUS
    <3> HIDE DEF Bad
    <3> QED BY <3>1, MinimalSubset
  <2>2. x # {}
    BY SumEmpty
  <2>3. PICK y \in x : TRUE
    BY <2>2
  <2>4. SumOf(w, x) = w[y] + SumOf(w, x \ {y})
    BY SumRemove, FS_Subset
  <2>5. SumOf(w, x \ {y}) \in Nat
    BY <2>1
  <2> QED BY <2>4, <2>5
<1>2. SumOf(w, T) <= SumOf(w, S)
  <2> DEFINE Bad == {s \in SUBSET S : T \subseteq s /\ ~(SumOf(w, T) <= SumOf(w, s))}
  <2> SUFFICES ASSUME Bad # {} PROVE FALSE
    OBVIOUS
  <2>1. PICK x \in Bad : \A y \in Bad : y \subseteq x => y = x
    <3>1. Bad \subseteq SUBSET S
      OBVIOUS
    <3> HIDE DEF Bad
    <3> QED BY <3>1, MinimalSubset
  <2>2. x # T
    BY <1>1
  <2>3. PICK y \in x \ T : TRUE
    BY <2>2
  <2>4. SumOf(w, x) = w[y] + SumOf(w, x \ {y})
    BY SumRemove, FS_Subset
  <2>5. SumOf(w, T) <= SumOf(w, x \ {y})
    BY <2>1, <2>3
  <2>6. SumOf(w, x \ {y}) \in Int
    BY SumInt, FS_Subset
  <2> QED BY <1>1, <2>4, <2>5, <2>6
<1> QED BY <1>1, <1>2

\* The sum over two disjoint sets is the sum of the sums.
LEMMA SumUnion ==
  ASSUME NEW w, NEW S, NEW T, IsFiniteSet(S), IsFiniteSet(T), S \cap T = {},
         \A x \in S \cup T : w[x] \in Int
  PROVE  SumOf(w, S \cup T) = SumOf(w, S) + SumOf(w, T)
<1> DEFINE Bad == {s \in SUBSET S :
             SumOf(w, s \cup T) # SumOf(w, s) + SumOf(w, T)}
<1> SUFFICES ASSUME Bad # {} PROVE FALSE
  OBVIOUS
<1>1. PICK x \in Bad : \A y \in Bad : y \subseteq x => y = x
  <2>1. Bad \subseteq SUBSET S
    OBVIOUS
  <2> HIDE DEF Bad
  <2> QED BY <2>1, MinimalSubset
<1>2. IsFiniteSet(x) /\ IsFiniteSet(x \cup T)
  BY FS_Subset, FS_Union
<1>3. SumOf(w, T) \in Int
  BY SumInt
<1>4. x # {}
  <2>1. {} \cup T = T
    OBVIOUS
  <2>2. SumOf(w, {} \cup T) = SumOf(w, {}) + SumOf(w, T)
    BY <1>3, <2>1, SumEmpty
  <2> QED BY <2>2
<1>5. PICK y \in x : TRUE
  BY <1>4
<1>6. SumOf(w, x) = w[y] + SumOf(w, x \ {y})
  BY <1>2, SumRemove
<1>7. SumOf(w, x \cup T) = w[y] + SumOf(w, (x \cup T) \ {y})
  BY <1>2, SumRemove
<1>8. (x \cup T) \ {y} = (x \ {y}) \cup T
  OBVIOUS
<1>9. SumOf(w, (x \ {y}) \cup T) = SumOf(w, x \ {y}) + SumOf(w, T)
  BY <1>1
<1>10. SumOf(w, x \ {y}) \in Int /\ w[y] \in Int
  BY <1>2, SumInt, FS_Subset
<1>11. SumOf(w, (x \cup T) \ {y}) = SumOf(w, (x \ {y}) \cup T)
  BY <1>8
<1>12. SumOf(w, x \cup T) = SumOf(w, x) + SumOf(w, T)
  BY <1>3, <1>6, <1>7, <1>9, <1>10, <1>11
<1> QED BY <1>12

\* Equal values have equal sums.
LEMMA SumSame ==
  ASSUME NEW w, NEW z, NEW S, IsFiniteSet(S), \A x \in S : w[x] = z[x]
  PROVE  SumOf(w, S) = SumOf(z, S)
<1> DEFINE Bad == {s \in SUBSET S : SumOf(w, s) # SumOf(z, s)}
<1> SUFFICES ASSUME Bad # {} PROVE FALSE
  OBVIOUS
<1>1. PICK x \in Bad : \A y \in Bad : y \subseteq x => y = x
  <2>1. Bad \subseteq SUBSET S
    OBVIOUS
  <2> HIDE DEF Bad
  <2> QED BY <2>1, MinimalSubset
<1>2. /\ SumOf(w, x) = IF x = {} THEN 0 ELSE w[Chosen(x)] + SumOf(w, x \ {Chosen(x)})
      /\ SumOf(z, x) = IF x = {} THEN 0 ELSE z[Chosen(x)] + SumOf(z, x \ {Chosen(x)})
  BY SumUnfolds, FS_Subset
<1>3. x # {}
  BY <1>2
<1>4. Chosen(x) \in x
  BY <1>3 DEF Chosen
<1>5. SumOf(w, x \ {Chosen(x)}) = SumOf(z, x \ {Chosen(x)})
  BY <1>1, <1>4
<1> QED BY <1>2, <1>3, <1>4, <1>5

LEMMA SumZero ==
  ASSUME NEW w, NEW S, IsFiniteSet(S), \A x \in S : w[x] = 0
  PROVE  SumOf(w, S) = 0
<1> DEFINE Bad == {s \in SUBSET S : SumOf(w, s) # 0}
<1> SUFFICES ASSUME Bad # {} PROVE FALSE
  OBVIOUS
<1>1. PICK x \in Bad : \A y \in Bad : y \subseteq x => y = x
  <2>1. Bad \subseteq SUBSET S
    OBVIOUS
  <2> HIDE DEF Bad
  <2> QED BY <2>1, MinimalSubset
<1>2. x # {}
  BY SumEmpty
<1>3. PICK y \in x : TRUE
  BY <1>2
<1>4. SumOf(w, x) = w[y] + SumOf(w, x \ {y})
  BY SumRemove, FS_Subset
<1>5. SumOf(w, x \ {y}) = 0
  BY <1>1, <1>3
<1> QED BY <1>1, <1>3, <1>4, <1>5

\* A sum of sums is the sum of the two.
LEMMA SumPlus ==
  ASSUME NEW w, NEW z, NEW v, NEW S, IsFiniteSet(S),
         \A x \in S : w[x] \in Int /\ z[x] \in Int /\ v[x] = w[x] + z[x]
  PROVE  /\ SumOf(w, S) \in Int /\ SumOf(z, S) \in Int
         /\ SumOf(v, S) = SumOf(w, S) + SumOf(z, S)
<1> DEFINE Bad == {s \in SUBSET S : SumOf(v, s) # SumOf(w, s) + SumOf(z, s)}
<1>1. \A s \in SUBSET S : IsFiniteSet(s) /\ SumOf(w, s) \in Int /\ SumOf(z, s) \in Int
  BY SumInt, FS_Subset
<1>2. Bad = {}
  <2> SUFFICES ASSUME Bad # {} PROVE FALSE
    OBVIOUS
  <2>1. PICK x \in Bad : \A y \in Bad : y \subseteq x => y = x
    <3>1. Bad \subseteq SUBSET S
      OBVIOUS
    <3> HIDE DEF Bad
    <3> QED BY <3>1, MinimalSubset
  <2>2. x # {}
    <3>1. SumOf(v, {}) = SumOf(w, {}) + SumOf(z, {})
      <4>1. SumOf(v, {}) = 0 /\ SumOf(w, {}) = 0 /\ SumOf(z, {}) = 0
        BY SumEmpty
      <4> QED BY <4>1
    <3> QED BY <3>1
  <2>3. PICK y \in x : TRUE
    BY <2>2
  <2> DEFINE R == x \ {y}
  <2>4. x \in SUBSET S /\ R \in SUBSET S /\ y \in S /\ R \notin Bad
    BY <2>1, <2>3
  <2>5. SumOf(v, R) = SumOf(w, R) + SumOf(z, R)
    BY <2>4
  <2>6. \A u \in x : w[u] \in Int /\ z[u] \in Int /\ v[u] \in Int
    BY <2>4
  <2>7. /\ SumOf(w, x) = w[y] + SumOf(w, R) /\ SumOf(z, x) = z[y] + SumOf(z, R)
        /\ SumOf(v, x) = v[y] + SumOf(v, R)
    BY <1>1, <2>3, <2>4, <2>6, SumRemove
  <2>8. SumOf(w, R) \in Int /\ SumOf(z, R) \in Int /\ v[y] = w[y] + z[y]
    BY <1>1, <2>4
  <2> HIDE DEF R
  <2>9. SumOf(v, x) = SumOf(w, x) + SumOf(z, x)
    BY <2>3, <2>5, <2>6, <2>7, <2>8
  <2> QED BY <2>1, <2>9
<1>3. S \in SUBSET S /\ S \notin Bad
  BY <1>2
<1> QED BY <1>1, <1>3

\* What is less element by element has a lesser sum.
LEMMA SumBelow ==
  ASSUME NEW w, NEW z, NEW S, IsFiniteSet(S),
         \A x \in S : w[x] \in Int /\ z[x] \in Int /\ w[x] <= z[x]
  PROVE  SumOf(w, S) \in Int /\ SumOf(z, S) \in Int /\ SumOf(w, S) <= SumOf(z, S)
<1> DEFINE d == [x \in S |-> z[x] - w[x]]
<1>1. \A x \in S : w[x] \in Int /\ d[x] \in Int /\ d[x] \in Nat /\ z[x] = w[x] + d[x]
  OBVIOUS
<1> HIDE DEF d
<1>2. SumOf(w, S) \in Int /\ SumOf(d, S) \in Int /\ SumOf(z, S) = SumOf(w, S) + SumOf(d, S)
  <2>1. \A x \in S : w[x] \in Int /\ d[x] \in Int /\ z[x] = w[x] + d[x]
    BY <1>1
  <2> QED BY <2>1, SumPlus
<1>3. SumOf(d, S) \in Nat
  BY <1>1, SumMonotone
<1> QED BY <1>2, <1>3

\* The change of one value changes the sum by as much.
LEMMA SumUpdate ==
  ASSUME NEW w, NEW z, NEW S, IsFiniteSet(S), \A x \in S : w[x] \in Int,
         NEW x \in S, z[x] \in Int, \A y \in S \ {x} : z[y] = w[y]
  PROVE  SumOf(z, S) = SumOf(w, S) + (z[x] - w[x])
<1>1. SumOf(w, S) = w[x] + SumOf(w, S \ {x})
  BY SumRemove
<1>2. SumOf(z, S) = z[x] + SumOf(z, S \ {x})
  BY SumRemove
<1>3. SumOf(w, S \ {x}) = SumOf(z, S \ {x})
  BY SumSame, FS_Subset
<1>4. SumOf(w, S \ {x}) \in Int
  BY SumInt, FS_Subset
<1> QED BY <1>1, <1>2, <1>3, <1>4

-----------------------------------------------------------------------------
(* One element moves *)

\* What one element adds to a sum.
PartOf(w, S, x) == IF x \in S THEN w[x] ELSE 0

\* At most x is new in the table z and the set U, or has left them or changed.
Moves(w, z, T, U, x) ==
  /\ IsFiniteSet(T)
  /\ \A y \in T : w[y] \in Int
  /\ \A y \in U : z[y] \in Int
  /\ \A y \in T : y # x => z[y] = w[y]
  /\ \A y : y # x => (y \in T <=> y \in U)

\* A sum changes with an element that enters or leaves the set, or stays in it
\* with another value.
LEMMA SumMoves ==
  ASSUME NEW w, NEW z, NEW T, NEW U, NEW x, Moves(w, z, T, U, x)
  PROVE  /\ SumOf(w, T) \in Int /\ PartOf(w, T, x) \in Int /\ PartOf(z, U, x) \in Int
         /\ SumOf(z, U) = SumOf(w, T) + (PartOf(z, U, x) - PartOf(w, T, x))
<1> USE DEF Moves
<1> DEFINE R == T \ {x}
<1>1. IsFiniteSet(R) /\ SumOf(w, T) \in Int
  BY FS_RemoveElement, SumInt
<1>2. SumOf(w, R) \in Int /\ SumOf(w, T) = SumOf(w, R) + (IF x \in T THEN w[x] ELSE 0)
  <2>1. CASE x \in T
    <3>1. SumOf(w, T) = w[x] + SumOf(w, R)
      BY <2>1, SumRemove
    <3>2. SumOf(w, R) \in Int
      BY <1>1, SumInt
    <3> QED BY <2>1, <3>1, <3>2
  <2>2. CASE x \notin T
    <3>1. R = T
      BY <2>2
    <3> HIDE DEF R
    <3> QED BY <1>1, <2>2, <3>1
  <2> QED BY <2>1, <2>2
<1>3. SumOf(z, U) = SumOf(z, R) + (IF x \in U THEN z[x] ELSE 0)
  <2>1. SumOf(z, R) \in Int
    BY <1>1, SumInt
  <2>2. CASE x \in U
    <3>1. IsFiniteSet(U)
      <4>1. U = R \cup {x}
        BY <2>2
      <4> HIDE DEF R
      <4> QED BY <1>1, <4>1, FS_AddElement
    <3>2. SumOf(z, U) = z[x] + SumOf(z, U \ {x})
      BY <2>2, <3>1, SumRemove
    <3>3. U \ {x} = R
      OBVIOUS
    <3> HIDE DEF R
    <3>4. SumOf(z, U \ {x}) = SumOf(z, R)
      BY <3>3
    <3> QED BY <2>1, <2>2, <3>2, <3>4
  <2>3. CASE x \notin U
    <3>1. R = U
      BY <2>3
    <3> HIDE DEF R
    <3> QED BY <2>1, <2>3, <3>1
  <2> QED BY <2>2, <2>3
<1>4. SumOf(z, R) = SumOf(w, R)
  BY <1>1, SumSame
<1>5. PartOf(w, T, x) \in Int /\ PartOf(z, U, x) \in Int
  BY DEF PartOf
<1> HIDE DEF R
<1> QED BY <1>1, <1>2, <1>3, <1>4, <1>5 DEF PartOf

\* So does the number of its elements.
LEMMA CardinalityMoves ==
  ASSUME NEW T, NEW U, NEW x, IsFiniteSet(T),
         \A y : y # x => (y \in T <=> y \in U)
  PROVE  /\ Cardinality(T) \in Nat /\ IsFiniteSet(U)
         /\ Cardinality(U) = Cardinality(T) - (IF x \in T THEN 1 ELSE 0)
                                            + (IF x \in U THEN 1 ELSE 0)
<1> DEFINE R == T \ {x}
<1>1. /\ IsFiniteSet(R) /\ Cardinality(T) \in Nat
      /\ Cardinality(R) = IF x \in T THEN Cardinality(T) - 1 ELSE Cardinality(T)
  BY FS_RemoveElement, FS_CardinalityType
<1>2. U = IF x \in U THEN R \cup {x} ELSE R
  OBVIOUS
<1>3. x \notin R
  OBVIOUS
<1> HIDE DEF R
<1>4. /\ IsFiniteSet(R \cup {x})
      /\ Cardinality(R \cup {x}) = Cardinality(R) + 1
  BY <1>1, <1>3, FS_AddElement
<1>5. CASE x \in U
  <2>1. U = R \cup {x}
    BY <1>2, <1>5
  <2> QED BY <1>1, <1>4, <1>5, <2>1
<1>6. CASE x \notin U
  <2>1. U = R
    BY <1>2, <1>6
  <2> QED BY <1>1, <1>6, <2>1
<1> QED BY <1>5, <1>6

-----------------------------------------------------------------------------
(* Shares that are rounded down *)

\* A share of n in proportion to w[x] out of p.
Shares(w, z, S, n, p) ==
  /\ IsFiniteSet(S) /\ n \in Nat /\ p \in Nat \ {0}
  /\ \A x \in S : w[x] \in Nat /\ z[x] = (w[x] * n) \div p

LEMMA OneShare ==
  ASSUME NEW c \in Nat, NEW p \in Nat \ {0}
  PROVE  c \div p \in Nat /\ (c \div p) * p <= c
  OBVIOUS

LEMMA SharesTyped ==
  ASSUME NEW w, NEW z, NEW S, NEW n, NEW p, Shares(w, z, S, n, p)
  PROVE  \A x \in S : z[x] \in Nat /\ z[x] * p <= w[x] * n
<1> SUFFICES ASSUME NEW x \in S PROVE z[x] \in Nat /\ z[x] * p <= w[x] * n
  OBVIOUS
<1>1. w[x] \in Nat /\ n \in Nat /\ p \in Nat \ {0} /\ z[x] = (w[x] * n) \div p
  BY DEF Shares
<1>2. w[x] * n \in Nat
  BY <1>1
<1> QED BY <1>1, <1>2, OneShare

\* Together the shares are no more than the sum is due.
LEMMA SharesBounded ==
  ASSUME NEW w, NEW z, NEW S, NEW n, NEW p, Shares(w, z, S, n, p)
  PROVE  SumOf(z, S) \in Nat /\ SumOf(w, S) \in Nat /\ SumOf(z, S) * p <= SumOf(w, S) * n
<1>1. /\ IsFiniteSet(S) /\ n \in Nat /\ p \in Nat
      /\ \A x \in S : w[x] \in Nat /\ z[x] \in Nat /\ z[x] * p <= w[x] * n
  <2>1. \A x \in S : z[x] \in Nat /\ z[x] * p <= w[x] * n
    BY SharesTyped
  <2> QED BY <2>1 DEF Shares
<1>2. \A s \in SUBSET S : IsFiniteSet(s) /\ SumOf(w, s) \in Nat /\ SumOf(z, s) \in Nat
  BY <1>1, SumMonotone, FS_Subset
<1> DEFINE Bad == {s \in SUBSET S : ~(SumOf(z, s) * p <= SumOf(w, s) * n)}
<1>3. Bad = {}
  <2> SUFFICES ASSUME Bad # {} PROVE FALSE
    OBVIOUS
  <2>1. PICK x \in Bad : \A y \in Bad : y \subseteq x => y = x
    <3>1. Bad \subseteq SUBSET S
      OBVIOUS
    <3> HIDE DEF Bad
    <3> QED BY <1>1, <3>1, MinimalSubset
  <2>2. x # {}
    <3>1. SumOf(z, {}) = 0 /\ SumOf(w, {}) = 0
      BY SumEmpty
    <3>2. 0 * p = 0 /\ 0 * n = 0
      BY <1>1
    <3> QED BY <3>1, <3>2
  <2>3. PICK y \in x : TRUE
    BY <2>2
  <2> DEFINE R == x \ {y}
  <2>4. x \in SUBSET S /\ R \in SUBSET S /\ y \in S /\ R \notin Bad
    BY <2>1, <2>3
  <2>5. SumOf(z, R) * p <= SumOf(w, R) * n
    BY <2>4
  <2> HIDE DEF R
  <2>6. SumOf(z, x) = z[y] + SumOf(z, R) /\ SumOf(w, x) = w[y] + SumOf(w, R)
    <3>1. \A v \in x : z[v] \in Int /\ w[v] \in Int
      BY <1>1, <2>4
    <3>2. IsFiniteSet(x)
      BY <1>2, <2>4
    <3> QED BY <2>3, <3>1, <3>2, SumRemove DEF R
  <2>7. \A a, b, c, d, j, k \in Nat : a * j <= c * k /\ b * j <= d * k => (a + b) * j <= (c + d) * k
    OBVIOUS
  <2>8. (z[y] + SumOf(z, R)) * p <= (w[y] + SumOf(w, R)) * n
    <3>1. /\ z[y] \in Nat /\ w[y] \in Nat /\ SumOf(z, R) \in Nat /\ SumOf(w, R) \in Nat
          /\ z[y] * p <= w[y] * n
      BY <1>1, <1>2, <2>4
    <3> HIDE DEF Bad
    <3> QED BY <1>1, <2>5, <2>7, <3>1
  <2> QED BY <2>1, <2>6, <2>8
<1>4. S \in SUBSET S /\ S \notin Bad
  BY <1>3
<1> QED BY <1>2, <1>4

\* Whoever takes a share, and in whatever order: together they take no more than
\* there is to share out.
LEMMA SharesCovered ==
  ASSUME NEW w, NEW z, NEW S, NEW n, NEW p, Shares(w, z, S, n, p), SumOf(w, S) <= p
  PROVE  SumOf(z, S) \in Nat /\ SumOf(z, S) <= n
<1>1. /\ SumOf(z, S) \in Nat /\ SumOf(w, S) \in Nat /\ SumOf(z, S) * p <= SumOf(w, S) * n
      /\ n \in Nat /\ p \in Nat \ {0}
  BY SharesBounded DEF Shares
<1>2. \A a, b, j \in Nat, k \in Nat \ {0} : a * k <= b * j /\ b <= k => a <= j
  <2> SUFFICES ASSUME NEW a \in Nat, NEW b \in Nat, NEW j \in Nat, NEW k \in Nat \ {0},
                      a * k <= b * j, b <= k, a >= j + 1
               PROVE  FALSE
    OBVIOUS
  <2>1. b * j <= k * j
    OBVIOUS
  <2>2. a * k >= (j + 1) * k
    OBVIOUS
  <2>3. (j + 1) * k = j * k + k /\ k * j = j * k /\ j * k \in Nat
    OBVIOUS
  <2>4. a * k \in Nat /\ b * j \in Nat
    OBVIOUS
  <2> QED BY <2>1, <2>2, <2>3, <2>4
<1> QED BY <1>1, <1>2
=============================================================================
